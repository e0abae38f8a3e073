------------------------------ MODULE RoomReading ------------------------------
(***************************************************************************)
(* What the members of a room see of it: which messages are unread, and    *)
(* which reactions a message has (room-store.ts, protocol.ts, and the      *)
(* routes that show a room).                                               *)
(*                                                                         *)
(* Two people write in one room, each with one or more devices, and one    *)
(* reacts to the messages of the other.  A device works on a copy of the   *)
(* room in memory, saves it at some of its steps, and reads it again after *)
(* a reload.  Of a reaction the room keeps the latest one per message and  *)
(* person: by cursor where both have one, otherwise by the clocks of the   *)
(* devices that made them, which may differ.                               *)
(*                                                                         *)
(* One shortcut stands for all of them, since they have nothing in common, *)
(* and every member is in the room and follows its commits (RoomSync has   *)
(* both).  A millisecond is the unit of time, and a second has two.        *)
(***************************************************************************)
EXTENDS Integers, SequencesExt, FiniteSetsExt

CONSTANTS
  Alice, Bob,      \* the devices of the one and the other
  OfAlice, OfBob,  \* the messages they write
  MaxClicks,       \* bound: clicks on a reaction
  MaxFaults,       \* bound: calls that fail and pages that are closed
  Ahead            \* by how much the clock of a device may be ahead

VARIABLES
  log,       \* the records of the room at the coordinator; a cursor is a place in it
  live,      \* [Devices -> the room in memory]
  saved,     \* [Devices -> the room in localStorage]
  session,   \* [Devices -> the session: connection, its step, what it has fetched]
  ahead,     \* [Devices -> how far its clock is ahead]
  now, faults, \* time, and faults so far
  skipped,   \* history: [Devices -> cursors that an own post has jumped over]
  read       \* history: [Devices -> messages acknowledged: by its session, while cached]

vars == <<log, live, saved, session, ahead, now, faults, skipped, read>>

Devices == Alice \union Bob
AllMessages == OfAlice \union OfBob
Mine(d) == IF d \in Alice THEN OfAlice ELSE OfBob
Foreign(d) == AllMessages \ Mine(d)

Another == "another device"
NoReaction == [on |-> FALSE, at |-> 0, cursor |-> 0, id |-> 0]

\* What is posted: a message, or a reaction; by is the device.
Message(d, m) == [reaction |-> FALSE, of |-> m, on |-> FALSE, at |-> 0, id |-> 0, by |-> d]
Reaction(d, m, on, at, id) ==
  [reaction |-> TRUE, of |-> m, on |-> on, at |-> at, id |-> id, by |-> d]

\* MLS decrypts what other devices have sent, also those of the same person.
Decrypts(d, record) == record.by # d

\* Only whole seconds are written into the event.
Wire(record) == [record EXCEPT !.at = @ - (@ % 2)]

NewSession == [attached |-> FALSE, connection |-> "cached", pc |-> "idle",
               until |-> 0, counts |-> FALSE, clicks |-> <<>>]
Attached == [NewSession EXCEPT !.attached = TRUE, !.connection = "connecting"]

-----------------------------------------------------------------------------
(* The projection of reactions.                                            *)

\* Mutant: the clocks decide, also between records that have cursors.
LaterByClock(next, prior) ==
  IF next.at # prior.at THEN next.at > prior.at ELSE next.id > prior.id

IsLater(next, prior) ==
  IF next.cursor # 0 /\ prior.cursor # 0 /\ next.cursor # prior.cursor
  THEN next.cursor > prior.cursor
  ELSE IF next.at # prior.at THEN next.at > prior.at ELSE next.id > prior.id

\* The reaction of a record at a cursor; a pending one has none.
Stored(record, cursor) ==
  [on |-> record.on, at |-> record.at, cursor |-> cursor, id |-> record.id]

\* A reaction counts if its message is there and nothing later is known.
ApplyReaction(room, record, cursor) ==
  LET next == Stored(record, cursor)
      prior == room.reactions[record.of]
  IN  IF record.of \in room.messages /\ (prior.id = 0 \/ IsLater(next, prior))
      THEN [room EXCEPT !.reactions[record.of] = next]
      ELSE room

\* Of the reactions of one person to a message the latest is kept.
Projection(all) ==
  IF all = {} THEN NoReaction ELSE CHOOSE r \in all : \A q \in all \ {r} : IsLater(r, q)

\* readStoredRoom: what an older release has stored as messages becomes reactions.
ReadStoredRoom(room) ==
  LET all(m) == {Stored(log[c], c) : c \in {i \in room.inline : log[i].of = m}}
                  \union ({room.reactions[m]} \ {NoReaction})
  IN  [room EXCEPT !.inline = {}, !.reactions = [m \in AllMessages |-> Projection(all(m))]]

-----------------------------------------------------------------------------

EmptyRoom == [messages |-> {}, inline |-> {}, reactions |-> [m \in AllMessages |-> NoReaction],
              pending |-> <<>>, cursor |-> 0, unread |-> 0, baseline |-> FALSE]

\* The room is new, or an older release has read a message and two reactions to it.
OldLog(d, m) ==
  <<Message(d, m), Wire(Reaction(Another, m, TRUE, 0, 1)),
    Wire(Reaction(Another, m, FALSE, 0, 2))>>
OldRoom(m) == [EmptyRoom EXCEPT !.messages = {m}, !.inline = {2, 3}, !.cursor = 3]

Init ==
  /\ \/ log = <<>> /\ saved = [d \in Devices |-> EmptyRoom]
     \/ \E b \in Bob, m \in OfBob :
          log = OldLog(b, m) /\ saved = [d \in Devices |-> OldRoom(m)]
  /\ live = [d \in Devices |-> ReadStoredRoom(saved[d])]
  /\ session = [d \in Devices |-> Attached]
  /\ ahead \in [Devices -> {0, Ahead}] /\ \A d \in Bob : ahead[d] = 0
  /\ now = 3 /\ faults = 0
  /\ skipped = [d \in Devices |-> {}]
  /\ read = [d \in Devices |-> [session |-> {}, cached |-> {}]]

Set(d, room) == live' = [live EXCEPT ![d] = room]
Save(d, room) == Set(d, room) /\ saved' = [saved EXCEPT ![d] = room]
Idle(d) == session[d].attached /\ session[d].pc = "idle"

\* The route gets a signer and attaches a session to the room it shows.
Attach(d) ==
  /\ ~session[d].attached
  /\ session' = [session EXCEPT ![d] = Attached]
  /\ UNCHANGED <<log, live, saved, ahead, now, faults, skipped, read>>

\* The page is closed at any point and opened again: the room is read from the storage
\* and shown without a session.
Reload(d) ==
  /\ session[d].attached /\ faults < MaxFaults
  /\ faults' = faults + 1
  /\ Set(d, ReadStoredRoom(saved[d]))
  /\ session' = [session EXCEPT ![d] = NewSession]
  /\ skipped' = [skipped EXCEPT ![d] = {c \in @ : c <= saved[d].cursor}]
  /\ UNCHANGED <<log, saved, ahead, now, read>>

\* send, which the room's queue of operations lets run alone.
Send(d, m) ==
  /\ Idle(d) /\ session[d].connection = "connected"
  /\ m \in Mine(d)
  /\ \A e \in Devices : Mine(e) = Mine(d) => m \notin live[e].messages \union saved[e].messages
  /\ \A c \in DOMAIN log : log[c].of # m
  /\ Save(d, [live[d] EXCEPT !.messages = @ \union {m}, !.pending = Append(@, Message(d, m))])
  /\ session' = [session EXCEPT ![d].pc = "flush"]
  /\ UNCHANGED <<log, ahead, now, faults, skipped, read>>

\* A click on a reaction toggles what is shown; one in the picker asks for it.  What is
\* wanted is decided now, and done when the operations before it are through.
Click(d, m, picked) ==
  /\ session[d].connection = "connected"
  /\ m \in live[d].messages \ Mine(d)
  /\ session' = [session EXCEPT ![d].clicks =
                   Append(@, [of |-> m, on |-> picked \/ ~live[d].reactions[m].on])]
  /\ UNCHANGED <<log, live, saved, ahead, now, faults, skipped, read>>

Clicks == now - 3 + FoldSet(LAMBDA d, n : n + Len(session[d].clicks), 0, Devices)

\* setReaction: the reaction shows at once and waits to be posted.
SetReaction(d) ==
  LET click == Head(session[d].clicks)
      record == Reaction(d, click.of, click.on, now + 1 + ahead[d], now + 1)
  IN  /\ Idle(d) /\ session[d].clicks # <<>>
      /\ now' = now + 1
      /\ IF session[d].connection = "connected"
         THEN /\ Save(d, [ApplyReaction(live[d], record, 0) EXCEPT
                            !.pending = Append(@, record)])
              /\ session' = [session EXCEPT ![d].clicks = Tail(@), ![d].pc = "flush"]
         ELSE /\ session' = [session EXCEPT ![d].clicks = Tail(@)]
              /\ UNCHANGED <<live, saved>>
      /\ UNCHANGED <<log, ahead, faults, skipped, read>>

\* sync, by the timer or because the network is back; one that has nothing to do is left
\* out.
Sync(d) ==
  /\ Idle(d)
  /\ \/ session[d].connection # "connected" \/ live[d].pending # <<>>
     \/ live[d].cursor < Len(log)
  /\ session' = [session EXCEPT ![d].pc = "flush"]
  /\ UNCHANGED <<log, live, saved, ahead, now, faults, skipped, read>>

\* The room after its first pending record was posted at a cursor.
Posted(room, cursor) ==
  LET record == Head(room.pending)
      m == record.of
  IN  [room EXCEPT
        !.cursor = cursor,
        !.pending = Tail(@),
        !.reactions[m] = IF record.reaction /\ @.id = record.id
                         THEN [@ EXCEPT !.cursor = cursor] ELSE @]

\* flushPending
Post(d) ==
  LET cursor == Len(log) + 1
  IN  /\ session[d].pc = "flush" /\ live[d].pending # <<>>
      /\ log' = Append(log, Wire(Head(live[d].pending)))
      /\ Set(d, Posted(live[d], cursor))
      /\ skipped' = [skipped EXCEPT ![d] = @ \union (live[d].cursor + 1 .. Len(log))]
      /\ UNCHANGED <<saved, session, ahead, now, faults, read>>

\* A call fails, before the coordinator has done it or after: the room is saved as it is,
\* and the device is offline until it synchronises again.
CallFails(d) ==
  /\ session[d].pc = "flush" /\ faults < MaxFaults
  /\ faults' = faults + 1
  /\ \/ log' = log
     \/ live[d].pending # <<>> /\ log' = Append(log, Wire(Head(live[d].pending)))
  /\ session' = [session EXCEPT ![d].pc = "idle", ![d].connection = "offline"]
  /\ Save(d, live[d])
  /\ UNCHANGED <<ahead, now, skipped, read>>

\* pullMessages: the records behind the cursor are fetched; what is new counts as unread
\* unless this is the first time.
Fetch(d) ==
  /\ session[d].pc = "flush" /\ live[d].pending = <<>>
  /\ session' = [session EXCEPT ![d].pc = "pull", ![d].until = Len(log),
                                ![d].counts = live[d].baseline]
  /\ UNCHANGED <<log, live, saved, ahead, now, faults, skipped, read>>

\* incrementUnread, for a message that was not there.
Counted(d, room, m) ==
  IF session[d].counts /\ m \in Foreign(d) /\ m \notin room.messages
  THEN room.unread + 1 ELSE room.unread

\* One record is decrypted and applied; other things may happen before the next one.
Pull(d) ==
  LET c == live[d].cursor + 1
      record == log[c]
      room == [live[d] EXCEPT !.cursor = c]
  IN  /\ session[d].pc = "pull" /\ live[d].cursor < session[d].until
      /\ Set(d, CASE ~Decrypts(d, record) -> room
                  [] Decrypts(d, record) /\ record.reaction -> ApplyReaction(room, record, c)
                  [] Decrypts(d, record) /\ ~record.reaction ->
                       [room EXCEPT !.unread = Counted(d, room, record.of),
                                    !.messages = @ \union {record.of}])
      /\ UNCHANGED <<log, saved, session, ahead, now, faults, skipped, read>>

\* The end of a synchronisation: the first one sets the baseline, and the room is saved.
PullEnd(d) ==
  /\ session[d].pc = "pull" /\ live[d].cursor >= session[d].until
  /\ session' = [session EXCEPT ![d].pc = "idle", ![d].connection = "connected",
                                ![d].until = 0, ![d].counts = FALSE]
  /\ IF session[d].counts
     THEN Save(d, live[d]) /\ UNCHANGED read
     ELSE /\ Save(d, [live[d] EXCEPT !.unread = 0, !.baseline = TRUE])
          /\ read' = [read EXCEPT ![d].session = @ \union live[d].messages]
  /\ UNCHANGED <<log, ahead, now, faults, skipped>>

\* Mutant: the acknowledgement waits for the next synchronisation to be saved.
KeepForLater(d) == Set(d, [live[d] EXCEPT !.unread = 0]) /\ UNCHANGED saved

\* markRead
Acknowledged(d) == Save(d, [live[d] EXCEPT !.unread = 0])

\* roomUnreadCount
Unread(room) == IF room.baseline THEN room.unread ELSE 0

\* The room that is shown may be acknowledged when it is visible.
ToAcknowledge(d) == session[d].connection # "connecting" /\ Unread(live[d]) > 0

\* The room is visible while it has unread messages, also in the middle of a pull.
MarkRead(d) ==
  /\ session[d].attached /\ ToAcknowledge(d)
  /\ Acknowledged(d)
  /\ read' = [read EXCEPT ![d].session = @ \union live[d].messages]
  /\ UNCHANGED <<log, session, ahead, now, faults, skipped>>

\* markRoomRead, when the room that is shown has no session: the stored room is changed,
\* the shown one is not.
MarkRoomRead(d) ==
  /\ ~session[d].attached /\ ToAcknowledge(d)
  /\ saved' = [saved EXCEPT ![d] = [ReadStoredRoom(@) EXCEPT !.unread = 0, !.baseline = TRUE]]
  /\ read' = [read EXCEPT ![d].cached = @ \union saved[d].messages]
  /\ UNCHANGED <<log, live, session, ahead, now, faults, skipped>>

Step(d) ==
  \/ Attach(d) \/ Reload(d)
  \/ \E m \in Mine(d) : Send(d, m)
  \/ Clicks < MaxClicks /\ \E m \in Foreign(d), picked \in BOOLEAN : Click(d, m, picked)
  \/ SetReaction(d) \/ Sync(d) \/ Post(d) \/ CallFails(d)
  \/ Fetch(d) \/ Pull(d) \/ PullEnd(d)
  \/ MarkRead(d) \/ MarkRoomRead(d)

\* What a device has fetched is no concern of the others: while one pulls, they rest,
\* which loses no state of any device.
Next == \E d \in Devices : Step(d) /\ \A e \in Devices \ {d} : session[e].pc # "pull"

Spec == Init /\ [][Next]_vars

-----------------------------------------------------------------------------
(* Properties.                                                             *)

\* The reactions to m that a device has gone through.
ReactionsTo(m, d) == {c \in 1..live[d].cursor : log[c].reaction /\ log[c].of = m}

\* Whether the clock can matter: the device shows its own person's reaction, which it
\* may have compared before it had a cursor.
ByClock(d, m) ==
  m \in Foreign(d) /\ \E e \in Devices : Mine(e) = Mine(d) /\ ahead[e] # ahead[d]

\* A device shows of a person the reaction that the coordinator has recorded last among
\* those the device has gone through, however posts are repeated, devices of one person
\* answer each other, an older release has stored them, or the page is reloaded; unless
\* its own post has jumped over that one or over the message (a reaction that comes
\* before its message, which is posted again, is dropped), or it waits to post another.
\* Devices of one person whose clocks differ are excepted for that person's own
\* reactions (isLaterReaction, applyReaction, readStoredRoom).
LastReactionIsShown ==
  \A d \in Devices : \A m \in live[d].messages :
    LET seen == ReactionsTo(m, d)
    IN  (/\ seen # {}
         /\ Max(seen) \notin skipped[d]
         /\ \A c \in skipped[d] : log[c].reaction \/ log[c].of # m
         /\ \A i \in DOMAIN live[d].pending : live[d].pending[i].of # m
         /\ ~ByClock(d, m))
        => live[d].reactions[m].on = log[Max(seen)].on

\* The unread count of the room in memory is the number of the other's messages that
\* came since the device acknowledged: none is counted twice when its post was repeated,
\* none comes back after an acknowledgement and a reload, and none is missing but those
\* that were acknowledged while the room had no session (pullMessages, markRead).
UnreadIsWhatCame ==
  \A d \in Devices :
    LET came == IF live[d].baseline THEN live[d].messages \intersect Foreign(d) ELSE {}
    IN  /\ Unread(live[d]) <= Cardinality(came \ read[d].session)
        /\ Unread(live[d]) >= Cardinality(came \ (read[d].session \union read[d].cached))
===============================================================================
