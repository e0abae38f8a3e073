------------------------------ MODULE Reachability ------------------------------
(***************************************************************************)
(* What the workspace shows of the coordinators of others                  *)
(* (HostWorkspace.svelte).  Two sources tell it: a probe that asks the     *)
(* relays for fresh heartbeats of every coordinator it has rooms of, every *)
(* twelve seconds and at every occasion, and the session of the chat that  *)
(* is open, which reports when its synchronization begins to fail or to    *)
(* succeed (room-store.ts).  A probe waits for the relays while the other  *)
(* source goes on, so it may end after something newer is known.           *)
(***************************************************************************)
EXTENDS Naturals, FiniteSets

CONSTANTS
  Coordinators,   \* those of others
  Chat,           \* the one whose room is open in the workspace, when one is
  MaxProbes,      \* bound: probes that wait for the relays at one time
  MaxEvents,      \* bound: coordinators that stop or start, rooms that come or go, ...
  MaxMisses       \* bound: answers of relays or of a coordinator that are lost

VARIABLES
  state,      \* external, of a coordinator: "up", "stale" (gone, but its last heartbeat
              \* is still fresh) or "down"
  deleted,    \* external: the coordinator of the chat has deleted its room
  onLine,     \* navigator.onLine
  mounted,    \* the workspace is shown
  rooms,      \* coordinators with a stored room
  open,       \* embeddedChatActive
  measured,   \* remoteCoordinatorReachability; "none" without an entry
  signature,  \* reachabilityTargetsSignature
  probes,     \* [1..MaxProbes -> a probe that waits, or Idle]
  connection, \* of the session
  wasOnline,  \* serverWasOnline
  sync,       \* the session's synchronization: "idle", "asked", "succeeds" or "fails"
  stopped,    \* the session was stopped
  events, misses  \* counted for the bounds

world == <<state, deleted, onLine, rooms>>
page == <<mounted, open, measured, signature, probes>>
chat == <<connection, wasOnline, sync, stopped>>
counted == <<events, misses>>
reachVars == <<world, page, chat, counted>>

\* A probe: whether the generation is still its own, what each target's relays said, and
\* (for the property) the coordinators a session reached since it was started.
Idle == [current |-> FALSE, answers |-> <<>>, confirmed |-> {}]
Probe(targets) == [current |-> TRUE, answers |-> [c \in targets |-> "awaited"],
                   confirmed |-> {}]
Waiting(p) == p # Idle

Targets == rooms \union (IF open THEN {Chat} ELSE {})

Init ==
  /\ state \in [Coordinators -> {"up", "down"}] /\ deleted \in BOOLEAN
  /\ onLine = TRUE /\ mounted = FALSE /\ open = FALSE
  /\ rooms \in SUBSET Coordinators
  /\ measured = [c \in Coordinators |-> "none"] /\ signature = {}
  /\ probes = [i \in 1..MaxProbes |-> Idle]
  /\ connection = "connecting" /\ wasOnline = FALSE /\ sync = "idle" /\ stopped = TRUE
  /\ events = 0 /\ misses = 0

Event == events < MaxEvents /\ events' = events + 1
Missed == misses < MaxMisses /\ misses' = misses + 1

-----------------------------------------------------------------------------
(* Probes.                                                                 *)

\* reachabilityProbeGeneration += 1: what the relays still say to the probes that wait is
\* not read.
Outdated(ps) == [i \in DOMAIN ps |-> [ps[i] EXCEPT !.current = FALSE, !.answers = <<>>]]

\* Mutant: evidence of a session leaves the probes that wait as they are.
StillCurrent(ps) == ps

\* A session was reached: fresher than what any waiting probe will say.
Superseded(ps) == Outdated(ps)

Confirmed(ps, c) ==
  [i \in DOMAIN ps |-> IF Waiting(ps[i]) THEN [ps[i] EXCEPT !.confirmed = @ \union {c}]
                       ELSE ps[i]]

\* Targets that are new are shown as being checked, those that are gone not at all.
Listed(m, targets) ==
  [c \in Coordinators |-> IF c \notin targets THEN "none"
                          ELSE IF m[c] = "none" THEN "connecting" ELSE m[c]]

AllOffline(targets) ==
  [c \in Coordinators |-> IF c \in targets THEN "offline" ELSE "none"]

\* probeRemoteCoordinators() from its call to its await: what it leaves in the list and
\* among the probes, of which it outdates the others.
ProbesFrom(m, ps, targets, online) ==
  IF ~online THEN measured' = AllOffline(targets) /\ probes' = Outdated(ps)
  ELSE /\ measured' = Listed(m, targets)
       /\ IF targets = {} THEN probes' = Outdated(ps)
          ELSE \E i \in DOMAIN ps :
                 /\ ~Waiting(ps[i]) /\ \A j \in 1..(i - 1) : Waiting(ps[j])
                 /\ probes' = [Outdated(ps) EXCEPT ![i] = Probe(targets)]

\* probeRemoteCoordinatorsIfTargetsChanged(), of targets that the step leaves.
IfTargetsChanged(targets) ==
  /\ signature' = targets
  /\ IF targets = signature THEN UNCHANGED <<measured, probes>>
     ELSE ProbesFrom(measured, probes, targets, onLine)

\* The interval, and a page that is visible again.  The relays are given 1.5 s to answer
\* and the interval is 12 s.
Tick ==
  /\ mounted /\ \A i \in DOMAIN probes : ~probes[i].current
  /\ ProbesFrom(measured, probes, Targets, onLine)
  /\ UNCHANGED <<world, mounted, open, signature, chat, counted>>

VisibleAgain ==
  /\ mounted /\ onLine /\ Event
  /\ ProbesFrom(measured, probes, Targets, onLine)
  /\ UNCHANGED <<world, mounted, open, signature, chat, misses>>

\* isRunning(): the newest heartbeat a relay returns in time is fresh and not of a stop.
RelaysAnswer(i, c) ==
  /\ Waiting(probes[i]) /\ c \in DOMAIN probes[i].answers
  /\ probes[i].answers[c] = "awaited"
  /\ \/ /\ probes' = [probes EXCEPT ![i].answers[c] =
                        IF onLine /\ state[c] # "down" THEN "online" ELSE "offline"]
        /\ UNCHANGED misses
     \/ Missed /\ probes' = [probes EXCEPT ![i].answers[c] = "offline"]
  /\ UNCHANGED <<world, mounted, open, measured, signature, chat, events>>

\* The rest of probeRemoteCoordinators(), with the events for those that returned: their
\* handler finds them online already, and outdates every probe.
Returned(i, m) ==
  {c \in DOMAIN probes[i].answers : probes[i].answers[c] = "online" /\ m[c] = "offline"}

ProbeEnds(i) ==
  /\ Waiting(probes[i]) /\ \A c \in DOMAIN probes[i].answers : probes[i].answers[c] # "awaited"
  /\ LET rest == [probes EXCEPT ![i] = Idle]
     IN IF ~probes[i].current THEN probes' = rest /\ UNCHANGED measured
        ELSE /\ measured' = [c \in Coordinators |-> IF c \in DOMAIN probes[i].answers
                                                    THEN probes[i].answers[c] ELSE "none"]
             /\ probes' = IF Returned(i, measured) = {} THEN rest ELSE Superseded(rest)
  /\ UNCHANGED <<world, mounted, open, signature, chat, counted>>

-----------------------------------------------------------------------------
(* Events of sessions, as the workspace hears them.                        *)

HearsOnline(c) ==
  IF ~mounted THEN UNCHANGED <<measured, probes>>
  ELSE /\ measured' = [measured EXCEPT ![c] = "online"]
       /\ probes' = Superseded(Confirmed(probes, c))

HearsOffline(c) ==
  IF ~mounted THEN UNCHANGED <<measured, probes>>
  ELSE ProbesFrom([measured EXCEPT ![c] = "connecting"], probes, Targets, onLine)

\* markServerOnline(), markServerOffline(): heard only when that is news.
MarkServerOnline ==
  /\ connection' = "connected" /\ wasOnline' = TRUE
  /\ IF wasOnline THEN UNCHANGED <<measured, probes>> ELSE HearsOnline(Chat)

MarkServerOffline ==
  /\ connection' = "offline" /\ wasOnline' = FALSE
  /\ IF connection = "offline" THEN UNCHANGED <<measured, probes>> ELSE HearsOffline(Chat)

SyncBegins ==
  /\ ~stopped /\ sync = "idle" /\ sync' = "asked"
  /\ UNCHANGED <<world, page, connection, wasOnline, stopped, counted>>

\* The coordinator answers, or does not; it refuses for a room it has deleted.
SyncAnswered ==
  /\ sync = "asked"
  /\ \/ /\ sync' = IF onLine /\ state[Chat] = "up" /\ ~deleted THEN "succeeds" ELSE "fails"
        /\ UNCHANGED misses
     \/ Missed /\ sync' = "fails"
  /\ UNCHANGED <<world, page, connection, wasOnline, stopped, events>>

\* The end of syncOnce(): a stopped session keeps a success to itself, not a failure.
SyncEnds ==
  /\ sync' = "idle"
  /\ \/ sync = "succeeds" /\ ~stopped /\ MarkServerOnline
     \/ sync = "succeeds" /\ stopped /\ UNCHANGED <<connection, wasOnline, measured, probes>>
     \/ sync = "fails" /\ MarkServerOffline
  /\ UNCHANGED <<world, mounted, open, signature, stopped, counted>>

-----------------------------------------------------------------------------
(* The page.                                                               *)

\* onMount(): refreshRemoteRooms(), then the listeners and the interval.
Mount ==
  /\ ~mounted /\ mounted' = TRUE /\ open' = FALSE
  /\ IfTargetsChanged(rooms)
  /\ UNCHANGED <<world, chat, counted>>

\* onDestroy(); nothing is left but the probes that wait.
Unmount ==
  /\ mounted /\ mounted' = FALSE /\ open' = FALSE /\ Event
  /\ probes' = Outdated(probes)
  /\ measured' = [c \in Coordinators |-> "none"] /\ signature' = {}
  /\ stopped' = TRUE
  /\ UNCHANGED <<world, connection, wasOnline, sync, misses>>

\* A room of another coordinator is opened beside the rail, with a session of its own.
OpenChat ==
  /\ mounted /\ ~open /\ sync = "idle" /\ Event /\ open' = TRUE
  /\ IfTargetsChanged(rooms \union {Chat})
  /\ connection' = "connecting" /\ wasOnline' = FALSE /\ stopped' = FALSE
  /\ UNCHANGED <<world, mounted, sync, misses>>

CloseChat ==
  /\ open /\ Event /\ open' = FALSE /\ stopped' = TRUE
  /\ IfTargetsChanged(rooms)
  /\ UNCHANGED <<world, mounted, connection, wasOnline, sync, misses>>

\* refreshRemoteRooms() when the stored rooms change, here or in another tab.
RoomsChange(c) ==
  /\ Event
  /\ rooms' = IF c \in rooms THEN rooms \ {c} ELSE rooms \union {c}
  /\ IF mounted THEN IfTargetsChanged(rooms' \union (IF open THEN {Chat} ELSE {}))
     ELSE UNCHANGED <<measured, signature, probes>>
  /\ UNCHANGED <<state, deleted, onLine, mounted, open, chat, misses>>

\* The browser loses its network: the workspace hears it, and so does the session, whose
\* own report starts a probe that ends at once.
GoesOffline ==
  /\ onLine /\ onLine' = FALSE /\ Event
  /\ IF mounted THEN measured' = AllOffline(Targets) /\ probes' = Outdated(probes)
     ELSE UNCHANGED <<measured, probes>>
  /\ IF stopped THEN UNCHANGED <<connection, wasOnline>>
     ELSE connection' = "offline" /\ wasOnline' = FALSE
  /\ UNCHANGED <<state, deleted, rooms, mounted, open, signature, sync, stopped, misses>>

\* It is back: a probe, and a synchronization unless one is under way.
GoesOnline ==
  /\ ~onLine /\ onLine' = TRUE
  /\ IF mounted THEN ProbesFrom(measured, probes, Targets, TRUE)
     ELSE UNCHANGED <<measured, probes>>
  /\ sync' = IF ~stopped /\ sync = "idle" THEN "asked" ELSE sync
  /\ UNCHANGED <<state, deleted, rooms, mounted, open, signature, connection, wasOnline, stopped,
                 counted>>

-----------------------------------------------------------------------------
(* External: coordinators.                                                 *)

Starts(c) ==
  /\ state[c] # "up" /\ Event /\ state' = [state EXCEPT ![c] = "up"]
  /\ UNCHANGED <<deleted, onLine, rooms, page, chat, misses>>

\* It stops, with a last heartbeat that says so, or it vanishes.
Stops(c) ==
  /\ state[c] = "up" /\ Event /\ \E s \in {"stale", "down"} : state' = [state EXCEPT ![c] = s]
  /\ UNCHANGED <<deleted, onLine, rooms, page, chat, misses>>

HeartbeatExpires(c) ==
  /\ state[c] = "stale" /\ state' = [state EXCEPT ![c] = "down"]
  /\ UNCHANGED <<deleted, onLine, rooms, page, chat, counted>>

Next ==
  \/ Tick \/ VisibleAgain \/ SyncBegins \/ SyncAnswered \/ SyncEnds
  \/ Mount \/ Unmount \/ OpenChat \/ CloseChat \/ GoesOffline \/ GoesOnline
  \/ \E i \in 1..MaxProbes : ProbeEnds(i) \/ \E c \in Coordinators : RelaysAnswer(i, c)
  \/ \E c \in Coordinators : RoomsChange(c) \/ Starts(c) \/ Stops(c) \/ HeartbeatExpires(c)

Spec == Init /\ [][Next]_reachVars

-----------------------------------------------------------------------------

\* Mutant: a session that fails is taken for a coordinator that is gone.
SessionDecides(c) ==
  IF open /\ c = Chat /\ connection = "connected" THEN "online"
  ELSE IF open /\ c = Chat /\ connection = "offline" THEN "offline"
  ELSE IF measured[c] # "none" THEN measured[c] ELSE "unknown"

\* externalCoordinatorReachability()
Shown(c) ==
  IF open /\ c = Chat /\ connection = "connected" THEN "online"
  ELSE IF measured[c] # "none" THEN measured[c]
  ELSE IF open /\ c = Chat THEN connection
  ELSE "unknown"

\* "A successful room sync is fresher evidence than an older heartbeat request that may
\* still be in flight": what the workspace lists for a coordinator that a session has
\* reached is not changed by the end of a probe that was started before.
FresherEvidenceStands ==
  [][\A i \in 1..MaxProbes, c \in Coordinators :
       c \in probes[i].confirmed /\ probes'[i] = Idle => measured'[c] = measured[c]]_reachVars

\* Whatever happened, and however probes, reports of sessions and changes of the rooms
\* overtook each other, the workspace ends by showing every coordinator it lists as it is,
\* the one that has deleted the room whose session fails included.
ShownAsItIs ==
  mounted /\ onLine =>
    \A c \in Targets : Shown(c) = (IF state[c] = "up" THEN "online" ELSE "offline")
ReachabilitySettles == <>[]ShownAsItIs
=================================================================================
