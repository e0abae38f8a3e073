-------------------------- MODULE CoordinatorStreams --------------------------
(***************************************************************************)
(* The group logs of the coordinator (InMemoryCoordinatorStorage), its     *)
(* registry of live subscribers (Coordinator) and the stream handlers that *)
(* the wire adapter runs for msg_sub and msg_sub_many (CoordinatorAdapter).*)
(*                                                                         *)
(* The coordinator runs on one event loop: an action is what one handler   *)
(* does between two awaits.  A single-group handler registers a queue,     *)
(* fetches its backlog, and then writes the backlog and the queue one      *)
(* record per await; posts, deletions and aborts come in between.          *)
(*                                                                         *)
(* Abstractions.  A record is its cursor.  A payload, a sender and a time  *)
(* are opaque to this code.  The coordinator never parses MLS framing, so  *)
(* every record of a group carries the same epoch, and a since_epoch       *)
(* filter keeps all of a backlog or cuts all of it.  The queue of a        *)
(* multi-group stream is kept as one FIFO per group: the order between     *)
(* groups is left open.                                                    *)
(***************************************************************************)
EXTENDS Naturals, Sequences

CONSTANTS Groups,       \* room group identifiers
          Streams,      \* msg_sub and msg_sub_many calls, each made once
          MaxMessages,  \* bound: records posted to one group
          MaxAfter,     \* bound: largest "after" cursor a peer sends
          Undefined,    \* the absent "after" of a request
          PersistFails  \* whether writing the snapshot may throw (quota)

ASSUME StreamsAssumption ==
  /\ MaxMessages \in Nat
  /\ MaxAfter \in Nat
  /\ Undefined \notin Nat
  /\ PersistFails \in BOOLEAN

VARIABLES
  groups,         \* the keys of the storage's map of group logs
  deletedGroups,  \* the storage's tombstones
  nextCursor,     \* [Groups -> Nat]: GroupLog.nextCursor
  messages,       \* [Groups -> Seq(Nat)]: the array GroupLog.messages
  subscribers,    \* [Groups -> SUBSET Streams]: groupSubscribers
  kind,           \* [Streams -> {"none", "single", "many"}]
  wanted,         \* [Streams -> SUBSET Groups]: groups of the request
  pc,             \* where the handler awaits
  backlog,        \* [Streams -> Backlogs]: what a single stream replays
  queue,          \* [Streams -> [Groups -> Seq(Nat)]]: AsyncMessageQueue
  closed,         \* streams whose queue is closed
  active,         \* streams whose transport is open: stream.isActive
  lastEmitted,    \* lastEmittedCursor (single), cursorsByGroup (many)
  from,           \* history: the position the stream was opened at
  out,            \* history: [Streams -> [Groups -> Seq(Nat)]], cursors written
  unpublished     \* history: cursors appended by posts that then failed

storageVars == <<groups, deletedGroups, nextCursor, messages, unpublished>>
requestVars == <<kind, wanted, from>>
vars == <<storageVars, subscribers, requestVars, pc, backlog, queue, closed,
          active, lastEmitted, out>>

Running == {"starting", "backlog", "live"}
Sinces == {"absent", "kept", "cut"}
NoBacklog == [aliased |-> FALSE, next |-> 1, end |-> 0]
Empty == [g \in Groups |-> <<>>]
Zero == [g \in Groups |-> 0]

Init ==
  /\ groups = {}
  /\ deletedGroups = {}
  /\ nextCursor = [g \in Groups |-> 1]
  /\ messages = Empty
  /\ unpublished = [g \in Groups |-> {}]
  /\ subscribers = [g \in Groups |-> {}]
  /\ kind = [s \in Streams |-> "none"]
  /\ wanted = [s \in Streams |-> {}]
  /\ from = [s \in Streams |-> Zero]
  /\ pc = [s \in Streams |-> "idle"]
  /\ backlog = [s \in Streams |-> NoBacklog]
  /\ queue = [s \in Streams |-> Empty]
  /\ closed = {}
  /\ active = {}
  /\ lastEmitted = [s \in Streams |-> Zero]
  /\ out = [s \in Streams |-> Empty]

-------------------------------------------------------------------------------
(* Storage and live fan-out. *)

\* Mutant: the append forgets assertGroupAvailable.
AppendToTombstone(g) ==
  /\ nextCursor[g] <= MaxMessages
  /\ groups' = groups \union {g}
  /\ messages' = [messages EXCEPT ![g] = Append(@, nextCursor[g])]
  /\ nextCursor' = [nextCursor EXCEPT ![g] = @ + 1]
  /\ UNCHANGED deletedGroups

\* appendGroupMessage: refused for a tombstone, else the next cursor.
Append1(g) ==
  /\ g \notin deletedGroups
  /\ nextCursor[g] <= MaxMessages
  /\ groups' = groups \union {g}
  /\ messages' = [messages EXCEPT ![g] = Append(@, nextCursor[g])]
  /\ nextCursor' = [nextCursor EXCEPT ![g] = @ + 1]
  /\ UNCHANGED deletedGroups

\* Mutant: records that arrive while the backlog is written are not queued.
AcceptsWhenLive(s, g, c) == s \in subscribers[g] /\ s \notin closed /\ pc[s] = "live"

\* push: a closed queue drops the record, a multi-group one also drops what
\* is at or below the cursor it already emitted (emitIfNew).
Accepts(s, g, c) ==
  /\ s \in subscribers[g]
  /\ s \notin closed
  /\ kind[s] = "many" => c > lastEmitted[s][g]

PublishLive(g, c) ==
  /\ queue' = [s \in Streams |->
       IF Accepts(s, g, c) THEN [queue[s] EXCEPT ![g] = Append(@, c)] ELSE queue[s]]
  /\ lastEmitted' = [s \in Streams |->
       IF Accepts(s, g, c) /\ kind[s] = "many"
       THEN [lastEmitted[s] EXCEPT ![g] = c] ELSE lastEmitted[s]]

PostGroupMessage(g) ==
  /\ Append1(g)
  /\ PublishLive(g, nextCursor[g])
  /\ UNCHANGED <<unpublished, subscribers, requestVars, pc, backlog, closed, active, out>>

\* persist() throws once the record is in memory: the poster gets an error and
\* the live subscribers are not told.
PostUnpersisted(g) ==
  /\ PersistFails
  /\ Append1(g)
  /\ unpublished' = [unpublished EXCEPT ![g] = @ \union {nextCursor[g]}]
  /\ UNCHANGED <<subscribers, requestVars, pc, backlog, queue, closed, active,
                 lastEmitted, out>>

RemoveGroup(g) ==
  /\ groups' = groups \ {g}
  /\ deletedGroups' = deletedGroups \union {g}
  /\ UNCHANGED <<nextCursor, messages, unpublished>>

\* Mutant: the other legs of a multi-group stream stay.
CloseOneLeg(g) ==
  /\ closed' = closed \union subscribers[g]
  /\ subscribers' = [subscribers EXCEPT ![g] = {}]

\* closeSubscribersForGroup: a stream of the deleted group ends altogether and
\* leaves every other group it was registered under.
CloseSubscribersForGroup(g) ==
  /\ closed' = closed \union subscribers[g]
  /\ subscribers' = [h \in Groups |-> subscribers[h] \ subscribers[g]]

DeleteGroup(g) ==
  /\ RemoveGroup(g)
  /\ CloseSubscribersForGroup(g)
  /\ UNCHANGED <<requestVars, pc, backlog, queue, active, lastEmitted, out>>

\* persist() throws in the first deletion: the tombstone stands, the streams stay.
DeleteUnpersisted(g) ==
  /\ PersistFails
  /\ g \notin deletedGroups
  /\ RemoveGroup(g)
  /\ UNCHANGED <<subscribers, requestVars, pc, backlog, queue, closed, active,
                 lastEmitted, out>>

-------------------------------------------------------------------------------
(* Opening a stream: everything up to "await stream.start()". *)

Cursor(after) == IF after = Undefined THEN 0 ELSE after

Stored(g) == IF g \in groups THEN Len(messages[g]) ELSE 0

\* fetchGroupMessages.  Cursor i is at index i, so "cursor > after" is the
\* suffix that begins at after + 1.  With neither cursor nor epoch the caller
\* gets the storage's own array, which goes on growing under its iterator.
Fetch(g, after, since) ==
  IF since = "cut" THEN NoBacklog
  ELSE [aliased |-> g \in groups /\ since = "absent" /\ after = Undefined,
        next |-> Cursor(after) + 1,
        end |-> Stored(g)]

\* The first record a stream owes is the one behind this position.
Position(g, after, since) ==
  IF since = "cut" /\ Stored(g) > Cursor(after) THEN Stored(g) ELSE Cursor(after)

Register(s, G, k) ==
  /\ pc[s] = "idle"
  /\ G \intersect deletedGroups = {}
  /\ subscribers' = [g \in Groups |-> IF g \in G THEN subscribers[g] \union {s}
                                                 ELSE subscribers[g]]
  /\ kind' = [kind EXCEPT ![s] = k]
  /\ wanted' = [wanted EXCEPT ![s] = G]
  /\ pc' = [pc EXCEPT ![s] = "starting"]
  /\ active' = active \union {s}
  /\ UNCHANGED <<storageVars, closed, out>>

SubscribeGroupMessages(s, g, after, since) ==
  /\ Register(s, {g}, "single")
  /\ backlog' = [backlog EXCEPT ![s] = Fetch(g, after, since)]
  /\ lastEmitted' = [lastEmitted EXCEPT ![s] = [Zero EXCEPT ![g] = Cursor(after)]]
  /\ from' = [from EXCEPT ![s] = [Zero EXCEPT ![g] = Position(g, after, since)]]
  /\ UNCHANGED queue

\* What replay pushes for one group: the fetched suffix, all of it new.
Replayed(b) == [i \in 1..(IF b.end < b.next THEN 0 ELSE b.end + 1 - b.next) |-> b.next + i - 1]

Larger(a, b) == IF a < b THEN b ELSE a

\* The request gives each group of G its own cursor; one epoch filter is
\* enough to tell the cases apart.
SubscribeManyGroupMessages(s, G, afters, since) ==
  /\ Register(s, G, "many")
  /\ queue' = [queue EXCEPT ![s] = [g \in Groups |->
       IF g \in G THEN Replayed(Fetch(g, afters[g], since)) ELSE <<>>]]
  /\ lastEmitted' = [lastEmitted EXCEPT ![s] = [g \in Groups |->
       IF g \notin G THEN 0
       ELSE Larger(Fetch(g, afters[g], since).end, Cursor(afters[g]))]]
  /\ from' = [from EXCEPT ![s] = [g \in Groups |->
       IF g \in G THEN Position(g, afters[g], since) ELSE 0]]
  /\ UNCHANGED backlog

-------------------------------------------------------------------------------
(* The handler, one await after the other. *)

Goto(s, label) == pc' = [pc EXCEPT ![s] = label]

\* Mutant: the queue stays open, so that the handler waits on it for ever.
LeaveGroups(s) ==
  /\ UNCHANGED closed
  /\ subscribers' = [g \in Groups |-> subscribers[g] \ {s}]

\* unsubscribe: close the queue and leave every group.
Unsubscribe(s) ==
  /\ closed' = closed \union {s}
  /\ subscribers' = [g \in Groups |-> subscribers[g] \ {s}]

StartStream(s) ==
  /\ pc[s] = "starting"
  /\ s \in active
  /\ Goto(s, IF kind[s] = "single" THEN "backlog" ELSE "live")
  /\ UNCHANGED <<storageVars, subscribers, requestVars, backlog, queue, closed, active,
                 lastEmitted, out>>

\* The iterator of an aliased array sees the records appended meanwhile.
BacklogEnd(s, g) == IF backlog[s].aliased THEN Len(messages[g]) ELSE backlog[s].end

Emit(s, g, c) == out' = [out EXCEPT ![s][g] = Append(@, c)]

WriteBacklog(s, g) ==
  /\ pc[s] = "backlog"
  /\ g \in wanted[s]
  /\ s \in active
  /\ backlog[s].next <= BacklogEnd(s, g)
  /\ LET c == messages[g][backlog[s].next] IN
       /\ Emit(s, g, c)
       /\ lastEmitted' = [lastEmitted EXCEPT ![s][g] = c]
  /\ backlog' = [backlog EXCEPT ![s].next = @ + 1]
  /\ UNCHANGED <<storageVars, subscribers, requestVars, pc, queue, closed, active>>

EndBacklog(s, g) ==
  /\ pc[s] = "backlog"
  /\ g \in wanted[s]
  /\ backlog[s].next > BacklogEnd(s, g)
  /\ Goto(s, "live")
  /\ UNCHANGED <<storageVars, subscribers, requestVars, backlog, queue, closed, active,
                 lastEmitted, out>>

\* A single stream drops what the backlog already covered, or what lies at or
\* below a cursor ahead of the log.
Skipped(s, g) == kind[s] = "single" /\ Head(queue[s][g]) <= lastEmitted[s][g]

Waiting(s, g) == pc[s] = "live" /\ g \in wanted[s] /\ queue[s][g] # <<>>

Dequeue(s, g) == queue' = [queue EXCEPT ![s][g] = Tail(@)]

SkipReplayed(s, g) ==
  /\ Waiting(s, g)
  /\ Skipped(s, g)
  /\ Dequeue(s, g)
  /\ UNCHANGED <<storageVars, subscribers, requestVars, pc, backlog, closed, active,
                 lastEmitted, out>>

WriteLive(s, g) ==
  /\ Waiting(s, g)
  /\ ~Skipped(s, g)
  /\ s \in active
  /\ Emit(s, g, Head(queue[s][g]))
  /\ Dequeue(s, g)
  /\ lastEmitted' = IF kind[s] = "single"
                    THEN [lastEmitted EXCEPT ![s][g] = Head(queue[s][g])]
                    ELSE lastEmitted
  /\ UNCHANGED <<storageVars, subscribers, requestVars, pc, backlog, closed, active>>

\* Both handlers end with cleanupSubscription and an ended transport stream.
EndHandler(s) ==
  /\ Unsubscribe(s)
  /\ Goto(s, "done")
  /\ active' = active \ {s}
  /\ UNCHANGED <<storageVars, requestVars, backlog, queue, lastEmitted, out>>

\* The queue is drained and closed: the group was deleted, or the peer left.
FinishStream(s) ==
  /\ pc[s] = "live"
  /\ s \in closed
  /\ queue[s] = Empty
  /\ EndHandler(s)

\* start() or the write under way rejects: on a dead transport it always does,
\* and the multi-group loop breaks out before it tries.
FailStream(s) ==
  /\ \/ pc[s] = "starting"
     \/ \E g \in wanted[s] : pc[s] = "backlog" /\ backlog[s].next <= BacklogEnd(s, g)
     \/ \E g \in wanted[s] : Waiting(s, g) /\ ~Skipped(s, g)
  /\ EndHandler(s)

\* The peer aborts the stream: stream.abort runs the cleanup at once, the
\* handler only notices at its next step.
PeerAbort(s) ==
  /\ pc[s] \in Running
  /\ s \in active
  /\ Unsubscribe(s)
  /\ active' = active \ {s}
  /\ UNCHANGED <<storageVars, requestVars, pc, backlog, queue, lastEmitted, out>>

-------------------------------------------------------------------------------
Afters == (0..MaxAfter) \union {Undefined}

Storage(g) ==
  \/ PostGroupMessage(g)
  \/ PostUnpersisted(g)
  \/ DeleteGroup(g)
  \/ DeleteUnpersisted(g)

Subscribe(s) ==
  \/ \E g \in Groups, after \in Afters, since \in Sinces :
       SubscribeGroupMessages(s, g, after, since)
  \/ \E G \in (SUBSET Groups) \ {{}} : \E afters \in [G -> Afters], since \in Sinces :
       SubscribeManyGroupMessages(s, G, afters, since)

Handler(s) ==
  \/ StartStream(s)
  \/ \E g \in Groups :
       \/ WriteBacklog(s, g)
       \/ EndBacklog(s, g)
       \/ SkipReplayed(s, g)
       \/ WriteLive(s, g)
  \/ FinishStream(s)
  \/ FailStream(s)

Next ==
  \/ \E g \in Groups : Storage(g)
  \/ \E s \in Streams : Subscribe(s) \/ Handler(s) \/ PeerAbort(s)

Spec == Init /\ [][Next]_vars

\* The event loop resumes every handler whose await has settled, and a write
\* settles: it is accepted or it rejects.  Peers and posters owe nothing.
FairSpec == Spec /\ \A s \in Streams : WF_vars(Handler(s))

-------------------------------------------------------------------------------
\* Every variable has the shape the code gives it.
TypeOK ==
  /\ groups \subseteq Groups
  /\ deletedGroups \subseteq Groups
  /\ nextCursor \in [Groups -> Nat]
  /\ messages \in [Groups -> Seq(Nat)]
  /\ unpublished \in [Groups -> SUBSET Nat]
  /\ subscribers \in [Groups -> SUBSET Streams]
  /\ kind \in [Streams -> {"none", "single", "many"}]
  /\ wanted \in [Streams -> SUBSET Groups]
  /\ from \in [Streams -> [Groups -> Nat]]
  /\ pc \in [Streams -> Running \union {"idle", "done"}]
  /\ backlog \in [Streams -> [aliased : BOOLEAN, next : Nat, end : Nat]]
  /\ queue \in [Streams -> [Groups -> Seq(Nat)]]
  /\ closed \subseteq Streams
  /\ active \subseteq Streams
  /\ lastEmitted \in [Streams -> [Groups -> Nat]]
  /\ out \in [Streams -> [Groups -> Seq(Nat)]]

\* A stream hands out, for each of its groups, the records behind its position
\* without a gap, a repetition or a swap, whatever is posted, deleted or aborted
\* between two of its awaits (backlog and live queue overlap), as long as no post to
\* that group has failed after its record was stored.
GapFree ==
  \A s \in Streams, g \in Groups : unpublished[g] = {} =>
    \A i \in 1..Len(out[s][g]) : out[s][g][i] = from[s][g] + i

\* A stream is registered under all of its groups as long as its queue is open,
\* and under none once it is closed: deleting one group of a multi-group stream,
\* an abort or an error leaves no leg behind.
RegisteredWhileOpen ==
  \A s \in Streams :
    {g \in Groups : s \in subscribers[g]} =
      IF pc[s] \in Running /\ s \notin closed THEN wanted[s] ELSE {}

\* "Deletion is intentionally irreversible": nothing is ever appended to a deleted
\* group again and no stream is opened on it, failed snapshot or not.
DeletionIsFinal ==
  [][\A g \in deletedGroups :
       /\ g \in deletedGroups' \ groups'
       /\ messages'[g] = messages[g]
       /\ subscribers'[g] \subseteq subscribers[g]]_vars

\* The last cursor the stream has passed in a group.
Passed(s, g) ==
  IF out[s][g] = <<>> THEN from[s][g] ELSE out[s][g][Len(out[s][g])]

\* The promise of OrderedDelivery, safety and progress, failing snapshots included.
Promise == INSTANCE OrderedDelivery WITH
  length <- [g \in Groups |-> Len(messages[g])],
  failed <- unpublished,
  deleted <- deletedGroups,
  phase <- [s \in Streams |-> IF pc[s] = "idle" THEN "idle"
                              ELSE IF pc[s] = "done" THEN "ended" ELSE "open"],
  legs <- wanted,
  position <- [s \in Streams |-> [g \in Groups |-> Passed(s, g)]],
  ending <- closed

KeepsPromise == Promise!FairSpec
===============================================================================
