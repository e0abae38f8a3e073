----------------------- MODULE CoordinatorStreamsProofs -----------------------
(***************************************************************************)
(* Proofs about CoordinatorStreams for any sets of groups and streams and  *)
(* any bounds, whether snapshots fail to be written or not: its type       *)
(* invariant, the finality of deletion, that streams are registered        *)
(* exactly while they are open, that they are free of gaps in every group  *)
(* of which no post has failed after its record was stored, and that the   *)
(* coordinator implements OrderedDelivery, fairness aside: each step of a  *)
(* stream maps to a step of the promise or to a stutter.                   *)
(***************************************************************************)
EXTENDS CoordinatorStreams, TLAPS

-------------------------------------------------------------------------------
(* The inductive invariant behind GapFree and RegisteredWhileOpen.          *)

\* A log is dense: the record with cursor i is at index i, and only a group that
\* was deleted has records outside the map.
DenseLogs ==
  \A g \in Groups :
    /\ nextCursor[g] = Len(messages[g]) + 1
    /\ \A i \in 1..Len(messages[g]) : messages[g][i] = i
    /\ g \notin groups /\ g \notin deletedGroups => messages[g] = <<>>

Open(s) == pc[s] \in Running /\ s \notin closed

Registered ==
  \A s \in Streams, g \in Groups : s \in subscribers[g] <=> Open(s) /\ g \in wanted[s]

\* How far the stream has come in a group.
Reached(s, g) == from[s][g] + Len(out[s][g])

Fresh(s) ==
  /\ out[s] = Empty
  /\ queue[s] = Empty
  /\ s \notin closed

\* What a multi-group queue holds continues what was written; while it is open
\* the two together reach the end of the log, or a position ahead of it.
ManyInv(s, g) ==
  LET q == queue[s][g]
      reach == Reached(s, g) + Len(q)
      n == Len(messages[g]) IN
  /\ pc[s] # "backlog"
  /\ \A i \in 1..Len(q) : q[i] = Reached(s, g) + i
  /\ s \notin closed => /\ lastEmitted[s][g] <= reach
                        /\ n <= reach
                        /\ n < reach => lastEmitted[s][g] = reach

\* A single stream's queue is a run of cursors that overlaps or continues what
\* the backlog covers, and holds nothing between lastEmittedCursor and Reached.
SingleInv(s, g) ==
  LET q == queue[s][g]
      p == Reached(s, g)
      n == Len(messages[g])
      covered == IF pc[s] = "live" THEN 0 ELSE BacklogEnd(s, g) IN
  /\ backlog[s].next >= 1
  /\ backlog[s].end <= n
  /\ pc[s] # "live" => \/ backlog[s].next = p + 1
                       \/ backlog[s].end = 0 /\ ~backlog[s].aliased
  /\ lastEmitted[s][g] <= p
  /\ \A i \in 1..Len(q) : q[i] = q[1] + i - 1
  /\ \A i \in 1..Len(q) : q[i] <= lastEmitted[s][g] \/ q[i] > p
  /\ q # <<>> => q[1] <= p + 1 \/ q[1] <= covered + 1
  /\ s \notin closed => /\ IF q = <<>> THEN n <= p \/ n <= covered ELSE q[Len(q)] = n
                        /\ lastEmitted[s][g] = p \/ n >= p

StreamInv(s) ==
  /\ pc[s] = "idle" => Fresh(s)
  /\ pc[s] \in Running => kind[s] \in {"single", "many"}
  /\ pc[s] = "backlog" => kind[s] = "single"
  /\ kind[s] = "single" => \E g \in Groups : wanted[s] = {g}
  /\ pc[s] \in Running => \A g \in wanted[s] : unpublished[g] = {} =>
       IF kind[s] = "single" THEN SingleInv(s, g) ELSE ManyInv(s, g)

-------------------------------------------------------------------------------
(* Type correctness. *)

LEMMA InitType == Init => TypeOK
BY StreamsAssumption DEF Init, TypeOK, NoBacklog, Empty, Zero, Running

\* Storage steps keep the types.
LEMMA StorageType ==
  ASSUME TypeOK, NEW g \in Groups, Storage(g)
  PROVE  TypeOK'
<1> USE DEF TypeOK
<1>1. CASE PostGroupMessage(g)
  <2>1. nextCursor[g] \in Nat
    OBVIOUS
  <2>2. /\ queue' \in [Streams -> [Groups -> Seq(Nat)]]
        /\ lastEmitted' \in [Streams -> [Groups -> Nat]]
    <3>1. ASSUME NEW s \in Streams
          PROVE  /\ [queue[s] EXCEPT ![g] = Append(@, nextCursor[g])] \in [Groups -> Seq(Nat)]
                 /\ [lastEmitted[s] EXCEPT ![g] = nextCursor[g]] \in [Groups -> Nat]
      <4>1. queue[s] \in [Groups -> Seq(Nat)] /\ lastEmitted[s] \in [Groups -> Nat]
        OBVIOUS
      <4>2. Append(queue[s][g], nextCursor[g]) \in Seq(Nat)
        BY <2>1, <4>1
      <4>3. QED
        BY <2>1, <4>1, <4>2
    <3>2. QED
      BY <1>1, <3>1 DEF PostGroupMessage, PublishLive
  <2>3. /\ messages' \in [Groups -> Seq(Nat)]
        /\ nextCursor' \in [Groups -> Nat]
    BY <1>1, <2>1 DEF PostGroupMessage, Append1
  <2>4. QED
    BY <1>1, <2>2, <2>3 DEF PostGroupMessage, Append1, requestVars
<1>2. CASE PostUnpersisted(g)
  BY <1>2 DEF PostUnpersisted, Append1, requestVars
<1>3. CASE DeleteGroup(g)
  BY <1>3 DEF DeleteGroup, RemoveGroup, CloseSubscribersForGroup, requestVars
<1>4. CASE DeleteUnpersisted(g)
  BY <1>4 DEF DeleteUnpersisted, RemoveGroup, requestVars
<1>5. QED
  BY <1>1, <1>2, <1>3, <1>4 DEF Storage

\* What a fetch hands to a stream has the type of a backlog.
LEMMA FetchType ==
  ASSUME TypeOK, NEW g \in Groups, NEW after \in Afters, NEW since \in Sinces
  PROVE  /\ Cursor(after) \in Nat
         /\ Stored(g) \in Nat
         /\ Position(g, after, since) \in Nat
         /\ Fetch(g, after, since) \in [aliased : BOOLEAN, next : Nat, end : Nat]
<1>1. Cursor(after) \in Nat
  BY StreamsAssumption DEF Cursor, Afters
<1>2. Stored(g) \in Nat
  BY DEF Stored, TypeOK
<1>3. QED
  BY <1>1, <1>2 DEF Position, Fetch, NoBacklog

LEMMA ReplayedType ==
  ASSUME NEW b \in [aliased : BOOLEAN, next : Nat, end : Nat], b.next >= 1
  PROVE  /\ Replayed(b) \in Seq(Nat)
         /\ Len(Replayed(b)) = IF b.end < b.next THEN 0 ELSE b.end + 1 - b.next
         /\ \A i \in 1..Len(Replayed(b)) : Replayed(b)[i] = b.next + i - 1
<1> DEFINE n == IF b.end < b.next THEN 0 ELSE b.end + 1 - b.next
<1>1. n \in Nat
  OBVIOUS
<1>2. \A i \in 1..n : b.next + i - 1 \in Nat
  OBVIOUS
<1>3. Replayed(b) = [i \in 1..n |-> b.next + i - 1]
  BY DEF Replayed
<1>4. Replayed(b) \in [1..n -> Nat]
  BY <1>2, <1>3
<1>5. Replayed(b) \in Seq(Nat)
  BY <1>1, <1>4
<1>6. Len(Replayed(b)) = n
  BY <1>1, <1>4, <1>5
<1>7. QED
  BY <1>3, <1>5, <1>6

LEMMA RegisterType ==
  ASSUME TypeOK, NEW s \in Streams, NEW G \in SUBSET Groups,
         NEW k \in {"single", "many"}, Register(s, G, k),
         queue' \in [Streams -> [Groups -> Seq(Nat)]],
         backlog' \in [Streams -> [aliased : BOOLEAN, next : Nat, end : Nat]],
         lastEmitted' \in [Streams -> [Groups -> Nat]],
         from' \in [Streams -> [Groups -> Nat]]
  PROVE  TypeOK'
<1>1. /\ subscribers' \in [Groups -> SUBSET Streams]
      /\ kind' \in [Streams -> {"none", "single", "many"}]
      /\ wanted' \in [Streams -> SUBSET Groups]
      /\ pc' \in [Streams -> Running \union {"idle", "done"}]
  BY DEF TypeOK, Register, Running
<1>2. UNCHANGED <<storageVars, closed, out>> /\ active' \subseteq Streams
  BY DEF TypeOK, Register
<1>3. QED
  BY <1>1, <1>2 DEF TypeOK, storageVars

LEMMA SubscribeType ==
  ASSUME TypeOK, NEW s \in Streams, Subscribe(s)
  PROVE  TypeOK'
<1>1. ASSUME NEW g \in Groups, NEW after \in Afters, NEW since \in Sinces,
             SubscribeGroupMessages(s, g, after, since)
      PROVE  TypeOK'
  <2>1. /\ Cursor(after) \in Nat
        /\ Position(g, after, since) \in Nat
        /\ Fetch(g, after, since) \in [aliased : BOOLEAN, next : Nat, end : Nat]
    BY FetchType
  <2>2. [Zero EXCEPT ![g] = Cursor(after)] \in [Groups -> Nat]
    BY <2>1 DEF Zero
  <2>3. [Zero EXCEPT ![g] = Position(g, after, since)] \in [Groups -> Nat]
    BY <2>1 DEF Zero
  <2>4. /\ backlog' \in [Streams -> [aliased : BOOLEAN, next : Nat, end : Nat]]
        /\ lastEmitted' \in [Streams -> [Groups -> Nat]]
        /\ from' \in [Streams -> [Groups -> Nat]]
    BY <1>1, <2>1, <2>2, <2>3 DEF SubscribeGroupMessages, TypeOK
  <2>5. Register(s, {g}, "single") /\ queue' \in [Streams -> [Groups -> Seq(Nat)]]
    BY <1>1 DEF SubscribeGroupMessages, TypeOK
  <2>6. QED
    BY <2>4, <2>5, RegisterType
<1>2. ASSUME NEW G \in SUBSET Groups, NEW afters \in [G -> Afters], NEW since \in Sinces,
             SubscribeManyGroupMessages(s, G, afters, since)
      PROVE  TypeOK'
  <2>1. \A g \in G : /\ Cursor(afters[g]) \in Nat
                     /\ Position(g, afters[g], since) \in Nat
                     /\ Fetch(g, afters[g], since).end \in Nat
                     /\ Replayed(Fetch(g, afters[g], since)) \in Seq(Nat)
    <3> TAKE g \in G
    <3>1. /\ Cursor(afters[g]) \in Nat
          /\ Position(g, afters[g], since) \in Nat
          /\ Fetch(g, afters[g], since) \in [aliased : BOOLEAN, next : Nat, end : Nat]
      BY FetchType
    <3>2. Fetch(g, afters[g], since).next >= 1
      BY <3>1 DEF Fetch, NoBacklog
    <3>3. QED
      BY <3>1, <3>2, ReplayedType
  <2>2. [g \in Groups |-> IF g \in G THEN Replayed(Fetch(g, afters[g], since)) ELSE <<>>]
          \in [Groups -> Seq(Nat)]
    BY <2>1
  <2>3. [g \in Groups |-> IF g \notin G THEN 0
           ELSE Larger(Fetch(g, afters[g], since).end, Cursor(afters[g]))] \in [Groups -> Nat]
    BY <2>1 DEF Larger
  <2>4. [g \in Groups |-> IF g \in G THEN Position(g, afters[g], since) ELSE 0]
          \in [Groups -> Nat]
    BY <2>1
  <2>5. /\ queue' \in [Streams -> [Groups -> Seq(Nat)]]
        /\ lastEmitted' \in [Streams -> [Groups -> Nat]]
        /\ from' \in [Streams -> [Groups -> Nat]]
    BY <1>2, <2>2, <2>3, <2>4 DEF SubscribeManyGroupMessages, TypeOK
  <2>6. /\ Register(s, G, "many")
        /\ backlog' \in [Streams -> [aliased : BOOLEAN, next : Nat, end : Nat]]
    BY <1>2 DEF SubscribeManyGroupMessages, TypeOK
  <2>7. QED
    BY <2>5, <2>6, RegisterType
<1>3. QED
  BY <1>1, <1>2 DEF Subscribe

LEMMA EndHandlerType ==
  ASSUME TypeOK, NEW s \in Streams, EndHandler(s)
  PROVE  TypeOK'
BY DEF TypeOK, EndHandler, Unsubscribe, Goto, storageVars, requestVars

\* A fetched backlog never reaches beyond the array it was taken from.
BacklogInArray ==
  \A s \in Streams :
    /\ pc[s] = "idle" => backlog[s] = NoBacklog
    /\ backlog[s].next >= 1
    /\ \A g \in wanted[s] : backlog[s].end <= Len(messages[g])

LEMMA HandlerType ==
  ASSUME TypeOK, BacklogInArray, NEW s \in Streams, Handler(s)
  PROVE  TypeOK'
<1> USE DEF TypeOK, storageVars, requestVars, Goto
<1>1. CASE StartStream(s)
  BY <1>1 DEF StartStream, Running
<1>2. ASSUME NEW g \in Groups, WriteBacklog(s, g)
      PROVE  TypeOK'
  <2> DEFINE c == messages[g][backlog[s].next]
  <2>1. backlog[s].next \in 1..Len(messages[g])
    BY <1>2 DEF WriteBacklog, BacklogEnd, BacklogInArray
  <2>2. c \in Nat
    BY <2>1
  <2>3. Append(out[s][g], c) \in Seq(Nat)
    BY <2>2
  <2>4. out' \in [Streams -> [Groups -> Seq(Nat)]]
    BY <1>2, <2>3 DEF WriteBacklog, Emit
  <2>5. lastEmitted' \in [Streams -> [Groups -> Nat]]
    BY <1>2, <2>2 DEF WriteBacklog
  <2>6. backlog' \in [Streams -> [aliased : BOOLEAN, next : Nat, end : Nat]]
    <3>1. backlog[s] \in [aliased : BOOLEAN, next : Nat, end : Nat]
      OBVIOUS
    <3>2. backlog[s].next + 1 \in Nat
      OBVIOUS
    <3>3. \A b \in [aliased : BOOLEAN, next : Nat, end : Nat], n \in Nat :
            [b EXCEPT !.next = n] \in [aliased : BOOLEAN, next : Nat, end : Nat]
      OBVIOUS
    <3>4. backlog' = [backlog EXCEPT ![s] = [backlog[s] EXCEPT !.next = backlog[s].next + 1]]
      BY <1>2 DEF WriteBacklog
    <3>5. [backlog[s] EXCEPT !.next = backlog[s].next + 1]
            \in [aliased : BOOLEAN, next : Nat, end : Nat]
      BY <3>1, <3>2, <3>3
    <3>6. QED
      BY <3>4, <3>5
  <2>7. QED
    BY <1>2, <2>4, <2>5, <2>6 DEF WriteBacklog
<1>3. ASSUME NEW g \in Groups, EndBacklog(s, g)
      PROVE  TypeOK'
  BY <1>3 DEF EndBacklog, Running
<1>4. ASSUME NEW g \in Groups, SkipReplayed(s, g)
      PROVE  TypeOK'
  <2>1. Tail(queue[s][g]) \in Seq(Nat)
    BY <1>4 DEF SkipReplayed, Waiting
  <2>2. queue' \in [Streams -> [Groups -> Seq(Nat)]]
    BY <1>4, <2>1 DEF SkipReplayed, Dequeue
  <2>3. QED
    BY <1>4, <2>2 DEF SkipReplayed
<1>5. ASSUME NEW g \in Groups, WriteLive(s, g)
      PROVE  TypeOK'
  <2>1. Tail(queue[s][g]) \in Seq(Nat) /\ Head(queue[s][g]) \in Nat
    BY <1>5 DEF WriteLive, Waiting
  <2>2. queue' \in [Streams -> [Groups -> Seq(Nat)]]
    BY <1>5, <2>1 DEF WriteLive, Dequeue
  <2>3. Append(out[s][g], Head(queue[s][g])) \in Seq(Nat)
    BY <2>1
  <2>4. out' \in [Streams -> [Groups -> Seq(Nat)]]
    BY <1>5, <2>3 DEF WriteLive, Emit
  <2>5. lastEmitted' \in [Streams -> [Groups -> Nat]]
    BY <1>5, <2>1 DEF WriteLive
  <2>6. QED
    BY <1>5, <2>2, <2>4, <2>5 DEF WriteLive
<1>6. CASE FinishStream(s)
  BY <1>6, EndHandlerType DEF FinishStream
<1>7. CASE FailStream(s)
  BY <1>7, EndHandlerType DEF FailStream
<1>8. QED
  BY <1>1, <1>2, <1>3, <1>4, <1>5, <1>6, <1>7 DEF Handler

LEMMA AbortType ==
  ASSUME TypeOK, NEW s \in Streams, PeerAbort(s)
  PROVE  TypeOK'
BY DEF TypeOK, PeerAbort, Unsubscribe, storageVars, requestVars

-------------------------------------------------------------------------------
(* The invariant of the storage and of the replay, whatever fails. *)

\* A tombstone and a log exclude each other.
NoLogBehindTombstone == groups \intersect deletedGroups = {}

StorageInv == TypeOK /\ BacklogInArray /\ NoLogBehindTombstone

LEMMA StorageInvInit == Init => StorageInv
BY InitType DEF Init, StorageInv, BacklogInArray, NoLogBehindTombstone, NoBacklog

LEMMA StorageInvStorage ==
  ASSUME StorageInv, NEW g \in Groups, Storage(g)
  PROVE  StorageInv'
<1>1. TypeOK'
  BY StorageType DEF StorageInv
<1>2. UNCHANGED <<wanted, backlog, pc>>
  BY DEF Storage, PostGroupMessage, PostUnpersisted, DeleteGroup, DeleteUnpersisted, requestVars
<1>3. \A h \in Groups : Len(messages[h]) <= Len(messages'[h])
  <2>1. CASE Append1(g)
    BY <2>1 DEF Append1, StorageInv, TypeOK
  <2>2. CASE RemoveGroup(g)
    BY <2>2 DEF RemoveGroup, StorageInv, TypeOK
  <2>3. QED
    BY <2>1, <2>2 DEF Storage, PostGroupMessage, PostUnpersisted, DeleteGroup, DeleteUnpersisted
<1>4. BacklogInArray'
  <2>1. ASSUME NEW s \in Streams, NEW h \in wanted[s]
        PROVE  backlog[s].end <= Len(messages'[h])
    <3>1. h \in Groups /\ backlog[s].end \in Nat
      BY DEF StorageInv, TypeOK
    <3>2. Len(messages[h]) \in Nat /\ Len(messages'[h]) \in Nat
      <4>1. messages \in [Groups -> Seq(Nat)] /\ messages' \in [Groups -> Seq(Nat)]
        BY <1>1 DEF StorageInv, TypeOK
      <4>2. messages[h] \in Seq(Nat) /\ messages'[h] \in Seq(Nat)
        BY <3>1, <4>1
      <4>3. QED
        BY <4>2
    <3>3. backlog[s].end <= Len(messages[h])
      BY DEF StorageInv, BacklogInArray
    <3>4. QED
      BY <1>3, <3>1, <3>2, <3>3
  <2>2. QED
    BY <1>2, <2>1 DEF StorageInv, BacklogInArray
<1>5. NoLogBehindTombstone'
  BY DEF Storage, PostGroupMessage, PostUnpersisted, DeleteGroup, DeleteUnpersisted,
         Append1, RemoveGroup, StorageInv, NoLogBehindTombstone
<1>6. QED
  BY <1>1, <1>4, <1>5 DEF StorageInv

LEMMA StorageInvSubscribe ==
  ASSUME StorageInv, NEW s \in Streams, Subscribe(s)
  PROVE  StorageInv'
<1>1. TypeOK'
  BY SubscribeType DEF StorageInv
<1>2. UNCHANGED storageVars
  BY DEF Subscribe, SubscribeGroupMessages, SubscribeManyGroupMessages, Register
<1>3. BacklogInArray'
  <2>1. ASSUME NEW g \in Groups, NEW after \in Afters, NEW since \in Sinces,
               SubscribeGroupMessages(s, g, after, since)
        PROVE  BacklogInArray'
    <3>1. /\ Fetch(g, after, since).next >= 1
          /\ Fetch(g, after, since).end <= Len(messages[g])
      BY StreamsAssumption DEF Fetch, NoBacklog, Cursor, Afters, Stored, StorageInv, TypeOK
    <3>2. /\ wanted' = [wanted EXCEPT ![s] = {g}]
          /\ backlog' = [backlog EXCEPT ![s] = Fetch(g, after, since)]
          /\ pc' = [pc EXCEPT ![s] = "starting"]
      BY <2>1 DEF SubscribeGroupMessages, Register
    <3>3. QED
      BY <1>2, <3>1, <3>2 DEF BacklogInArray, storageVars, StorageInv, TypeOK
  <2>2. ASSUME NEW G \in SUBSET Groups, NEW afters \in [G -> Afters], NEW since \in Sinces,
               SubscribeManyGroupMessages(s, G, afters, since)
        PROVE  BacklogInArray'
    <3>1. /\ pc[s] = "idle"
          /\ UNCHANGED backlog
          /\ wanted' = [wanted EXCEPT ![s] = G]
          /\ pc' = [pc EXCEPT ![s] = "starting"]
      BY <2>2 DEF SubscribeManyGroupMessages, Register
    <3>2. \A g \in G : NoBacklog.end <= Len(messages[g])
      BY DEF NoBacklog, StorageInv, TypeOK
    <3>3. QED
      BY <1>2, <3>1, <3>2 DEF BacklogInArray, storageVars, StorageInv, TypeOK
  <2>3. QED
    BY <2>1, <2>2 DEF Subscribe
<1>4. QED
  BY <1>1, <1>2, <1>3 DEF StorageInv, NoLogBehindTombstone, storageVars

LEMMA StorageInvStep ==
  ASSUME StorageInv, [Next]_vars
  PROVE  StorageInv'
<1>1. ASSUME NEW g \in Groups, Storage(g)
      PROVE  StorageInv'
  BY <1>1, StorageInvStorage
<1>2. ASSUME NEW s \in Streams, Subscribe(s)
      PROVE  StorageInv'
  BY <1>2, StorageInvSubscribe
<1>3. ASSUME NEW s \in Streams, Handler(s)
      PROVE  StorageInv'
  <2>1. TypeOK'
    BY <1>3, HandlerType DEF StorageInv
  <2>2. UNCHANGED <<storageVars, wanted>>
    BY <1>3 DEF Handler, StartStream, WriteBacklog, EndBacklog, SkipReplayed, WriteLive,
                FinishStream, FailStream, EndHandler, requestVars
  <2>3. \A t \in Streams : /\ pc'[t] = "idle" => pc[t] = "idle" /\ backlog'[t] = backlog[t]
                           /\ backlog'[t].next >= backlog[t].next
                           /\ backlog'[t].end = backlog[t].end
    <3>1. ASSUME NEW g \in Groups, WriteBacklog(s, g)
          PROVE  /\ UNCHANGED pc
                 /\ pc[s] = "backlog"
                 /\ backlog' = [backlog EXCEPT ![s].next = @ + 1]
      BY <3>1 DEF WriteBacklog
    <3>2. CASE UNCHANGED backlog /\ \E label \in {"backlog", "live", "done"} : Goto(s, label)
      BY <3>2 DEF Goto, StorageInv, TypeOK
    <3>3. CASE UNCHANGED <<backlog, pc>>
      BY <3>3 DEF StorageInv, TypeOK
    <3>4. CASE \E g \in Groups : WriteBacklog(s, g)
      <4>1. /\ UNCHANGED pc
            /\ pc[s] = "backlog"
            /\ backlog' = [backlog EXCEPT ![s].next = @ + 1]
        BY <3>1, <3>4
      <4>2. /\ backlog[s].next \in Nat
            /\ backlog \in [Streams -> [aliased : BOOLEAN, next : Nat, end : Nat]]
        BY DEF StorageInv, TypeOK
      <4>3. \A t \in Streams : t # s => backlog'[t] = backlog[t]
        BY <4>1, <4>2
      <4>4. backlog'[s].next = backlog[s].next + 1 /\ backlog'[s].end = backlog[s].end
        BY <4>1, <4>2
      <4>5. \A t \in Streams : backlog[t].next \in Nat
        BY <4>2
      <4>6. QED
        BY <4>1, <4>3, <4>4, <4>5
    <3>5. QED
      BY <1>3, <3>2, <3>3, <3>4
         DEF Handler, StartStream, EndBacklog, SkipReplayed, WriteLive,
             FinishStream, FailStream, EndHandler
  <2>4. BacklogInArray'
    BY <2>1, <2>2, <2>3 DEF BacklogInArray, StorageInv, TypeOK, storageVars
  <2>5. QED
    BY <2>1, <2>2, <2>4 DEF StorageInv, NoLogBehindTombstone, storageVars
<1>4. ASSUME NEW s \in Streams, PeerAbort(s)
      PROVE  StorageInv'
  <2>1. TypeOK'
    BY <1>4, AbortType DEF StorageInv
  <2>2. UNCHANGED <<storageVars, wanted, backlog, pc>>
    BY <1>4 DEF PeerAbort, requestVars
  <2>3. QED
    BY <2>1, <2>2 DEF StorageInv, BacklogInArray, NoLogBehindTombstone, storageVars
<1>5. CASE UNCHANGED vars
  BY <1>5 DEF vars, storageVars, requestVars, StorageInv, TypeOK, BacklogInArray,
              NoLogBehindTombstone
<1>6. QED
  BY <1>1, <1>2, <1>3, <1>4, <1>5 DEF Next

\* In every reachable state the variables have the shape the code gives them and no
\* fetched backlog reaches beyond its array.
THEOREM TypeCorrect == Spec => []TypeOK
<1>1. Init => StorageInv
  BY StorageInvInit
<1>2. StorageInv /\ [Next]_vars => StorageInv'
  BY StorageInvStep
<1>3. StorageInv => TypeOK
  BY DEF StorageInv
<1>4. QED
  BY <1>1, <1>2, <1>3, PTL DEF Spec

\* A deleted group is never appended to, brought back or subscribed to again, even
\* when the snapshot of the deletion could not be written.
THEOREM DeletionFinal == Spec => DeletionIsFinal
<1> DEFINE Final == \A g \in deletedGroups :
                      /\ g \in deletedGroups' \ groups'
                      /\ messages'[g] = messages[g]
                      /\ subscribers'[g] \subseteq subscribers[g]
<1>1. ASSUME StorageInv, StorageInv', [Next]_vars
      PROVE  Final
  <2>1. ASSUME NEW h \in Groups, Storage(h)
        PROVE  Final
    <3>1. CASE Append1(h) /\ UNCHANGED subscribers
      BY <1>1, <3>1 DEF Append1, StorageInv, TypeOK, NoLogBehindTombstone
    <3>2. CASE RemoveGroup(h) /\ UNCHANGED subscribers
      BY <1>1, <3>2 DEF RemoveGroup, StorageInv, TypeOK, NoLogBehindTombstone
    <3>3. CASE RemoveGroup(h) /\ CloseSubscribersForGroup(h)
      BY <1>1, <3>3 DEF RemoveGroup, CloseSubscribersForGroup, StorageInv, TypeOK,
                  NoLogBehindTombstone
    <3>4. QED
      BY <2>1, <3>1, <3>2, <3>3
         DEF Storage, PostGroupMessage, PostUnpersisted, DeleteGroup, DeleteUnpersisted
  <2>2. ASSUME NEW s \in Streams, NEW G \in SUBSET Groups, NEW k, Register(s, G, k)
        PROVE  Final
    BY <1>1, <2>2 DEF Register, storageVars, StorageInv, TypeOK, NoLogBehindTombstone
  <2>3. ASSUME NEW s \in Streams, Subscribe(s)
        PROVE  Final
    BY <2>2, <2>3 DEF Subscribe, SubscribeGroupMessages, SubscribeManyGroupMessages
  <2>4. ASSUME NEW s \in Streams, Handler(s) \/ PeerAbort(s)
        PROVE  Final
    <3>1. UNCHANGED storageVars
      BY <2>4 DEF Handler, StartStream, WriteBacklog, EndBacklog, SkipReplayed, WriteLive,
                  FinishStream, FailStream, EndHandler, PeerAbort
    <3>2. \A g \in Groups : subscribers'[g] \subseteq subscribers[g]
      <4>1. UNCHANGED subscribers \/ Unsubscribe(s)
        BY <2>4 DEF Handler, StartStream, WriteBacklog, EndBacklog, SkipReplayed, WriteLive,
                    FinishStream, FailStream, EndHandler, PeerAbort
      <4>2. QED
        BY <4>1 DEF Unsubscribe
    <3>3. QED
      BY <1>1, <3>1, <3>2 DEF storageVars, StorageInv, TypeOK, NoLogBehindTombstone
  <2>5. CASE UNCHANGED vars
    BY <1>1, <2>5 DEF vars, storageVars, StorageInv, NoLogBehindTombstone
  <2>6. QED
    BY <1>1, <2>1, <2>3, <2>4, <2>5 DEF Next
<1>2. Init => StorageInv
  BY StorageInvInit
<1>3. StorageInv /\ [Next]_vars => StorageInv'
  BY StorageInvStep
<1>4. StorageInv /\ StorageInv' /\ [Next]_vars => [Final]_vars
  BY <1>1
<1>5. QED
  BY <1>2, <1>3, <1>4, PTL DEF Spec, DeletionIsFinal

-------------------------------------------------------------------------------
(* Gap freedom and registration.                                             *)

IInv ==
  /\ StorageInv
  /\ DenseLogs
  /\ Registered
  /\ GapFree
  /\ \A s \in Streams : StreamInv(s)

\* A step that leaves a stream and the logs alone, and at most closes the queue
\* of a stream that was opened, keeps what is known of the stream.
LEMMA Frame ==
  ASSUME NEW s \in Streams, StreamInv(s),
         UNCHANGED <<messages, unpublished, pc[s], kind[s], wanted[s], from[s], out[s], queue[s],
                     backlog[s], lastEmitted[s]>>,
         s \in closed => s \in closed',
         pc[s] = "idle" => s \notin closed'
  PROVE  StreamInv(s)'
<1>1. ASSUME NEW g, SingleInv(s, g)
      PROVE  SingleInv(s, g)'
  BY <1>1 DEF SingleInv, Reached, BacklogEnd
<1>2. ASSUME NEW g, ManyInv(s, g)
      PROVE  ManyInv(s, g)'
  BY <1>2 DEF ManyInv, Reached
<1>3. Fresh(s) /\ pc[s] = "idle" => Fresh(s)'
  BY DEF Fresh
<1>4. QED
  BY <1>1, <1>2, <1>3 DEF StreamInv

\* What every stream's invariant needs of the types.
LEMMA StreamTypes ==
  ASSUME StorageInv, NEW s \in Streams, NEW g \in Groups
  PROVE  /\ queue[s][g] \in Seq(Nat)
         /\ out[s][g] \in Seq(Nat)
         /\ messages[g] \in Seq(Nat)
         /\ lastEmitted[s][g] \in Nat
         /\ from[s][g] \in Nat
         /\ Reached(s, g) \in Nat
         /\ backlog[s].next \in Nat
         /\ backlog[s].end \in Nat
         /\ BacklogEnd(s, g) \in Nat
<1>1. /\ queue[s][g] \in Seq(Nat)
      /\ out[s][g] \in Seq(Nat)
      /\ messages[g] \in Seq(Nat)
      /\ lastEmitted[s][g] \in Nat
      /\ from[s][g] \in Nat
      /\ backlog[s].next \in Nat
      /\ backlog[s].end \in Nat
  BY DEF StorageInv, TypeOK
<1>2. QED
  BY <1>1 DEF Reached, BacklogEnd

LEMMA AppendFacts ==
  ASSUME NEW q \in Seq(Nat), NEW c \in Nat
  PROVE  /\ Append(q, c) \in Seq(Nat)
         /\ Append(q, c) # <<>>
         /\ Len(Append(q, c)) = Len(q) + 1
         /\ \A i \in 1..Len(q) : Append(q, c)[i] = q[i]
         /\ Append(q, c)[Len(q) + 1] = c
OBVIOUS

LEMMA TailFacts ==
  ASSUME NEW q \in Seq(Nat), q # <<>>
  PROVE  /\ Tail(q) \in Seq(Nat)
         /\ Len(q) \in Nat
         /\ Len(q) >= 1
         /\ Head(q) = q[1]
         /\ q[1] \in Nat
         /\ Len(Tail(q)) = Len(q) - 1
         /\ \A i \in 1..Len(Tail(q)) : Tail(q)[i] = q[i + 1]
         /\ Tail(q) = <<>> => Len(q) = 1
<1>1. Tail(q) \in Seq(Nat) /\ Len(q) \in Nat
  OBVIOUS
<1>2. Len(q) >= 1
  OBVIOUS
<1>3. Head(q) = q[1] /\ q[1] \in Nat
  BY <1>2
<1>4. Len(Tail(q)) = Len(q) - 1
  OBVIOUS
<1>5. \A i \in 1..Len(Tail(q)) : Tail(q)[i] = q[i + 1]
  BY <1>1, <1>2, <1>4
<1>6. Tail(q) = <<>> => Len(q) = 1
  <2>1. ASSUME NEW t, t = <<>>
        PROVE  Len(t) = 0
    BY <2>1
  <2>2. Tail(q) = <<>> => Len(Tail(q)) = 0
    BY <2>1
  <2>3. QED
    BY <1>1, <1>4, <2>2
<1>7. QED
  BY <1>1, <1>2, <1>3, <1>4, <1>5, <1>6

\* A record pushed to an open multi-group queue continues it.
LEMMA PostMany ==
  ASSUME StorageInv, StorageInv', DenseLogs, Registered, NEW s \in Streams, NEW g \in wanted[s],
         PostGroupMessage(g), pc[s] \in Running, kind[s] = "many", ManyInv(s, g)
  PROVE  ManyInv(s, g)'
<1> DEFINE c == nextCursor[g]
           q == queue[s][g]
<1>1. g \in Groups
  BY DEF StorageInv, TypeOK
<1>2. /\ messages'[g] = Append(messages[g], c)
      /\ c = Len(messages[g]) + 1
  BY <1>1 DEF PostGroupMessage, Append1, DenseLogs, StorageInv, TypeOK
<1>3. /\ q \in Seq(Nat)
      /\ messages[g] \in Seq(Nat)
      /\ lastEmitted[s][g] \in Nat
      /\ Reached(s, g) \in Nat
  BY <1>1, StreamTypes
<1>4. Len(messages'[g]) = c
  BY <1>2, <1>3
<1>5. pc'[s] = pc[s] /\ Reached(s, g)' = Reached(s, g) /\ closed' = closed
  BY DEF PostGroupMessage, requestVars, Reached
<1>6. CASE s \in closed \/ ~(c > lastEmitted[s][g])
  <2>1. ~Accepts(s, g, c)
    BY <1>6 DEF Accepts
  <2>2. queue'[s][g] = q /\ lastEmitted'[s][g] = lastEmitted[s][g]
    BY <2>1, <1>1 DEF PostGroupMessage, PublishLive
  <2>3. QED
    BY <1>2, <1>3, <1>4, <1>5, <1>6, <2>2 DEF ManyInv
<1>7. CASE s \notin closed /\ c > lastEmitted[s][g]
  <2>1. Accepts(s, g, c)
    BY <1>1, <1>7 DEF Accepts, Registered, Open
  <2>2. queue'[s] = [queue[s] EXCEPT ![g] = Append(@, c)] /\ lastEmitted'[s] = [lastEmitted[s] EXCEPT ![g] = c]
    BY <2>1 DEF PostGroupMessage, PublishLive
  <2>3. queue'[s][g] = Append(q, c) /\ lastEmitted'[s][g] = c
    BY <1>1, <2>2 DEF StorageInv, TypeOK
  <2>4. c = Reached(s, g) + Len(q) + 1
    <3> DEFINE n == Len(messages[g])
               reach == Reached(s, g) + Len(q)
    <3>1. n \in Nat /\ reach \in Nat
      BY <1>3
    <3>2. /\ lastEmitted[s][g] <= reach
          /\ n <= reach
          /\ n < reach => lastEmitted[s][g] = reach
      BY <1>7 DEF ManyInv
    <3>3. c = n + 1 /\ c > lastEmitted[s][g]
      BY <1>2, <1>7
    <3> HIDE DEF n, reach, c
    <3>4. c = reach + 1
      BY <1>3, <3>1, <3>2, <3>3
    <3>5. QED
      BY <1>3, <3>4 DEF reach
  <2>5. /\ Len(Append(q, c)) = Len(q) + 1
        /\ \A i \in 1..Len(q) : Append(q, c)[i] = q[i]
        /\ Append(q, c)[Len(q) + 1] = c
    BY <1>2, <1>3
  <2>6. \A i \in 1..Len(q) + 1 : Append(q, c)[i] = Reached(s, g) + i
    BY <1>3, <2>4, <2>5 DEF ManyInv
  <2>7. Len(queue'[s][g]) = Len(q) + 1 /\ Len(messages'[g]) = Reached(s, g) + Len(queue'[s][g])
    <3>1. Len(queue'[s][g]) = Len(q) + 1
      BY <2>3, <2>5
    <3>2. Len(q) \in Nat
      BY <1>3
    <3> HIDE DEF c, q
    <3>3. QED
      BY <1>3, <1>4, <2>4, <3>1, <3>2
  <2>8. pc'[s] # "backlog" /\ \A i \in 1..Len(queue'[s][g]) : queue'[s][g][i] = Reached(s, g)' + i
    BY <1>5, <2>3, <2>6, <2>7 DEF ManyInv
  <2>9. /\ lastEmitted'[s][g] = Len(messages'[g])
        /\ Len(messages'[g]) = Reached(s, g)' + Len(queue'[s][g])
        /\ Len(messages'[g]) \in Nat
    BY <1>2, <1>3, <1>4, <1>5, <2>3, <2>7
  <2>10. QED
    BY <2>8, <2>9 DEF ManyInv
<1>8. QED
  BY <1>6, <1>7

\* A record pushed to a single stream's queue extends the run it holds.
LEMMA PostSingle ==
  ASSUME StorageInv, StorageInv', DenseLogs, Registered, NEW s \in Streams, NEW g \in wanted[s],
         PostGroupMessage(g), pc[s] \in Running, kind[s] = "single", SingleInv(s, g)
  PROVE  SingleInv(s, g)'
<1> DEFINE c == nextCursor[g]
           q == queue[s][g]
           r == queue'[s][g]
           n == Len(messages[g])
           p == Reached(s, g)
           e == lastEmitted[s][g]
           covered == IF pc[s] = "live" THEN 0 ELSE BacklogEnd(s, g)
           coveredNext == IF pc'[s] = "live" THEN 0 ELSE BacklogEnd(s, g)'
<1>1. g \in Groups
  BY DEF StorageInv, TypeOK
<1>2. messages'[g] = Append(messages[g], c) /\ c = n + 1
  BY <1>1 DEF PostGroupMessage, Append1, DenseLogs, StorageInv, TypeOK
<1>3. /\ q \in Seq(Nat) /\ Len(q) \in Nat
      /\ messages[g] \in Seq(Nat) /\ n \in Nat
      /\ e \in Nat /\ p \in Nat /\ covered \in Nat /\ BacklogEnd(s, g) \in Nat
      /\ \A i \in 1..Len(q) : q[i] \in Nat
  BY <1>1, StreamTypes
<1>4. Len(messages'[g]) = n + 1
  BY <1>2, <1>3
<1>5. /\ pc'[s] = pc[s] /\ Reached(s, g)' = p /\ closed' = closed /\ backlog' = backlog
      /\ lastEmitted'[s][g] = e
  <2>1. pc' = pc /\ closed' = closed /\ backlog' = backlog /\ from' = from /\ out' = out
    BY DEF PostGroupMessage, requestVars
  <2>2. lastEmitted'[s] = lastEmitted[s]
    BY DEF PostGroupMessage, PublishLive
  <2>3. QED
    BY <2>1, <2>2 DEF Reached
<1>6. BacklogEnd(s, g)' >= BacklogEnd(s, g) /\ coveredNext >= covered /\ coveredNext \in Nat
  BY <1>3, <1>4, <1>5 DEF BacklogEnd
<1>7. /\ backlog'[s].next >= 1
      /\ backlog'[s].end <= Len(messages'[g])
      /\ pc'[s] # "live" => \/ backlog'[s].next = p + 1
                            \/ backlog'[s].end = 0 /\ ~backlog'[s].aliased
      /\ e <= p
  <2>1. backlog[s].end \in Nat
    BY <1>1, StreamTypes
  <2>2. QED
    BY <1>3, <1>4, <1>5, <2>1 DEF SingleInv
<1>8. CASE s \in closed
  <2>1. ~Accepts(s, g, c)
    BY <1>8 DEF Accepts
  <2>2. r = q
    BY <2>1, <1>1 DEF PostGroupMessage, PublishLive
  <2>3. /\ \A i \in 1..Len(q) : q[i] = q[1] + i - 1
        /\ \A i \in 1..Len(q) : q[i] <= e \/ q[i] > p
        /\ q # <<>> => q[1] <= p + 1 \/ q[1] <= covered + 1
    BY DEF SingleInv
  <2>4. q # <<>> => q[1] <= p + 1 \/ q[1] <= coveredNext + 1
    <3>1. q # <<>> => q[1] \in Nat
      BY <1>3
    <3> HIDE DEF covered, coveredNext, q, p
    <3>2. QED
      BY <1>3, <1>6, <2>3, <3>1
  <2>5. QED
    BY <1>5, <1>7, <1>8, <2>2, <2>3, <2>4 DEF SingleInv
<1>9. CASE s \notin closed
  <2>1. Accepts(s, g, c)
    BY <1>1, <1>9 DEF Accepts, Registered, Open
  <2>2. r = Append(q, c)
    BY <1>1, <2>1 DEF PostGroupMessage, PublishLive, StorageInv, TypeOK
  <2>3. /\ Len(r) = Len(q) + 1
        /\ \A i \in 1..Len(q) : r[i] = q[i]
        /\ r[Len(q) + 1] = c
        /\ r # <<>>
    <3>1. c \in Nat
      BY <1>2, <1>3
    <3> HIDE DEF c, q, r
    <3>2. QED
      BY <1>3, <2>2, <3>1, AppendFacts
  <2>4. /\ \A i \in 1..Len(q) : q[i] = q[1] + i - 1
        /\ \A i \in 1..Len(q) : q[i] <= e \/ q[i] > p
        /\ q # <<>> => q[1] <= p + 1 \/ q[1] <= covered + 1
        /\ q = <<>> => n <= p \/ n <= covered
        /\ q # <<>> => q[Len(q)] = n
        /\ e = p \/ n >= p
    BY <1>9 DEF SingleInv
  <2>5. q # <<>> => Len(q) \in 1..Len(q) /\ 1 \in 1..Len(q)
    BY <1>3
  <2>6. q = <<>> => Len(q) = 0
    OBVIOUS
  <2> HIDE DEF c, q, r, n, p, e, covered, coveredNext
  <2>7. r[1] = IF q = <<>> THEN c ELSE q[1]
    BY <2>3, <2>5, <2>6
  <2>8. \A i \in 1..Len(r) : r[i] = r[1] + i - 1
    <3>1. CASE q = <<>>
      BY <1>2, <1>3, <2>3, <2>6, <2>7, <3>1
    <3>2. CASE q # <<>>
      <4>0. q[1] \in Nat
        BY <1>3, <2>5, <3>2
      <4>1. c = q[1] + Len(q)
        <5>1. q[Len(q)] = q[1] + Len(q) - 1
          BY <2>4, <2>5, <3>2
        <5>2. q[Len(q)] = n
          BY <2>4, <3>2
        <5>3. QED
          BY <1>2, <1>3, <4>0, <5>1, <5>2
      <4>2. ASSUME NEW i \in 1..Len(q) + 1
            PROVE  r[i] = r[1] + i - 1
        <5>1. CASE i \in 1..Len(q)
          BY <2>3, <2>4, <2>7, <3>2, <5>1
        <5>2. CASE i = Len(q) + 1
          BY <1>3, <2>3, <2>7, <3>2, <4>0, <4>1, <5>2
        <5>3. QED
          BY <1>3, <4>2, <5>1, <5>2
      <4>3. QED
        BY <2>3, <4>2
    <3>3. QED
      BY <3>1, <3>2
  <2>9. \A i \in 1..Len(r) : r[i] <= e \/ r[i] > p
    <3>1. c <= e \/ c > p
      BY <1>2, <1>3, <2>4
    <3>2. ASSUME NEW i \in 1..Len(q) + 1
          PROVE  r[i] <= e \/ r[i] > p
      <4>1. i \in 1..Len(q) \/ i = Len(q) + 1
        BY <1>3, <3>2
      <4>2. QED
        BY <2>3, <2>4, <3>1, <4>1
    <3>3. QED
      BY <2>3, <3>2
  <2>10. r[1] <= p + 1 \/ r[1] <= coveredNext + 1
    <3>1. CASE q = <<>>
      BY <1>2, <1>3, <1>6, <2>4, <2>7, <3>1
    <3>2. CASE q # <<>>
      <4>1. q[1] \in Nat
        BY <1>3, <2>5, <3>2
      <4>2. QED
        BY <1>3, <1>6, <2>4, <2>7, <3>2, <4>1
    <3>3. QED
      BY <3>1, <3>2
  <2>11. r[Len(r)] = Len(messages'[g])
    BY <1>2, <1>4, <2>3
  <2>12. e = p \/ Len(messages'[g]) >= p
    BY <1>3, <1>4, <2>4
  <2>13. QED
    BY <1>5, <1>7, <2>3, <2>8, <2>9, <2>10, <2>11, <2>12
       DEF SingleInv, r, p, e, coveredNext
<1>10. QED
  BY <1>8, <1>9

\* An append keeps the logs dense.
LEMMA DenseAppend ==
  ASSUME StorageInv, DenseLogs, NEW g \in Groups, Append1(g)
  PROVE  DenseLogs'
<1>1. /\ messages' = [messages EXCEPT ![g] = Append(@, nextCursor[g])]
      /\ nextCursor' = [nextCursor EXCEPT ![g] = @ + 1]
      /\ groups' = groups \union {g}
      /\ UNCHANGED deletedGroups
  BY DEF Append1
<1>2. \A h \in Groups : h # g => messages'[h] = messages[h] /\ nextCursor'[h] = nextCursor[h]
  BY <1>1 DEF StorageInv, TypeOK
<1>3. messages[g] \in Seq(Nat) /\ nextCursor[g] \in Nat /\ Len(messages[g]) \in Nat
  BY <1>1 DEF StorageInv, TypeOK
<1>4. messages'[g] = Append(messages[g], nextCursor[g]) /\ nextCursor'[g] = nextCursor[g] + 1
  BY <1>1 DEF StorageInv, TypeOK
<1>5. /\ nextCursor[g] = Len(messages[g]) + 1
      /\ \A i \in 1..Len(messages[g]) : messages[g][i] = i
  BY DEF DenseLogs
<1>6. nextCursor'[g] = Len(messages'[g]) + 1
  BY <1>3, <1>4, <1>5, AppendFacts
<1>7. \A i \in 1..Len(messages'[g]) : messages'[g][i] = i
  BY <1>3, <1>4, <1>5, AppendFacts
<1>8. QED
  BY <1>1, <1>2, <1>6, <1>7 DEF DenseLogs

\* A post keeps the invariant.
LEMMA PostInv ==
  ASSUME IInv, NEW g \in Groups, PostGroupMessage(g)
  PROVE  IInv'
<1>1. StorageInv /\ StorageInv'
  BY StorageInvStorage DEF IInv, Storage
<1>2. DenseLogs'
  BY <1>1, DenseAppend DEF IInv, PostGroupMessage
<1>3. UNCHANGED <<subscribers, unpublished, deletedGroups, kind, wanted, from, pc, backlog, closed, out>>
  BY DEF PostGroupMessage, Append1, requestVars
<1>4. Registered' /\ GapFree'
  BY <1>3 DEF IInv, Registered, GapFree, Open
<1>5. ASSUME NEW s \in Streams
      PROVE  StreamInv(s)'
  <2>1. StreamInv(s)
    BY DEF IInv
  <2>2. \A h \in Groups : h # g => /\ messages'[h] = messages[h]
                                   /\ queue'[s][h] = queue[s][h]
                                   /\ lastEmitted'[s][h] = lastEmitted[s][h]
    BY <1>1 DEF PostGroupMessage, Append1, PublishLive, StorageInv, TypeOK
  <2>3. wanted[s] \subseteq Groups
    BY <1>1 DEF StorageInv, TypeOK
  <2>4. ASSUME pc[s] \in Running, NEW h \in wanted[s], unpublished[h] = {}, kind[s] = "single"
        PROVE  SingleInv(s, h)'
    <3>1. SingleInv(s, h)
      BY <2>1, <2>4 DEF StreamInv
    <3>2. CASE h = g
      BY <1>1, <2>4, <3>1, <3>2, PostSingle DEF IInv
    <3>3. CASE h # g
      BY <1>3, <2>2, <2>3, <3>1, <3>3 DEF SingleInv, Reached, BacklogEnd
    <3>4. QED
      BY <3>2, <3>3
  <2>5. ASSUME pc[s] \in Running, NEW h \in wanted[s], unpublished[h] = {}, kind[s] # "single"
        PROVE  ManyInv(s, h)'
    <3>1. ManyInv(s, h) /\ kind[s] = "many"
      BY <2>1, <2>5 DEF StreamInv
    <3>2. CASE h = g
      BY <1>1, <2>5, <3>1, <3>2, PostMany DEF IInv
    <3>3. CASE h # g
      BY <1>3, <2>2, <2>3, <3>1, <3>3 DEF ManyInv, Reached
    <3>4. QED
      BY <3>2, <3>3
  <2>6. pc[s] = "idle" => Fresh(s)'
    <3>1. pc[s] = "idle" => s \notin subscribers[g]
      BY DEF IInv, Registered, Open, Running
    <3>2. pc[s] = "idle" => queue'[s] = queue[s]
      BY <3>1 DEF PostGroupMessage, PublishLive, Accepts
    <3>3. QED
      BY <1>3, <2>1, <3>2 DEF StreamInv, Fresh
  <2>7. QED
    BY <1>3, <2>1, <2>4, <2>5, <2>6 DEF StreamInv
<1>6. QED
  BY <1>1, <1>2, <1>4, <1>5 DEF IInv

\* A post that fails once its record is stored leaves the other groups as they were.
LEMMA PostUnpersistedInv ==
  ASSUME IInv, NEW g \in Groups, PostUnpersisted(g)
  PROVE  IInv'
<1>1. StorageInv /\ StorageInv'
  BY StorageInvStorage DEF IInv, Storage
<1>2. DenseLogs'
  BY <1>1, DenseAppend DEF IInv, PostUnpersisted
<1>3. /\ UNCHANGED <<subscribers, kind, wanted, from, pc, backlog, queue, closed, lastEmitted, out>>
      /\ unpublished'[g] # {}
      /\ \A h \in Groups \ {g} : messages'[h] = messages[h] /\ unpublished'[h] = unpublished[h]
  BY <1>1 DEF PostUnpersisted, Append1, requestVars, StorageInv, TypeOK
<1>4. Registered'
  BY <1>3 DEF IInv, Registered, Open
<1>5. GapFree'
  BY <1>3 DEF IInv, GapFree
<1>6. ASSUME NEW s \in Streams
      PROVE  StreamInv(s)'
  <2>1. StreamInv(s) /\ wanted[s] \subseteq Groups
    BY <1>1 DEF IInv, StorageInv, TypeOK
  <2>2. ASSUME pc[s] \in Running, NEW h \in wanted[s], unpublished'[h] = {}
        PROVE  IF kind[s] = "single" THEN SingleInv(s, h)' ELSE ManyInv(s, h)'
    <3>1. h \in Groups \ {g} /\ unpublished[h] = {}
      BY <1>3, <2>1, <2>2
    <3>2. IF kind[s] = "single" THEN SingleInv(s, h) ELSE ManyInv(s, h)
      BY <2>1, <2>2, <3>1 DEF StreamInv
    <3>3. QED
      BY <1>3, <3>1, <3>2 DEF SingleInv, ManyInv, Reached, BacklogEnd
  <2>3. QED
    BY <1>3, <2>1, <2>2 DEF StreamInv, Fresh
<1>7. QED
  BY <1>1, <1>2, <1>4, <1>5, <1>6 DEF IInv

\* A deletion that fails once its tombstone is stored touches no stream.
LEMMA DeleteUnpersistedInv ==
  ASSUME IInv, NEW g \in Groups, DeleteUnpersisted(g)
  PROVE  IInv'
<1>1. StorageInv'
  BY StorageInvStorage DEF IInv, Storage
<1>2. /\ UNCHANGED <<messages, nextCursor, unpublished, subscribers, kind, wanted, from, pc,
                     backlog, queue, closed, lastEmitted, out>>
      /\ groups' = groups \ {g}
      /\ deletedGroups' = deletedGroups \union {g}
  BY DEF DeleteUnpersisted, RemoveGroup, requestVars
<1>3. DenseLogs' /\ Registered' /\ GapFree'
  BY <1>2 DEF IInv, DenseLogs, Registered, Open, GapFree
<1>4. ASSUME NEW s \in Streams
      PROVE  StreamInv(s)'
  <2>1. StreamInv(s)
    BY DEF IInv
  <2>2. pc[s] = "idle" => s \notin closed'
    BY <1>2, <2>1 DEF StreamInv, Fresh
  <2>3. QED
    BY <1>2, <2>1, <2>2, Frame
<1>5. QED
  BY <1>1, <1>3, <1>4 DEF IInv

\* A deletion keeps the invariant.
LEMMA DeleteInv ==
  ASSUME IInv, NEW g \in Groups, DeleteGroup(g)
  PROVE  IInv'
<1>1. StorageInv /\ StorageInv'
  BY StorageInvStorage DEF IInv, Storage
<1>2. /\ UNCHANGED <<messages, nextCursor, unpublished, kind, wanted, from, pc, backlog, queue,
                     lastEmitted, out>>
      /\ groups' = groups \ {g}
      /\ deletedGroups' = deletedGroups \union {g}
      /\ closed' = closed \union subscribers[g]
      /\ subscribers' = [h \in Groups |-> subscribers[h] \ subscribers[g]]
  BY DEF DeleteGroup, RemoveGroup, CloseSubscribersForGroup, requestVars
<1>3. DenseLogs' /\ GapFree'
  BY <1>2 DEF IInv, DenseLogs, GapFree
<1>4. Registered'
  <2>1. \A s \in Streams : Open(s)' <=> Open(s) /\ s \notin subscribers[g]
    BY <1>2 DEF Open
  <2>2. \A s \in Streams, h \in Groups : s \in subscribers'[h] <=> Open(s)' /\ h \in wanted[s]
    BY <1>2, <2>1 DEF IInv, Registered
  <2>3. QED
    BY <1>2, <2>2 DEF Registered
<1>5. ASSUME NEW s \in Streams
      PROVE  StreamInv(s)'
  <2>1. StreamInv(s) /\ (s \in closed => s \in closed')
    BY <1>2 DEF IInv
  <2>2. pc[s] = "idle" => s \notin closed'
    BY <1>2 DEF IInv, StreamInv, Fresh, Registered, Open, Running
  <2>3. QED
    BY <1>2, <2>1, <2>2, Frame
<1>6. QED
  BY <1>1, <1>3, <1>4, <1>5 DEF IInv

\* A handler step touches its own stream only, and moves it from one running
\* place to another: what remains to be shown is the stream's own invariant.
LEMMA HandlerFrame ==
  ASSUME IInv, NEW s \in Streams, StorageInv',
         UNCHANGED <<storageVars, subscribers, requestVars, closed>>,
         pc[s] \in Running, pc'[s] \in Running,
         \A t \in Streams \ {s} : UNCHANGED <<pc[t], out[t], queue[t], backlog[t], lastEmitted[t]>>,
         pc'[s] = "backlog" => kind[s] = "single",
         \A g \in Groups : unpublished[g] = {} =>
           \A i \in 1..Len(out'[s][g]) : out'[s][g][i] = from[s][g] + i,
         \A g \in wanted[s] : unpublished[g] = {} =>
           IF kind[s] = "single" THEN SingleInv(s, g)' ELSE ManyInv(s, g)'
  PROVE  IInv'
<1>1. DenseLogs'
  BY DEF IInv, DenseLogs, storageVars
<1>2. \A t \in Streams : Open(t)' <=> Open(t)
  BY DEF Open
<1>3. Registered'
  BY <1>2 DEF IInv, Registered, storageVars, requestVars
<1>4. GapFree'
  <2>1. ASSUME NEW t \in Streams, NEW g \in Groups, unpublished[g] = {},
               NEW i \in 1..Len(out'[t][g])
        PROVE  out'[t][g][i] = from'[t][g] + i
    <3>1. CASE t = s
      BY <2>1, <3>1 DEF requestVars
    <3>2. CASE t # s
      BY <2>1, <3>2 DEF requestVars, IInv, GapFree
    <3>3. QED
      BY <3>1, <3>2
  <2>2. QED
    BY <2>1 DEF GapFree, storageVars
<1>5. ASSUME NEW t \in Streams
      PROVE  StreamInv(t)'
  <2>1. StreamInv(t)
    BY DEF IInv
  <2>2. CASE t # s
    BY <2>1, <2>2, Frame DEF storageVars, requestVars, StreamInv, Fresh
  <2>3. CASE t = s
    BY <2>1, <2>3 DEF StreamInv, requestVars, storageVars, Running
  <2>4. QED
    BY <2>2, <2>3
<1>6. QED
  BY <1>1, <1>3, <1>4, <1>5 DEF IInv

LEMMA StartInv ==
  ASSUME IInv, StorageInv', NEW s \in Streams, StartStream(s)
  PROVE  IInv'
<1>1. /\ UNCHANGED <<storageVars, subscribers, requestVars, closed, out, queue, backlog, lastEmitted>>
      /\ pc[s] = "starting"
      /\ pc' = [pc EXCEPT ![s] = IF kind[s] = "single" THEN "backlog" ELSE "live"]
  BY DEF StartStream, Goto
<1>2. /\ pc'[s] = IF kind[s] = "single" THEN "backlog" ELSE "live"
      /\ \A t \in Streams \ {s} : pc'[t] = pc[t]
      /\ pc[s] \in Running /\ pc'[s] \in Running
  BY <1>1 DEF IInv, StorageInv, TypeOK, Running
<1>3. StreamInv(s)
  BY DEF IInv
<1>4. ASSUME NEW g \in wanted[s], unpublished[g] = {}
      PROVE  IF kind[s] = "single" THEN SingleInv(s, g)' ELSE ManyInv(s, g)'
  <2>1. CASE kind[s] = "single"
    <3>1. SingleInv(s, g)
      BY <1>2, <1>3, <1>4, <2>1 DEF StreamInv
    <3>2. QED
      BY <1>1, <1>2, <2>1, <3>1 DEF SingleInv, Reached, BacklogEnd, storageVars, requestVars
  <2>2. CASE kind[s] # "single"
    <3>1. ManyInv(s, g)
      BY <1>2, <1>3, <1>4, <2>2 DEF StreamInv
    <3>2. QED
      BY <1>1, <1>2, <2>2, <3>1 DEF ManyInv, Reached, storageVars, requestVars
  <2>3. QED
    BY <2>1, <2>2
<1>5. \A g \in Groups : unpublished[g] = {} =>
        \A i \in 1..Len(out'[s][g]) : out'[s][g][i] = from[s][g] + i
  BY <1>1 DEF IInv, GapFree
<1>6. pc'[s] = "backlog" => kind[s] = "single"
  BY <1>2
<1>7. /\ UNCHANGED <<storageVars, subscribers, requestVars, closed>>
      /\ \A t \in Streams \ {s} : UNCHANGED <<pc[t], out[t], queue[t], backlog[t], lastEmitted[t]>>
  BY <1>1, <1>2
<1>8. QED
  BY <1>2, <1>4, <1>5, <1>6, <1>7, HandlerFrame

\* When the backlog is exhausted, everything it covered has been written.
LEMMA EndBacklogInv ==
  ASSUME IInv, StorageInv', NEW s \in Streams, NEW g \in Groups, unpublished[g] = {},
         EndBacklog(s, g)
  PROVE  IInv'
<1>1. /\ UNCHANGED <<storageVars, subscribers, requestVars, closed, out, queue, backlog, lastEmitted>>
      /\ pc[s] = "backlog" /\ g \in wanted[s]
      /\ backlog[s].next > BacklogEnd(s, g)
      /\ pc' = [pc EXCEPT ![s] = "live"]
  BY DEF EndBacklog, Goto
<1>2. /\ pc'[s] = "live"
      /\ \A t \in Streams \ {s} : pc'[t] = pc[t]
      /\ pc[s] \in Running /\ pc'[s] \in Running
  BY <1>1 DEF IInv, StorageInv, TypeOK, Running
<1>3. StreamInv(s)
  BY DEF IInv
<1>4. kind[s] = "single" /\ wanted[s] = {g} /\ SingleInv(s, g)
  BY <1>1, <1>2, <1>3 DEF StreamInv, ManyInv
<1>5. SingleInv(s, g)'
  <2> DEFINE q == queue[s][g]
             n == Len(messages[g])
             p == Reached(s, g)
             end == BacklogEnd(s, g)
  <2>1. /\ q \in Seq(Nat) /\ p \in Nat /\ end \in Nat /\ n \in Nat
        /\ backlog[s].next \in Nat /\ backlog[s].end \in Nat
        /\ q # <<>> => q[1] \in Nat
    BY StreamTypes, TailFacts DEF IInv
  <2>2. /\ backlog[s].next = p + 1 \/ (backlog[s].end = 0 /\ ~backlog[s].aliased)
        /\ (backlog[s].end = 0 /\ ~backlog[s].aliased) => end = 0
        /\ q # <<>> => q[1] <= p + 1 \/ q[1] <= end + 1
        /\ s \notin closed /\ q = <<>> => n <= p \/ n <= end
    BY <1>1, <1>4 DEF SingleInv, BacklogEnd
  <2> HIDE DEF q, n, p, end
  <2>3. end <= p
    <3>1. CASE backlog[s].next = p + 1
      BY <1>1, <2>1, <3>1 DEF end
    <3>2. CASE end = 0
      BY <2>1, <3>2
    <3>3. QED
      BY <2>2, <3>1, <3>2
  <2>4. /\ q # <<>> => q[1] <= p + 1
        /\ s \notin closed /\ q = <<>> => n <= p
    BY <2>1, <2>2, <2>3
  <2>5. QED
    BY <1>1, <1>2, <1>4, <2>4
       DEF SingleInv, Reached, BacklogEnd, storageVars, requestVars, q, n, p
<1>6. \A h \in Groups : unpublished[h] = {} =>
        \A i \in 1..Len(out'[s][h]) : out'[s][h][i] = from[s][h] + i
  BY <1>1 DEF IInv, GapFree
<1>7. QED
  BY <1>1, <1>2, <1>4, <1>5, <1>6, HandlerFrame

\* Both ways of writing: the record is the next one.
LEMMA EmitNext ==
  ASSUME IInv, NEW s \in Streams, NEW g \in Groups, unpublished[g] = {},
         NEW c \in Nat, c = Reached(s, g) + 1,
         Emit(s, g, c), from' = from
  PROVE  /\ Reached(s, g)' = c
         /\ \A h \in Groups \ {g} : Reached(s, h)' = Reached(s, h)
         /\ \A t \in Streams \ {s} : out'[t] = out[t]
         /\ \A h \in Groups : unpublished[h] = {} =>
              \A i \in 1..Len(out'[s][h]) : out'[s][h][i] = from[s][h] + i
<1>1. /\ out[s][g] \in Seq(Nat) /\ Len(out[s][g]) \in Nat /\ from[s][g] \in Nat
      /\ Reached(s, g) = from[s][g] + Len(out[s][g])
  BY StreamTypes DEF IInv, Reached
<1>2. /\ out'[s][g] = Append(out[s][g], c)
      /\ \A h \in Groups \ {g} : out'[s][h] = out[s][h]
      /\ \A t \in Streams \ {s} : out'[t] = out[t]
  BY DEF Emit, IInv, StorageInv, TypeOK
<1>3. /\ Len(out'[s][g]) = Len(out[s][g]) + 1
      /\ \A i \in 1..Len(out[s][g]) : out'[s][g][i] = out[s][g][i]
      /\ out'[s][g][Len(out[s][g]) + 1] = c
  BY <1>1, <1>2, AppendFacts
<1>4. Reached(s, g)' = c
  BY <1>1, <1>3 DEF Reached
<1>5. \A h \in Groups \ {g} : Reached(s, h)' = Reached(s, h)
  BY <1>2 DEF Reached
<1>6. ASSUME NEW i \in 1..Len(out'[s][g])
      PROVE  out'[s][g][i] = from[s][g] + i
  <2>1. i \in 1..Len(out[s][g]) \/ i = Len(out[s][g]) + 1
    BY <1>1, <1>3
  <2>2. \A j \in 1..Len(out[s][g]) : out[s][g][j] = from[s][g] + j
    BY DEF IInv, GapFree
  <2>3. CASE i \in 1..Len(out[s][g])
    BY <1>3, <2>2, <2>3
  <2>4. CASE i = Len(out[s][g]) + 1
    BY <1>1, <1>3, <2>4
  <2>5. QED
    BY <2>1, <2>3, <2>4
<1>7. \A h \in Groups \ {g} : unpublished[h] = {} =>
        \A i \in 1..Len(out'[s][h]) : out'[s][h][i] = from[s][h] + i
  BY <1>2 DEF IInv, GapFree
<1>8. QED
  BY <1>2, <1>4, <1>5, <1>6, <1>7

LEMMA WriteBacklogInv ==
  ASSUME IInv, StorageInv', NEW s \in Streams, NEW g \in Groups, unpublished[g] = {},
         WriteBacklog(s, g)
  PROVE  IInv'
<1> DEFINE next == backlog[s].next
           c == messages[g][next]
           q == queue[s][g]
           n == Len(messages[g])
           p == Reached(s, g)
<1>1. /\ UNCHANGED <<storageVars, subscribers, requestVars, closed, pc, queue>>
      /\ pc[s] = "backlog" /\ g \in wanted[s]
      /\ next <= BacklogEnd(s, g)
      /\ Emit(s, g, c)
      /\ lastEmitted' = [lastEmitted EXCEPT ![s][g] = c]
      /\ backlog' = [backlog EXCEPT ![s].next = @ + 1]
  BY DEF WriteBacklog
<1>2. /\ q \in Seq(Nat) /\ p \in Nat /\ n \in Nat /\ next \in Nat /\ backlog[s].end \in Nat
      /\ BacklogEnd(s, g) \in Nat
      /\ \A i \in 1..Len(q) : q[i] \in Nat
      /\ q # <<>> => q[1] \in Nat
  <2>1. /\ q \in Seq(Nat) /\ p \in Nat /\ next \in Nat /\ backlog[s].end \in Nat
        /\ BacklogEnd(s, g) \in Nat /\ messages[g] \in Seq(Nat)
    BY StreamTypes DEF IInv
  <2>2. q # <<>> => q[1] \in Nat
    BY <2>1, TailFacts
  <2>3. n \in Nat /\ \A i \in 1..Len(q) : q[i] \in Nat
    BY <2>1
  <2>4. QED
    BY <2>1, <2>2, <2>3
<1>3. StreamInv(s) /\ pc[s] \in Running
  BY <1>1 DEF IInv, Running
<1>4. kind[s] = "single" /\ wanted[s] = {g} /\ SingleInv(s, g)
  BY <1>1, <1>3 DEF StreamInv, ManyInv
<1>5. next \in 1..n
  BY <1>1, <1>2, <1>4 DEF SingleInv, BacklogEnd
<1>6. c = next
  BY <1>5 DEF IInv, DenseLogs
<1>7. next = p + 1
  <2>1. next = p + 1 \/ (backlog[s].end = 0 /\ ~backlog[s].aliased)
    BY <1>1, <1>4 DEF SingleInv
  <2>2. (backlog[s].end = 0 /\ ~backlog[s].aliased) => BacklogEnd(s, g) = 0
    BY DEF BacklogEnd
  <2> HIDE DEF next, p
  <2>3. QED
    BY <1>1, <1>2, <1>5, <2>1, <2>2
<1>8. /\ Reached(s, g)' = p + 1
      /\ \A t \in Streams \ {s} : out'[t] = out[t]
      /\ \A h \in Groups : unpublished[h] = {} =>
           \A i \in 1..Len(out'[s][h]) : out'[s][h][i] = from[s][h] + i
  <2>1. c \in Nat /\ c = Reached(s, g) + 1 /\ from' = from
    BY <1>1, <1>2, <1>6, <1>7 DEF requestVars
  <2> HIDE DEF c
  <2>2. QED
    BY <1>1, <2>1, EmitNext
<1>9. /\ lastEmitted'[s][g] = p + 1
      /\ \A t \in Streams \ {s} : lastEmitted'[t] = lastEmitted[t]
  BY <1>1, <1>6, <1>7 DEF IInv, StorageInv, TypeOK
<1>10. /\ backlog'[s].next = p + 2
       /\ backlog'[s].end = backlog[s].end
       /\ backlog'[s].aliased = backlog[s].aliased
       /\ \A t \in Streams \ {s} : backlog'[t] = backlog[t]
  <2>1. backlog \in [Streams -> [aliased : BOOLEAN, next : Nat, end : Nat]]
    BY DEF IInv, StorageInv, TypeOK
  <2>2. /\ backlog'[s].next = next + 1
        /\ backlog'[s].end = backlog[s].end
        /\ backlog'[s].aliased = backlog[s].aliased
        /\ \A t \in Streams \ {s} : backlog'[t] = backlog[t]
    BY <1>1, <2>1
  <2>3. QED
    BY <1>2, <1>7, <2>2
<1>11. SingleInv(s, g)'
  <2> DEFINE end == BacklogEnd(s, g)
  <2>1. /\ backlog[s].end <= n
        /\ \A i \in 1..Len(q) : q[i] = q[1] + i - 1
        /\ q # <<>> => q[1] <= p + 1 \/ q[1] <= end + 1
        /\ s \notin closed => IF q = <<>> THEN n <= p \/ n <= end ELSE q[Len(q)] = n
    BY <1>1, <1>4 DEF SingleInv
  <2>2. /\ queue'[s][g] = q /\ Len(messages'[g]) = n /\ pc'[s] = "backlog"
        /\ BacklogEnd(s, g)' = end /\ closed' = closed
    BY <1>1, <1>10 DEF storageVars, BacklogEnd
  <2> HIDE DEF q, n, p, end
  <2>3. \A i \in 1..Len(q) : q[i] <= p + 1 \/ q[i] > p + 1
    BY <1>2
  <2>4. q # <<>> => q[1] <= (p + 1) + 1 \/ q[1] <= end + 1
    BY <1>2, <2>1
  <2>5. s \notin closed => IF q = <<>> THEN n <= p + 1 \/ n <= end ELSE q[Len(q)] = n
    BY <1>2, <2>1
  <2>6. backlog'[s].next = (p + 1) + 1 /\ backlog'[s].next >= 1
    BY <1>2, <1>10
  <2>7. p + 1 <= p + 1
    BY <1>2
  <2>8. QED
    BY <1>8, <1>9, <1>10, <2>1, <2>2, <2>3, <2>4, <2>5, <2>6, <2>7 DEF SingleInv
<1>12. QED
  BY <1>1, <1>3, <1>4, <1>8, <1>9, <1>10, <1>11, HandlerFrame

\* A dropped record was covered by the backlog, or by the client's own cursor.
LEMMA SkipInv ==
  ASSUME IInv, StorageInv', NEW s \in Streams, NEW g \in Groups, unpublished[g] = {},
         SkipReplayed(s, g)
  PROVE  IInv'
<1> DEFINE q == queue[s][g]
           r == Tail(q)
           n == Len(messages[g])
           p == Reached(s, g)
           e == lastEmitted[s][g]
<1>1. /\ UNCHANGED <<storageVars, subscribers, requestVars, closed, pc, out, backlog, lastEmitted>>
      /\ pc[s] = "live" /\ g \in wanted[s] /\ q # <<>>
      /\ kind[s] = "single" /\ Head(q) <= e
      /\ queue' = [queue EXCEPT ![s][g] = Tail(@)]
  BY DEF SkipReplayed, Waiting, Skipped, Dequeue
<1>2. /\ q \in Seq(Nat) /\ p \in Nat /\ n \in Nat /\ e \in Nat
  BY StreamTypes DEF IInv
<1>3. StreamInv(s) /\ pc[s] \in Running
  BY <1>1 DEF IInv, Running
<1>4. wanted[s] = {g} /\ SingleInv(s, g)
  BY <1>1, <1>3 DEF StreamInv
<1>5. /\ queue'[s][g] = r
      /\ \A t \in Streams \ {s} : queue'[t] = queue[t]
  BY <1>1 DEF IInv, StorageInv, TypeOK
<1>6. /\ e <= p
      /\ \A i \in 1..Len(q) : q[i] = q[1] + i - 1
      /\ \A i \in 1..Len(q) : q[i] <= e \/ q[i] > p
      /\ s \notin closed => q[Len(q)] = n
      /\ s \notin closed => e = p \/ n >= p
  BY <1>1, <1>4 DEF SingleInv
<1>7. /\ r \in Seq(Nat) /\ Len(r) \in Nat /\ Len(q) \in Nat /\ Len(q) >= 1
      /\ q[1] \in Nat /\ q[1] <= e
      /\ Len(r) = Len(q) - 1
      /\ \A i \in 1..Len(r) : r[i] = q[i + 1]
      /\ r = <<>> => Len(q) = 1
      /\ r # <<>> => Len(r) >= 1
  <2> HIDE DEF q
  <2>1. /\ r \in Seq(Nat) /\ Len(q) \in Nat /\ Len(q) >= 1 /\ Head(q) = q[1]
        /\ q[1] \in Nat
        /\ Len(r) = Len(q) - 1
        /\ \A i \in 1..Len(r) : r[i] = q[i + 1]
        /\ r = <<>> => Len(q) = 1
    BY <1>1, <1>2, TailFacts
  <2> HIDE DEF r
  <2>2. r # <<>> => Len(r) >= 1
    BY <2>1, TailFacts
  <2>3. Len(r) \in Nat /\ q[1] <= e
    BY <1>1, <2>1
  <2>4. QED
    BY <2>1, <2>2, <2>3
<1>8. SingleInv(s, g)'
  <2> HIDE DEF q, r, n, p, e
  <2>1. ASSUME NEW i \in 1..Len(r)
        PROVE  i + 1 \in 1..Len(q) /\ r[i] = q[1] + i
    <3>1. i + 1 \in 1..Len(q)
      BY <1>7
    <3>2. r[i] = q[i + 1] /\ q[i + 1] = q[1] + (i + 1) - 1
      BY <1>6, <1>7, <3>1
    <3>3. QED
      BY <1>7, <3>1, <3>2
  <2>2. \A i \in 1..Len(r) : r[i] = r[1] + i - 1
    BY <1>7, <2>1
  <2>3. \A i \in 1..Len(r) : r[i] <= e \/ r[i] > p
    BY <1>6, <1>7, <2>1
  <2>4. r # <<>> => r[1] <= p + 1
    BY <1>2, <1>6, <1>7, <2>1
  <2>5. s \notin closed => IF r = <<>> THEN n <= p ELSE r[Len(r)] = n
    BY <1>2, <1>6, <1>7
  <2>6. /\ backlog'[s].next >= 1
        /\ backlog'[s].end <= n
    BY <1>1, <1>4 DEF SingleInv, n
  <2>7. /\ Reached(s, g)' = p /\ lastEmitted'[s][g] = e /\ Len(messages'[g]) = n
        /\ pc'[s] = "live" /\ closed' = closed
    BY <1>1 DEF Reached, storageVars, requestVars, p, e, n
  <2>8. QED
    BY <1>5, <1>6, <2>2, <2>3, <2>4, <2>5, <2>6, <2>7 DEF SingleInv
<1>9. \A h \in Groups : unpublished[h] = {} =>
        \A i \in 1..Len(out'[s][h]) : out'[s][h][i] = from[s][h] + i
  BY <1>1 DEF IInv, GapFree
<1>10. QED
  BY <1>1, <1>3, <1>4, <1>5, <1>8, <1>9, HandlerFrame

LEMMA WriteLiveInv ==
  ASSUME IInv, StorageInv', NEW s \in Streams, NEW g \in Groups, unpublished[g] = {},
         WriteLive(s, g)
  PROVE  IInv'
<1> DEFINE q == queue[s][g]
           r == Tail(q)
           c == Head(q)
           n == Len(messages[g])
           p == Reached(s, g)
           e == lastEmitted[s][g]
<1>1. /\ UNCHANGED <<storageVars, subscribers, requestVars, closed, pc, backlog>>
      /\ pc[s] = "live" /\ g \in wanted[s] /\ q # <<>>
      /\ kind[s] = "single" => ~(c <= e)
      /\ Emit(s, g, c)
      /\ queue' = [queue EXCEPT ![s][g] = Tail(@)]
      /\ lastEmitted' = IF kind[s] = "single" THEN [lastEmitted EXCEPT ![s][g] = c]
                                              ELSE lastEmitted
  BY DEF WriteLive, Waiting, Skipped, Dequeue
<1>2. /\ q \in Seq(Nat) /\ p \in Nat /\ n \in Nat /\ e \in Nat
      /\ backlog[s].next \in Nat /\ backlog[s].end \in Nat
  BY StreamTypes DEF IInv
<1>3. StreamInv(s) /\ pc[s] \in Running
  BY <1>1 DEF IInv, Running
<1>4. /\ kind[s] = "single" => wanted[s] = {g} /\ SingleInv(s, g)
      /\ kind[s] # "single" => ManyInv(s, g)
  BY <1>1, <1>3 DEF StreamInv
<1>5. /\ r \in Seq(Nat) /\ Len(q) \in Nat /\ Len(q) >= 1 /\ c = q[1]
      /\ q[1] \in Nat
      /\ Len(r) = Len(q) - 1 /\ Len(r) \in Nat
      /\ \A i \in 1..Len(r) : r[i] = q[i + 1]
      /\ r = <<>> => Len(q) = 1
      /\ r # <<>> => Len(r) >= 1
  <2> HIDE DEF q
  <2>1. /\ r \in Seq(Nat) /\ Len(q) \in Nat /\ Len(q) >= 1 /\ c = q[1]
        /\ q[1] \in Nat
        /\ Len(r) = Len(q) - 1
        /\ \A i \in 1..Len(r) : r[i] = q[i + 1]
        /\ r = <<>> => Len(q) = 1
    BY <1>1, <1>2, TailFacts
  <2> HIDE DEF r, c
  <2>2. r # <<>> => Len(r) >= 1
    BY <2>1, TailFacts
  <2>3. Len(r) \in Nat
    BY <2>1
  <2>4. QED
    BY <2>1, <2>2, <2>3
<1>6. c = p + 1
  <2>1. CASE kind[s] = "single"
    <3>1. /\ 1 \in 1..Len(q) => (q[1] <= e \/ q[1] > p)
          /\ q[1] <= p + 1 \/ q[1] <= 0 + 1
      BY <1>1, <1>4, <2>1 DEF SingleInv
    <3> HIDE DEF q, r, c, n, p, e
    <3>2. QED
      BY <1>1, <1>2, <1>5, <2>1, <3>1
  <2>2. CASE kind[s] # "single"
    <3>1. \A i \in 1..Len(q) : q[i] = p + i
      BY <1>4, <2>2 DEF ManyInv
    <3> HIDE DEF q, r, c, n, p, e
    <3>2. QED
      BY <1>2, <1>5, <3>1
  <2>3. QED
    BY <2>1, <2>2
<1>7. /\ Reached(s, g)' = p + 1
      /\ \A h \in Groups \ {g} : Reached(s, h)' = Reached(s, h)
      /\ \A t \in Streams \ {s} : out'[t] = out[t]
      /\ \A h \in Groups : unpublished[h] = {} =>
           \A i \in 1..Len(out'[s][h]) : out'[s][h][i] = from[s][h] + i
  <2>1. c \in Nat /\ c = Reached(s, g) + 1 /\ from' = from
    BY <1>1, <1>2, <1>6 DEF requestVars
  <2> HIDE DEF c
  <2>2. QED
    BY <1>1, <1>6, <2>1, EmitNext
<1>8. /\ queue'[s][g] = r
      /\ \A h \in Groups \ {g} : queue'[s][h] = queue[s][h]
      /\ \A t \in Streams \ {s} : queue'[t] = queue[t]
      /\ lastEmitted'[s][g] = IF kind[s] = "single" THEN p + 1 ELSE e
      /\ \A h \in Groups \ {g} : lastEmitted'[s][h] = lastEmitted[s][h]
      /\ \A t \in Streams \ {s} : lastEmitted'[t] = lastEmitted[t]
  BY <1>1, <1>6 DEF IInv, StorageInv, TypeOK
<1>9. /\ messages' = messages /\ closed' = closed /\ pc' = pc /\ backlog' = backlog
      /\ kind' = kind /\ wanted' = wanted
  BY <1>1 DEF storageVars, requestVars
<1>10. ASSUME kind[s] = "single"
       PROVE  SingleInv(s, g)'
  <2>1. /\ \A i \in 1..Len(q) : q[i] = q[1] + i - 1
        /\ s \notin closed => q[Len(q)] = n
        /\ backlog[s].next >= 1
        /\ backlog[s].end <= n
    BY <1>1, <1>4, <1>10 DEF SingleInv
  <2> HIDE DEF q, r, c, n, p, e
  <2>2. \A i \in 1..Len(r) : r[i] = p + 1 + i
    <3>1. \A i \in 1..Len(r) : i + 1 \in 1..Len(q) /\ r[i] = q[1] + i
      BY <1>5, <2>1
    <3>2. QED
      BY <1>5, <1>6, <3>1
  <2>3. \A i \in 1..Len(r) : r[i] = r[1] + i - 1
    BY <1>2, <1>5, <2>2
  <2>4. \A i \in 1..Len(r) : r[i] <= p + 1 \/ r[i] > p + 1
    BY <1>2, <2>2
  <2>5. r # <<>> => r[1] <= (p + 1) + 1
    BY <1>2, <1>5, <2>2
  <2>6. s \notin closed => IF r = <<>> THEN n <= p + 1 ELSE r[Len(r)] = n
    <3>1. CASE r = <<>>
      <4>1. q[Len(q)] = p + 1
        BY <1>5, <1>6, <3>1
      <4>2. QED
        BY <1>2, <2>1, <3>1, <4>1
    <3>2. CASE r # <<>>
      <4>1. Len(r) \in 1..Len(r) /\ Len(r) + 1 = Len(q)
        BY <1>5, <3>2
      <4>2. r[Len(r)] = q[Len(q)]
        BY <1>5, <4>1
      <4>3. QED
        BY <2>1, <3>2, <4>2
    <3>3. QED
      BY <3>1, <3>2
  <2>7. /\ lastEmitted'[s][g] = p + 1 /\ p + 1 <= p + 1
        /\ Len(messages'[g]) = n /\ pc'[s] = "live"
    BY <1>1, <1>2, <1>8, <1>9, <1>10 DEF n
  <2>8. QED
    BY <1>7, <1>8, <1>9, <2>1, <2>3, <2>4, <2>5, <2>6, <2>7 DEF SingleInv
<1>11. ASSUME kind[s] # "single", NEW h \in wanted[s], unpublished[h] = {}
       PROVE  ManyInv(s, h)'
  <2>1. ManyInv(s, h) /\ h \in Groups
    BY <1>3, <1>11 DEF StreamInv, IInv, StorageInv, TypeOK
  <2>2. CASE h # g
    BY <1>7, <1>8, <1>9, <2>1, <2>2 DEF ManyInv
  <2>3. CASE h = g
    <3>1. /\ \A i \in 1..Len(q) : q[i] = p + i
          /\ s \notin closed => /\ e <= p + Len(q)
                                /\ n <= p + Len(q)
                                /\ n < p + Len(q) => e = p + Len(q)
      BY <2>1, <2>3 DEF ManyInv
    <3> HIDE DEF q, r, c, n, p, e
    <3>2. \A i \in 1..Len(r) : r[i] = (p + 1) + i
      BY <1>2, <1>5, <3>1
    <3>3. (p + 1) + Len(r) = p + Len(q)
      BY <1>2, <1>5
    <3>4. lastEmitted'[s][g] = e /\ Len(messages'[g]) = n /\ pc'[s] # "backlog"
      BY <1>1, <1>8, <1>9, <1>11 DEF n
    <3>5. QED
      BY <1>7, <1>8, <1>9, <2>3, <3>1, <3>2, <3>3, <3>4 DEF ManyInv
  <2>4. QED
    BY <2>2, <2>3
<1>12. \A h \in wanted[s] : unpublished[h] = {} =>
         IF kind[s] = "single" THEN SingleInv(s, h)' ELSE ManyInv(s, h)'
  BY <1>4, <1>10, <1>11
<1>13. QED
  BY <1>1, <1>3, <1>7, <1>8, <1>9, <1>12, HandlerFrame

\* In a group of which a post has failed nothing is owed, and a step there leaves the
\* stream's other groups alone.
LEMMA FailedGroupInv ==
  ASSUME IInv, StorageInv', NEW s \in Streams, NEW g \in Groups, unpublished[g] # {},
         WriteBacklog(s, g) \/ EndBacklog(s, g) \/ SkipReplayed(s, g) \/ WriteLive(s, g)
  PROVE  IInv'
<1>1. /\ UNCHANGED <<storageVars, subscribers, requestVars, closed>>
      /\ g \in wanted[s]
      /\ pc[s] \in Running /\ pc'[s] \in Running
      /\ pc'[s] = pc[s] \/ (pc[s] = "backlog" /\ pc'[s] = "live")
  BY DEF WriteBacklog, EndBacklog, SkipReplayed, WriteLive, Waiting, Goto, Running,
         IInv, StorageInv, TypeOK
<1>2. /\ \A t \in Streams \ {s} : UNCHANGED <<pc[t], out[t], queue[t], backlog[t], lastEmitted[t]>>
      /\ \A h \in Groups \ {g} : UNCHANGED <<out[s][h], queue[s][h], lastEmitted[s][h]>>
  <2>1. CASE WriteBacklog(s, g)
    BY <2>1 DEF WriteBacklog, Emit, IInv, StorageInv, TypeOK
  <2>2. CASE EndBacklog(s, g)
    BY <2>2 DEF EndBacklog, Goto, IInv, StorageInv, TypeOK
  <2>3. CASE SkipReplayed(s, g)
    BY <2>3 DEF SkipReplayed, Dequeue, IInv, StorageInv, TypeOK
  <2>4. CASE WriteLive(s, g)
    BY <2>4 DEF WriteLive, Emit, Dequeue, IInv, StorageInv, TypeOK
  <2>5. QED
    BY <2>1, <2>2, <2>3, <2>4
<1>3. StreamInv(s) /\ wanted[s] \subseteq Groups
  BY DEF IInv, StorageInv, TypeOK
<1>4. pc'[s] = "backlog" => kind[s] = "single"
  BY <1>1, <1>3 DEF StreamInv
<1>5. \A h \in Groups : unpublished[h] = {} =>
        \A i \in 1..Len(out'[s][h]) : out'[s][h][i] = from[s][h] + i
  BY <1>2 DEF IInv, GapFree
<1>6. ASSUME NEW h \in wanted[s], unpublished[h] = {}
      PROVE  IF kind[s] = "single" THEN SingleInv(s, h)' ELSE ManyInv(s, h)'
  <2>1. h \in Groups \ {g}
    BY <1>3, <1>6
  <2>2. kind[s] # "single"
    BY <1>1, <1>3, <2>1 DEF StreamInv
  <2>3. ManyInv(s, h) /\ pc'[s] = pc[s]
    BY <1>1, <1>3, <1>6, <2>2 DEF StreamInv
  <2>4. QED
    BY <1>1, <1>2, <2>1, <2>2, <2>3 DEF ManyInv, Reached, storageVars, requestVars
<1>7. QED
  BY <1>1, <1>2, <1>4, <1>5, <1>6, HandlerFrame

\* However a handler ends, it leaves every registration behind.
LEMMA CloseInv ==
  ASSUME IInv, StorageInv', NEW s \in Streams, Unsubscribe(s), pc[s] \in Running,
         UNCHANGED <<storageVars, requestVars, backlog, queue, lastEmitted, out>>,
         pc' = pc \/ Goto(s, "done")
  PROVE  IInv'
<1>1. DenseLogs' /\ GapFree'
  BY DEF IInv, DenseLogs, GapFree, storageVars, requestVars
<1>2. \A t \in Streams : (t # s => pc'[t] = pc[t]) /\ (pc'[s] = pc[s] \/ pc'[s] = "done")
  BY DEF Goto, IInv, StorageInv, TypeOK
<1>3. Registered'
  <2>1. \A t \in Streams : Open(t)' <=> Open(t) /\ t # s
    BY <1>2 DEF Open, Unsubscribe
  <2>2. QED
    BY <2>1 DEF IInv, Registered, Unsubscribe, storageVars, requestVars
<1>4. ASSUME NEW t \in Streams
      PROVE  StreamInv(t)'
  <2>1. StreamInv(t)
    BY DEF IInv
  <2>2. CASE pc'[t] = pc[t]
    <3>1. (t \in closed => t \in closed') /\ (pc[t] = "idle" => t \notin closed')
      BY <2>1 DEF Unsubscribe, StreamInv, Fresh, Running
    <3>2. QED
      BY <2>1, <2>2, <3>1, Frame DEF storageVars, requestVars
  <2>3. CASE pc'[t] = "done"
    BY <2>1, <2>3 DEF StreamInv, Running, requestVars
  <2>4. QED
    BY <1>2, <2>2, <2>3
<1>5. QED
  BY <1>1, <1>3, <1>4 DEF IInv

\* A stream that was just opened owes exactly what lies behind its position.
LEMMA RegisterFrame ==
  ASSUME IInv, StorageInv', NEW s \in Streams, NEW G \in SUBSET Groups, NEW k,
         Register(s, G, k),
         \A t \in Streams \ {s} : from'[t] = from[t] /\ queue'[t] = queue[t]
                                /\ backlog'[t] = backlog[t] /\ lastEmitted'[t] = lastEmitted[t]
  PROVE  /\ DenseLogs' /\ Registered' /\ GapFree'
         /\ \A t \in Streams \ {s} : StreamInv(t)'
         /\ Fresh(s)
         /\ out'[s] = Empty /\ kind'[s] = k /\ wanted'[s] = G /\ pc'[s] = "starting"
         /\ messages' = messages /\ closed' = closed
         /\ G \intersect deletedGroups = {}
<1>1. /\ pc[s] = "idle"
      /\ G \intersect deletedGroups = {}
      /\ subscribers' = [g \in Groups |-> IF g \in G THEN subscribers[g] \union {s}
                                                     ELSE subscribers[g]]
      /\ kind' = [kind EXCEPT ![s] = k]
      /\ wanted' = [wanted EXCEPT ![s] = G]
      /\ pc' = [pc EXCEPT ![s] = "starting"]
      /\ UNCHANGED <<storageVars, closed, out>>
  BY DEF Register
<1>2. /\ kind'[s] = k /\ wanted'[s] = G /\ pc'[s] = "starting"
      /\ \A t \in Streams \ {s} : kind'[t] = kind[t] /\ wanted'[t] = wanted[t] /\ pc'[t] = pc[t]
  BY <1>1 DEF IInv, StorageInv, TypeOK
<1>3. Fresh(s) /\ out'[s] = Empty
  BY <1>1 DEF IInv, StreamInv, Fresh
<1>4. DenseLogs'
  BY <1>1 DEF IInv, DenseLogs, storageVars
<1>5. Registered'
  <2>1. \A t \in Streams : Open(t)' <=> Open(t) \/ t = s
    BY <1>1, <1>2, <1>3 DEF Open, Fresh, Running
  <2>2. ~Open(s)
    BY <1>1 DEF Open, Running
  <2>3. \A t \in Streams, g \in Groups : t \in subscribers'[g] <=> Open(t)' /\ g \in wanted'[t]
    BY <1>1, <1>2, <2>1, <2>2 DEF IInv, Registered
  <2>4. QED
    BY <2>3 DEF Registered
<1>6. GapFree'
  <2>1. ASSUME NEW t \in Streams, NEW g \in Groups, unpublished[g] = {},
               NEW i \in 1..Len(out'[t][g])
        PROVE  out'[t][g][i] = from'[t][g] + i
    <3>1. CASE t = s
      <4>1. Len(out'[t][g]) = 0
        BY <1>3, <3>1 DEF Empty
      <4>2. QED
        BY <4>1
    <3>2. CASE t # s
      BY <1>1, <2>1, <3>2 DEF IInv, GapFree
    <3>3. QED
      BY <3>1, <3>2
  <2>2. QED
    BY <1>1, <2>1 DEF GapFree, storageVars
<1>7. \A t \in Streams \ {s} : StreamInv(t)'
  BY <1>1, <1>2, Frame DEF IInv, StreamInv, Fresh, storageVars
<1>8. QED
  BY <1>1, <1>2, <1>3, <1>4, <1>5, <1>6, <1>7 DEF storageVars

\* On a live group, the map's log and the array are the same.
LEMMA StoredIsLength ==
  ASSUME IInv, NEW g \in Groups, g \notin deletedGroups
  PROVE  Stored(g) = Len(messages[g]) /\ Stored(g) \in Nat
<1>1. messages[g] \in Seq(Nat)
  BY DEF IInv, StorageInv, TypeOK
<1>2. CASE g \in groups
  BY <1>1, <1>2 DEF Stored
<1>3. CASE g \notin groups
  <2>1. messages[g] = <<>>
    BY <1>3 DEF IInv, DenseLogs
  <2>2. QED
    BY <1>3, <2>1 DEF Stored
<1>4. QED
  BY <1>2, <1>3

LEMMA SubscribeSingleInv ==
  ASSUME IInv, StorageInv', NEW s \in Streams, NEW g \in Groups, NEW after \in Afters,
         NEW since \in Sinces, SubscribeGroupMessages(s, g, after, since)
  PROVE  IInv'
<1> DEFINE a == Cursor(after)
           b == Fetch(g, after, since)
           f == Position(g, after, since)
           n == Len(messages[g])
<1>1. /\ Register(s, {g}, "single")
      /\ backlog' = [backlog EXCEPT ![s] = b]
      /\ lastEmitted' = [lastEmitted EXCEPT ![s] = [Zero EXCEPT ![g] = a]]
      /\ from' = [from EXCEPT ![s] = [Zero EXCEPT ![g] = f]]
      /\ UNCHANGED queue
  BY DEF SubscribeGroupMessages
<1>2. /\ backlog'[s] = b /\ lastEmitted'[s][g] = a /\ from'[s][g] = f /\ queue' = queue
      /\ \A t \in Streams \ {s} : from'[t] = from[t] /\ queue'[t] = queue[t]
                                /\ backlog'[t] = backlog[t] /\ lastEmitted'[t] = lastEmitted[t]
  BY <1>1 DEF IInv, StorageInv, TypeOK, Zero
<1>3. /\ DenseLogs' /\ Registered' /\ GapFree'
      /\ \A t \in Streams \ {s} : StreamInv(t)'
      /\ Fresh(s)
      /\ out'[s] = Empty /\ kind'[s] = "single" /\ wanted'[s] = {g} /\ pc'[s] = "starting"
      /\ messages' = messages /\ closed' = closed
      /\ {g} \intersect deletedGroups = {}
  <2>1. Register(s, {g}, "single") /\ {g} \in SUBSET Groups
    BY <1>1
  <2>2. QED
    BY <1>2, <2>1, RegisterFrame
<1>4. Stored(g) = n /\ n \in Nat /\ a \in Nat
  BY <1>3, StoredIsLength, StreamsAssumption DEF Cursor, Afters
<1>5. queue'[s][g] = <<>> /\ out'[s][g] = <<>> /\ Len(out'[s][g]) = 0
  BY <1>2, <1>3 DEF Fresh, Empty
<1>6. Reached(s, g)' = f /\ f \in Nat
  BY <1>2, <1>4, <1>5 DEF Reached, Position
<1>7. SingleInv(s, g)'
  <2>1. b.next >= 1 /\ b.end <= n
    BY <1>4 DEF Fetch, NoBacklog
  <2>2. b.next = f + 1 \/ (b.end = 0 /\ ~b.aliased)
    BY <1>4 DEF Fetch, NoBacklog, Position
  <2>3. a <= f /\ (a = f \/ n >= f)
    BY <1>4 DEF Position
  <2>4. n <= f \/ n <= (IF b.aliased THEN n ELSE b.end)
    BY <1>4 DEF Fetch, NoBacklog, Position
  <2>5. BacklogEnd(s, g)' = IF b.aliased THEN n ELSE b.end
    BY <1>2, <1>3 DEF BacklogEnd
  <2>6. Len(<<>>) = 0
    OBVIOUS
  <2> HIDE DEF a, b, f, n
  <2>7. QED
    BY <1>2, <1>3, <1>5, <1>6, <2>1, <2>2, <2>3, <2>4, <2>5, <2>6 DEF SingleInv, n
<1>8. StreamInv(s)'
  BY <1>3, <1>7 DEF StreamInv, Running
<1>9. QED
  BY <1>3, <1>8 DEF IInv

LEMMA SubscribeManyInv ==
  ASSUME IInv, StorageInv', NEW s \in Streams, NEW G \in SUBSET Groups,
         NEW afters \in [G -> Afters], NEW since \in Sinces,
         SubscribeManyGroupMessages(s, G, afters, since)
  PROVE  IInv'
<1>1. /\ Register(s, G, "many")
      /\ queue' = [queue EXCEPT ![s] = [g \in Groups |->
           IF g \in G THEN Replayed(Fetch(g, afters[g], since)) ELSE <<>>]]
      /\ lastEmitted' = [lastEmitted EXCEPT ![s] = [g \in Groups |->
           IF g \notin G THEN 0
           ELSE Larger(Fetch(g, afters[g], since).end, Cursor(afters[g]))]]
      /\ from' = [from EXCEPT ![s] = [g \in Groups |->
           IF g \in G THEN Position(g, afters[g], since) ELSE 0]]
      /\ UNCHANGED backlog
  BY DEF SubscribeManyGroupMessages
<1>2. /\ \A t \in Streams \ {s} : from'[t] = from[t] /\ queue'[t] = queue[t]
                                /\ backlog'[t] = backlog[t] /\ lastEmitted'[t] = lastEmitted[t]
      /\ \A g \in G : /\ queue'[s][g] = Replayed(Fetch(g, afters[g], since))
                      /\ lastEmitted'[s][g] =
                           Larger(Fetch(g, afters[g], since).end, Cursor(afters[g]))
                      /\ from'[s][g] = Position(g, afters[g], since)
  BY <1>1 DEF IInv, StorageInv, TypeOK
<1>3. /\ DenseLogs' /\ Registered' /\ GapFree'
      /\ \A t \in Streams \ {s} : StreamInv(t)'
      /\ out'[s] = Empty /\ kind'[s] = "many" /\ wanted'[s] = G /\ pc'[s] = "starting"
      /\ messages' = messages /\ closed' = closed
      /\ G \intersect deletedGroups = {}
  <2>1. Register(s, G, "many")
    BY <1>1
  <2>2. QED
    BY <1>2, <2>1, RegisterFrame
<1>4. ASSUME NEW g \in G
      PROVE  ManyInv(s, g)'
  <2> DEFINE a == Cursor(afters[g])
             b == Fetch(g, afters[g], since)
             f == Position(g, afters[g], since)
             n == Len(messages[g])
             q == Replayed(b)
  <2>1. g \in Groups /\ afters[g] \in Afters /\ g \notin deletedGroups
    BY <1>3
  <2>2. Stored(g) = n /\ n \in Nat /\ a \in Nat
    BY <2>1, StoredIsLength, StreamsAssumption DEF Cursor, Afters
  <2>3. b \in [aliased : BOOLEAN, next : Nat, end : Nat] /\ b.next >= 1
    BY <2>1, <2>2, FetchType DEF IInv, StorageInv, Fetch, NoBacklog
  <2>4. /\ Len(q) = IF b.end < b.next THEN 0 ELSE b.end + 1 - b.next
        /\ \A i \in 1..Len(q) : q[i] = b.next + i - 1
    BY <2>3, ReplayedType
  <2>5. Len(out'[s][g]) = 0
    BY <1>3, <2>1 DEF Empty
  <2>6. Reached(s, g)' = f /\ f \in Nat
    BY <1>2, <2>2, <2>5 DEF Reached, Position
  <2>7. \/ b.next = 1 /\ b.end = 0 /\ f = IF n > a THEN n ELSE a
        \/ b.next = a + 1 /\ b.end = n /\ f = a
    BY <2>2 DEF Fetch, NoBacklog, Position
  <2>8. lastEmitted'[s][g] = IF b.end < a THEN a ELSE b.end
    BY <1>2 DEF Larger
  <2>9. queue'[s][g] = q /\ Len(messages'[g]) = n
    BY <1>2, <1>3
  <2> HIDE DEF a, b, f, n, q
  <2>10. \A i \in 1..Len(q) : q[i] = f + i
    <3>1. CASE b.next = 1 /\ b.end = 0
      <4>1. Len(q) = 0
        BY <2>4, <3>1
      <4>2. QED
        BY <4>1
    <3>2. CASE b.next = a + 1 /\ b.end = n /\ f = a
      BY <2>2, <2>3, <2>4, <3>2
    <3>3. QED
      BY <2>7, <3>1, <3>2
  <2>11. /\ lastEmitted'[s][g] <= f + Len(q)
         /\ n <= f + Len(q)
         /\ n < f + Len(q) => lastEmitted'[s][g] = f + Len(q)
    <3>1. CASE b.next = 1 /\ b.end = 0 /\ f = IF n > a THEN n ELSE a
      <4>1. Len(q) = 0
        BY <2>4, <3>1
      <4>2. QED
        BY <2>2, <2>8, <3>1, <4>1
    <3>2. CASE b.next = a + 1 /\ b.end = n /\ f = a
      BY <2>2, <2>4, <2>8, <3>2
    <3>3. QED
      BY <2>7, <3>1, <3>2
  <2>12. pc'[s] # "backlog"
    BY <1>3
  <2>13. QED
    BY <2>6, <2>9, <2>10, <2>11, <2>12 DEF ManyInv
<1>5. StreamInv(s)'
  BY <1>3, <1>4 DEF StreamInv, Running
<1>6. QED
  BY <1>3, <1>5 DEF IInv

LEMMA IInvInit == Init => IInv
<1> SUFFICES ASSUME Init PROVE IInv
  OBVIOUS
<1>1. StorageInv
  BY StorageInvInit
<1>2. Len(<<>>) = 0
  OBVIOUS
<1>3. DenseLogs /\ Registered /\ GapFree
  BY <1>2 DEF Init, DenseLogs, Registered, GapFree, Open, Running, Empty
<1>4. \A s \in Streams : StreamInv(s)
  BY DEF Init, StreamInv, Fresh, Running
<1>5. QED
  BY <1>1, <1>3, <1>4 DEF IInv

LEMMA IInvStep ==
  ASSUME IInv, [Next]_vars
  PROVE  IInv'
<1>1. StorageInv'
  BY StorageInvStep DEF IInv
<1>2. ASSUME NEW g \in Groups, Storage(g)
      PROVE  IInv'
  BY <1>2, PostInv, PostUnpersistedInv, DeleteInv, DeleteUnpersistedInv DEF Storage
<1>3. ASSUME NEW s \in Streams, Subscribe(s)
      PROVE  IInv'
  BY <1>1, <1>3, SubscribeSingleInv, SubscribeManyInv DEF Subscribe
<1>4. ASSUME NEW s \in Streams, FinishStream(s) \/ FailStream(s)
      PROVE  IInv'
  <2>1. pc[s] \in Running /\ EndHandler(s)
    BY <1>4 DEF FinishStream, FailStream, Waiting, Running
  <2>2. QED
    BY <1>1, <2>1, CloseInv DEF EndHandler
<1>5. ASSUME NEW s \in Streams, Handler(s)
      PROVE  IInv'
  <2>1. ASSUME NEW g \in Groups,
               WriteBacklog(s, g) \/ EndBacklog(s, g) \/ SkipReplayed(s, g) \/ WriteLive(s, g)
        PROVE  IInv'
    <3>1. CASE unpublished[g] = {}
      BY <1>1, <2>1, <3>1, WriteBacklogInv, EndBacklogInv, SkipInv, WriteLiveInv
    <3>2. CASE unpublished[g] # {}
      BY <1>1, <2>1, <3>2, FailedGroupInv
    <3>3. QED
      BY <3>1, <3>2
  <2>2. QED
    BY <1>1, <1>4, <1>5, <2>1, StartInv DEF Handler
<1>6. ASSUME NEW s \in Streams, PeerAbort(s)
      PROVE  IInv'
  BY <1>1, <1>6, CloseInv DEF PeerAbort
<1>7. CASE UNCHANGED vars
  <2>1. \A s \in Streams : StreamInv(s)'
    BY <1>7, Frame DEF vars, storageVars, requestVars, IInv, StreamInv, Fresh
  <2>2. QED
    BY <1>1, <1>7, <2>1 DEF vars, storageVars, requestVars, IInv, DenseLogs, Registered,
                            GapFree, Open
<1>8. QED
  BY <1>2, <1>3, <1>5, <1>6, <1>7 DEF Next

\* Every stream, whatever is posted, deleted or aborted between two of its awaits,
\* hands out the records of a group behind its position one by one, without a gap, a
\* repetition or a swap, unless a post to that very group failed once it was stored.
THEOREM StreamsAreGapFree == Spec => []GapFree
<1>1. Init => IInv
  BY IInvInit
<1>2. IInv /\ [Next]_vars => IInv'
  BY IInvStep
<1>3. IInv => GapFree
  BY DEF IInv
<1>4. QED
  BY <1>1, <1>2, <1>3, PTL DEF Spec

\* A stream is registered under exactly its groups while its queue is open, and under
\* none afterwards, failing snapshots included.
THEOREM RegistrationIsExact == Spec => []RegisteredWhileOpen
<1>1. Init => IInv
  BY IInvInit
<1>2. IInv /\ [Next]_vars => IInv'
  BY IInvStep
<1>3. IInv => RegisteredWhileOpen
  <2>1. \A s \in Streams : wanted[s] \subseteq Groups \/ ~IInv
    BY DEF IInv, StorageInv, TypeOK
  <2>2. QED
    BY <2>1 DEF IInv, Registered, RegisteredWhileOpen, Open
<1>4. QED
  BY <1>1, <1>2, <1>3, PTL DEF Spec

-------------------------------------------------------------------------------
(* The promise of OrderedDelivery, failing snapshots included.  What is     *)
(* known of one stream in one group is said of values, so that the lemmas   *)
(* about it need not know of states.                                        *)

In(q) == {q[i] : i \in 1..Len(q)}

\* A stream of kind k with the queue q, that has passed the position p and last emitted
\* e, in a log of n records of which those in F were posted with an error; what is up
\* to covered comes from its backlog.  Each record behind p has failed, or is queued or
\* covered, or came when the queue was closed.
Follows(s, k, q, p, e, n, F, covered, shut) ==
  /\ \A i, j \in 1..Len(q) : i < j => q[i] < q[j]
  /\ In(q) \subseteq 1..n
  /\ e <= p \/ (k = "many" /\ e \in In(q))
  /\ e = p \/ p <= n
  /\ \A c \in In(q) : p < c \/ (k = "single" /\ c <= e)
  /\ \A i \in (p + 1)..n :
       \/ i \in F \union In(q)
       \/ i <= covered
       \/ s \in shut /\ \A c \in In(q) : c < i

LEMMA AppendIn ==
  ASSUME NEW q \in Seq(Nat), NEW c \in Nat
  PROVE  In(Append(q, c)) = In(q) \union {c}
<1>1. /\ Len(Append(q, c)) = Len(q) + 1 /\ Len(q) \in Nat
      /\ Append(q, c)[Len(q) + 1] = c
      /\ \A i \in 1..Len(q) : Append(q, c)[i] = q[i]
  BY AppendFacts
<1>2. 1..(Len(q) + 1) = 1..Len(q) \union {Len(q) + 1}
  BY <1>1
<1>3. QED
  BY <1>1, <1>2 DEF In

LEMMA TailIn ==
  ASSUME NEW q \in Seq(Nat), q # <<>>, \A i, j \in 1..Len(q) : i < j => q[i] < q[j]
  PROVE  /\ Head(q) \in Nat
         /\ In(q) = In(Tail(q)) \union {Head(q)}
         /\ \A c \in In(Tail(q)) : c \in Nat /\ Head(q) < c
         /\ \A i, j \in 1..Len(Tail(q)) : i < j => Tail(q)[i] < Tail(q)[j]
<1>1. /\ Len(q) \in Nat /\ Len(q) >= 1 /\ Head(q) = q[1] /\ q[1] \in Nat
      /\ Tail(q) \in Seq(Nat) /\ Len(Tail(q)) = Len(q) - 1
      /\ \A i \in 1..Len(Tail(q)) : Tail(q)[i] = q[i + 1]
  BY TailFacts
<1>2. \A i \in 1..Len(Tail(q)) : i + 1 \in 1..Len(q) /\ 1 < i + 1
  BY <1>1
<1>3. In(q) = In(Tail(q)) \union {Head(q)}
  <2>1. \A i \in 1..Len(q) : i = 1 \/ (i - 1 \in 1..Len(Tail(q)) /\ Tail(q)[i - 1] = q[i])
    BY <1>1
  <2>2. 1 \in 1..Len(q)
    BY <1>1
  <2>3. ASSUME NEW i \in 1..Len(q)
        PROVE  q[i] \in In(Tail(q)) \union {Head(q)}
    BY <1>1, <2>1 DEF In
  <2>4. ASSUME NEW i \in 1..Len(Tail(q))
        PROVE  Tail(q)[i] \in In(q)
    BY <1>1, <1>2 DEF In
  <2>5. Head(q) \in In(q)
    BY <1>1, <2>2 DEF In
  <2>6. In(q) \subseteq In(Tail(q)) \union {Head(q)} /\ In(Tail(q)) \subseteq In(q)
    BY <2>3, <2>4 DEF In
  <2>7. QED
    BY <2>5, <2>6
<1>4. \A c \in In(Tail(q)) : c \in Nat /\ Head(q) < c
  <2>1. ASSUME NEW i \in 1..Len(Tail(q))
        PROVE  Tail(q)[i] \in Nat /\ Head(q) < Tail(q)[i]
    <3>1. 1 \in 1..Len(q) /\ i + 1 \in 1..Len(q) /\ 1 < i + 1
      BY <1>1, <1>2
    <3>2. q[1] < q[i + 1]
      BY <3>1
    <3>3. QED
      BY <1>1, <3>2
  <2>2. QED
    BY <2>1 DEF In
<1>5. ASSUME NEW i \in 1..Len(Tail(q)), NEW j \in 1..Len(Tail(q)), i < j
      PROVE  Tail(q)[i] < Tail(q)[j]
  BY <1>1, <1>2, <1>5
<1>6. QED
  BY <1>1, <1>3, <1>4, <1>5

LEMMA FollowsPosted ==
  ASSUME NEW s, NEW k, NEW q \in Seq(Nat), NEW p \in Nat, NEW e \in Nat, NEW n \in Nat, NEW F,
         NEW covered \in Nat, NEW coveredNow \in Nat, NEW shut,
         Follows(s, k, q, p, e, n, F, covered, shut), covered <= coveredNow,
         k \in {"single", "many"}, k = "many" => n + 1 > e, s \notin shut
  PROVE  Follows(s, k, Append(q, n + 1), p, IF k = "many" THEN n + 1 ELSE e, n + 1, F,
                 coveredNow, shut)
<1> DEFINE r == Append(q, n + 1)
           f == IF k = "many" THEN n + 1 ELSE e
<1>1. /\ \A i, j \in 1..Len(q) : i < j => q[i] < q[j]
      /\ In(q) \subseteq 1..n
      /\ e <= p \/ (k = "many" /\ e \in In(q))
      /\ e = p \/ p <= n
      /\ \A c \in In(q) : p < c \/ (k = "single" /\ c <= e)
  BY DEF Follows
<1>2. In(r) = In(q) \union {n + 1}
  BY AppendIn
<1>3. \A i, j \in 1..Len(r) : i < j => r[i] < r[j]
  <2>1. /\ Len(r) = Len(q) + 1 /\ Len(q) \in Nat
        /\ r[Len(q) + 1] = n + 1
        /\ \A i \in 1..Len(q) : r[i] = q[i]
    BY AppendFacts
  <2>2. \A i \in 1..Len(q) : q[i] \in 1..n
    BY <1>1 DEF In
  <2> HIDE DEF r
  <2>3. ASSUME NEW i \in 1..Len(r), NEW j \in 1..Len(r), i < j
        PROVE  r[i] < r[j]
    <3>1. i \in 1..Len(q) /\ r[i] = q[i] /\ q[i] \in 1..n
      BY <2>1, <2>2, <2>3
    <3>2. CASE j \in 1..Len(q)
      BY <1>1, <2>1, <2>3, <3>1, <3>2
    <3>3. CASE j \notin 1..Len(q)
      <4>1. j = Len(q) + 1
        BY <2>1, <3>3
      <4>2. QED
        BY <2>1, <3>1, <4>1
    <3>4. QED
      BY <3>2, <3>3
  <2>4. QED
    BY <2>3
<1>4. p < n + 1 \/ (k = "single" /\ n + 1 <= e)
  <2>1. CASE p <= n
    BY <2>1
  <2>2. CASE e = p /\ n < p
    BY <2>2
  <2>3. QED
    BY <1>1, <2>1, <2>2
<1> HIDE DEF r
<1>5. \A c \in In(r) : p < c \/ (k = "single" /\ c <= f)
  BY <1>1, <1>2, <1>4
<1>6. In(r) \subseteq 1..(n + 1)
  BY <1>1, <1>2
<1>7. f <= p \/ (k = "many" /\ f \in In(r))
  BY <1>1, <1>2
<1>8. f = p \/ p <= n + 1
  BY <1>1, <1>4
<1>9. ASSUME NEW i \in (p + 1)..(n + 1)
      PROVE  \/ i \in F \union In(r)
             \/ i <= coveredNow
             \/ s \in shut /\ \A c \in In(r) : c < i
  <2>1. CASE i = n + 1
    BY <1>2, <2>1
  <2>2. CASE i # n + 1
    <3>1. i \in (p + 1)..n
      BY <2>2
    <3>2. i \in F \union In(q) \/ i <= covered
      BY <3>1 DEF Follows
    <3>3. QED
      BY <1>2, <3>1, <3>2
  <2>3. QED
    BY <2>1, <2>2
<1> HIDE DEF f
<1>10. QED
  BY <1>3, <1>5, <1>6, <1>7, <1>8, <1>9 DEF Follows, r, f

\* A record that is not queued: the queue is shut, or the position is ahead of the log.
LEMMA FollowsMissed ==
  ASSUME NEW s, NEW k, NEW q \in Seq(Nat), NEW p \in Nat, NEW e \in Nat, NEW n \in Nat, NEW F,
         NEW covered \in Nat, NEW coveredNow \in Nat, NEW shut,
         Follows(s, k, q, p, e, n, F, covered, shut), covered <= coveredNow,
         s \in shut \/ n + 1 <= e
  PROVE  Follows(s, k, q, p, e, n + 1, F, coveredNow, shut)
<1>1. /\ In(q) \subseteq 1..n
      /\ e <= p \/ (k = "many" /\ e \in In(q))
      /\ e = p \/ p <= n
      /\ \A c \in In(q) : p < c \/ (k = "single" /\ c <= e)
  BY DEF Follows
<1>2. In(q) \subseteq 1..(n + 1) /\ (e = p \/ p <= n + 1)
  BY <1>1
<1>3. ASSUME NEW i \in (p + 1)..(n + 1)
      PROVE  \/ i \in F \union In(q)
             \/ i <= coveredNow
             \/ s \in shut /\ \A c \in In(q) : c < i
  <2>1. CASE i = n + 1
    <3>1. CASE s \in shut
      <4>1. \A c \in In(q) : c < i
        BY <1>1, <2>1
      <4>2. QED
        BY <3>1, <4>1
    <3>2. CASE n + 1 <= e
      <4>1. e \notin In(q)
        BY <1>1, <3>2
      <4>2. e <= p
        BY <1>1, <4>1
      <4>3. QED
        BY <2>1, <3>2, <4>2
    <3>3. QED
      BY <3>1, <3>2
  <2>2. CASE i # n + 1
    <3>1. i \in (p + 1)..n
      BY <2>2
    <3>2. \/ i \in F \union In(q)
          \/ i <= covered
          \/ s \in shut /\ \A c \in In(q) : c < i
      BY <3>1 DEF Follows
    <3>3. i <= covered => i <= coveredNow
      BY <3>1
    <3>4. QED
      BY <3>2, <3>3
  <2>3. QED
    BY <2>1, <2>2
<1>4. QED
  BY <1>2, <1>3 DEF Follows

\* A record whose post has failed.
LEMMA FollowsFailed ==
  ASSUME NEW s, NEW k, NEW q \in Seq(Nat), NEW p \in Nat, NEW e \in Nat, NEW n \in Nat, NEW F,
         NEW covered \in Nat, NEW coveredNow \in Nat, NEW shut,
         Follows(s, k, q, p, e, n, F, covered, shut), covered <= coveredNow
  PROVE  Follows(s, k, q, p, e, n + 1, F \union {n + 1}, coveredNow, shut)
<1>1. /\ In(q) \subseteq 1..n
      /\ e = p \/ p <= n
  BY DEF Follows
<1>2. In(q) \subseteq 1..(n + 1) /\ (e = p \/ p <= n + 1)
  BY <1>1
<1>3. ASSUME NEW i \in (p + 1)..(n + 1)
      PROVE  \/ i \in (F \union {n + 1}) \union In(q)
             \/ i <= coveredNow
             \/ s \in shut /\ \A c \in In(q) : c < i
  <2>1. CASE i # n + 1
    <3>1. i \in (p + 1)..n
      BY <2>1
    <3>2. \/ i \in F \union In(q)
          \/ i <= covered
          \/ s \in shut /\ \A c \in In(q) : c < i
      BY <3>1 DEF Follows
    <3>3. i <= covered => i <= coveredNow
      BY <3>1
    <3>4. QED
      BY <3>2, <3>3
  <2>2. QED
    BY <2>1
<1>4. QED
  BY <1>2, <1>3 DEF Follows

\* Other streams leave, and this one may.
LEMMA FollowsShut ==
  ASSUME NEW s, NEW k, NEW q, NEW p, NEW e, NEW n, NEW F, NEW covered, NEW shut, NEW shutNow,
         Follows(s, k, q, p, e, n, F, covered, shut), s \in shut => s \in shutNow
  PROVE  Follows(s, k, q, p, e, n, F, covered, shutNow)
BY DEF Follows

\* The backlog has been written.
LEMMA FollowsUncovered ==
  ASSUME NEW s, NEW k, NEW q, NEW p \in Nat, NEW e, NEW n, NEW F, NEW covered \in Nat, NEW shut,
         Follows(s, k, q, p, e, n, F, covered, shut), covered <= p
  PROVE  Follows(s, k, q, p, e, n, F, 0, shut)
<1>1. \A i \in (p + 1)..n : ~(i <= covered)
  OBVIOUS
<1>2. \A i \in (p + 1)..n :
        \/ i \in F \union In(q)
        \/ i <= 0
        \/ s \in shut /\ \A c \in In(q) : c < i
  BY <1>1 DEF Follows
<1>3. QED
  BY <1>2 DEF Follows

\* The next record of the backlog.
LEMMA FollowsReplayed ==
  ASSUME NEW s, NEW q \in Seq(Nat), NEW p \in Nat, NEW e \in Nat, NEW n \in Nat, NEW F,
         NEW covered, NEW shut,
         Follows(s, "single", q, p, e, n, F, covered, shut)
  PROVE  Follows(s, "single", q, p + 1, p + 1, n, F, covered, shut)
<1>1. /\ In(q) \subseteq 1..n
      /\ \A c \in In(q) : p < c \/ c <= e
      /\ e <= p
  BY DEF Follows
<1>2. \A c \in In(q) : p + 1 < c \/ c <= p + 1
  BY <1>1
<1>3. \A i \in (p + 2)..n : i \in (p + 1)..n
  OBVIOUS
<1>4. (p + 1) + 1 = p + 2
  OBVIOUS
<1>5. QED
  BY <1>2, <1>3, <1>4 DEF Follows

\* A queued record that the backlog had.
LEMMA FollowsSkipped ==
  ASSUME NEW s, NEW q \in Seq(Nat), NEW p \in Nat, NEW e \in Nat, NEW n \in Nat, NEW F,
         NEW covered, NEW shut,
         Follows(s, "single", q, p, e, n, F, covered, shut), q # <<>>, Head(q) <= e
  PROVE  Follows(s, "single", Tail(q), p, e, n, F, covered, shut)
<1>1. /\ \A i, j \in 1..Len(q) : i < j => q[i] < q[j]
      /\ In(q) \subseteq 1..n
      /\ e <= p
      /\ e = p \/ p <= n
      /\ \A c \in In(q) : p < c \/ c <= e
  BY DEF Follows
<1>2. /\ Head(q) \in Nat
      /\ In(q) = In(Tail(q)) \union {Head(q)}
      /\ \A i, j \in 1..Len(Tail(q)) : i < j => Tail(q)[i] < Tail(q)[j]
  BY <1>1, TailIn
<1>3. ASSUME NEW i \in (p + 1)..n
      PROVE  \/ i \in F \union In(Tail(q))
             \/ i <= covered
             \/ s \in shut /\ \A c \in In(Tail(q)) : c < i
  <2>1. i # Head(q)
    BY <1>1, <1>2
  <2>2. QED
    BY <1>2, <2>1 DEF Follows
<1>4. QED
  BY <1>1, <1>2, <1>3 DEF Follows

\* A live record: only failed ones lie between the position and it.
LEMMA FollowsLive ==
  ASSUME NEW s, NEW k \in {"single", "many"}, NEW q \in Seq(Nat), NEW p \in Nat, NEW e \in Nat,
         NEW n \in Nat, NEW F, NEW shut,
         Follows(s, k, q, p, e, n, F, 0, shut), q # <<>>, ~(k = "single" /\ Head(q) <= e)
  PROVE  /\ Head(q) \in (p + 1)..n
         /\ (p + 1)..(Head(q) - 1) \subseteq F
         /\ Follows(s, k, Tail(q), Head(q), IF k = "single" THEN Head(q) ELSE e, n, F, 0, shut)
<1> DEFINE c == Head(q)
           f == IF k = "single" THEN c ELSE e
           r == Tail(q)
<1>1. /\ \A i, j \in 1..Len(q) : i < j => q[i] < q[j]
      /\ In(q) \subseteq 1..n
      /\ e <= p \/ (k = "many" /\ e \in In(q))
      /\ \A d \in In(q) : p < d \/ (k = "single" /\ d <= e)
      /\ \A i \in (p + 1)..n :
           \/ i \in F \union In(q)
           \/ i <= 0
           \/ s \in shut /\ \A d \in In(q) : d < i
  BY DEF Follows
<1>2. /\ c \in Nat
      /\ In(q) = In(r) \union {c}
      /\ \A d \in In(r) : d \in Nat /\ c < d
      /\ \A i, j \in 1..Len(r) : i < j => r[i] < r[j]
  BY <1>1, TailIn
<1> HIDE DEF c, r
<1>3. c \in (p + 1)..n
  BY <1>1, <1>2 DEF c
<1>4. ASSUME NEW i \in (p + 1)..(c - 1)
      PROVE  i \in F
  <2>1. i \in (p + 1)..n /\ ~(i <= 0) /\ ~(c < i) /\ i < c
    BY <1>3
  <2>2. i \notin In(q)
    BY <1>2, <2>1
  <2>3. QED
    BY <1>1, <1>2, <2>1, <2>2
<1>5. Follows(s, k, r, c, f, n, F, 0, shut)
  <2>1. In(r) \subseteq 1..n
    BY <1>1, <1>2
  <2>2. f <= c \/ (k = "many" /\ f \in In(r))
    BY <1>1, <1>2, <1>3
  <2>3. f = c \/ c <= n
    BY <1>3
  <2>4. \A d \in In(r) : c < d
    BY <1>2
  <2>5. ASSUME NEW i \in (c + 1)..n
        PROVE  \/ i \in F \union In(r)
               \/ i <= 0
               \/ s \in shut /\ \A d \in In(r) : d < i
    <3>1. i \in (p + 1)..n /\ i # c
      BY <1>3
    <3>2. QED
      BY <1>1, <1>2, <3>1
  <2> HIDE DEF f
  <2>6. QED
    BY <1>2, <2>1, <2>2, <2>3, <2>4, <2>5 DEF Follows
<1>6. QED
  BY <1>3, <1>4, <1>5 DEF c, r

\* What a single stream has not written yet comes from its backlog.
Covered(s, g) == IF kind[s] = "single" /\ pc[s] # "live" THEN BacklogEnd(s, g) ELSE 0

HandsOut(s, g) ==
  /\ Follows(s, kind[s], queue[s][g], Passed(s, g), lastEmitted[s][g], Len(messages[g]),
             unpublished[g], Covered(s, g), closed)
  /\ kind[s] = "single" /\ pc[s] # "live" =>
       backlog[s].next = Passed(s, g) + 1 \/ (backlog[s].end = 0 /\ ~backlog[s].aliased)

PromiseInv ==
  /\ IInv
  /\ \A s \in Streams, g \in Groups : pc[s] \in Running /\ g \in wanted[s] => HandsOut(s, g)

LEMMA PassedType ==
  ASSUME StorageInv, NEW s \in Streams, NEW g \in Groups
  PROVE  Passed(s, g) \in Nat /\ Covered(s, g) \in Nat /\ Len(messages[g]) \in Nat
<1>1. out[s][g] \in Seq(Nat) /\ from[s][g] \in Nat /\ BacklogEnd(s, g) \in Nat
      /\ messages[g] \in Seq(Nat)
  BY StreamTypes
<1>2. CASE out[s][g] = <<>>
  BY <1>1, <1>2 DEF Passed, Covered
<1>3. CASE out[s][g] # <<>>
  <2>1. Len(out[s][g]) \in 1..Len(out[s][g])
    BY <1>1, <1>3
  <2>2. out[s][g][Len(out[s][g])] \in Nat
    BY <1>1, <2>1
  <2>3. QED
    BY <1>1, <1>3, <2>2 DEF Passed, Covered
<1>4. QED
  BY <1>2, <1>3

LEMMA HandsOutHere ==
  ASSUME PromiseInv, NEW s \in Streams, NEW g \in wanted[s], pc[s] \in Running
  PROVE  /\ g \in Groups
         /\ Follows(s, kind[s], queue[s][g], Passed(s, g), lastEmitted[s][g], Len(messages[g]),
                    unpublished[g], Covered(s, g), closed)
         /\ kind[s] = "single" /\ pc[s] # "live" =>
              backlog[s].next = Passed(s, g) + 1 \/ (backlog[s].end = 0 /\ ~backlog[s].aliased)
         /\ kind[s] \in {"single", "many"}
         /\ queue[s][g] \in Seq(Nat) /\ lastEmitted[s][g] \in Nat
         /\ Passed(s, g) \in Nat /\ Covered(s, g) \in Nat /\ Len(messages[g]) \in Nat
<1>1. g \in Groups /\ StorageInv /\ StreamInv(s)
  BY DEF PromiseInv, IInv, StorageInv, TypeOK
<1>2. HandsOut(s, g)
  BY <1>1 DEF PromiseInv
<1>3. kind[s] \in {"single", "many"}
  BY <1>1 DEF StreamInv
<1>4. QED
  BY <1>1, <1>2, <1>3, StreamTypes, PassedType DEF HandsOut

\* A stream and a group that a step leaves alone.
LEMMA HandsOutFrame ==
  ASSUME NEW s, NEW g, HandsOut(s, g),
         UNCHANGED <<messages[g], unpublished[g], pc[s], kind[s], from[s], out[s][g], queue[s][g],
                     backlog[s], lastEmitted[s][g]>>,
         s \in closed => s \in closed'
  PROVE  HandsOut(s, g)'
<1>1. Passed(s, g)' = Passed(s, g) /\ Covered(s, g)' = Covered(s, g)
  BY DEF Passed, Covered, BacklogEnd
<1>2. Follows(s, kind[s], queue[s][g], Passed(s, g), lastEmitted[s][g], Len(messages[g]),
              unpublished[g], Covered(s, g), closed')
  BY FollowsShut DEF HandsOut
<1>3. Follows(s, kind'[s], queue'[s][g], Passed(s, g)', lastEmitted'[s][g], Len(messages'[g]),
              unpublished'[g], Covered(s, g)', closed')
  BY <1>1, <1>2
<1>4. QED
  BY <1>1, <1>3 DEF HandsOut

LEMMA PromiseInvInit == Init => PromiseInv
<1>1. Init => \A s \in Streams : pc[s] \notin Running
  BY DEF Init, Running
<1>2. QED
  BY <1>1, IInvInit DEF PromiseInv

\* What an append does to the log of its group.
LEMMA AppendTo ==
  ASSUME PromiseInv, NEW g \in Groups, Append1(g)
  PROVE  /\ nextCursor[g] = Len(messages[g]) + 1
         /\ Len(messages'[g]) = Len(messages[g]) + 1
         /\ \A h \in Groups : h # g => messages'[h] = messages[h]
         /\ \A s \in Streams : UNCHANGED <<pc[s], kind[s], backlog[s]>> =>
              Covered(s, g) <= Covered(s, g)' /\ Covered(s, g)' \in Nat
<1>1. /\ nextCursor[g] = Len(messages[g]) + 1 /\ messages[g] \in Seq(Nat)
      /\ messages \in [Groups -> Seq(Nat)]
      /\ messages' = [messages EXCEPT ![g] = Append(@, nextCursor[g])]
  BY DEF PromiseInv, IInv, DenseLogs, Append1, StorageInv, TypeOK
<1>2. messages'[g] = Append(messages[g], nextCursor[g]) /\ Len(messages[g]) \in Nat
  BY <1>1
<1>3. Len(messages'[g]) = Len(messages[g]) + 1
  BY <1>1, <1>2
<1>4. ASSUME NEW s \in Streams, UNCHANGED <<pc[s], kind[s], backlog[s]>>
      PROVE  Covered(s, g) <= Covered(s, g)' /\ Covered(s, g)' \in Nat
  <2>1. backlog[s].end \in Nat
    BY StreamTypes DEF PromiseInv, IInv
  <2>2. QED
    BY <1>2, <1>3, <1>4, <2>1 DEF Covered, BacklogEnd
<1>5. QED
  BY <1>1, <1>3, <1>4

LEMMA PostPromise ==
  ASSUME PromiseInv, IInv', NEW g \in Groups, PostGroupMessage(g)
  PROVE  PromiseInv'
<1>1. /\ Append1(g)
      /\ PublishLive(g, nextCursor[g])
      /\ UNCHANGED <<unpublished, kind, wanted, from, pc, backlog, closed, out>>
  BY DEF PostGroupMessage, requestVars
<1>2. ASSUME NEW s \in Streams, NEW h \in wanted[s], pc[s] \in Running
      PROVE  HandsOut(s, h)'
  <2>1. HandsOut(s, h) /\ h \in Groups /\ queue \in [Streams -> [Groups -> Seq(Nat)]]
        /\ lastEmitted \in [Streams -> [Groups -> Nat]]
    BY <1>2 DEF PromiseInv, IInv, StorageInv, TypeOK
  <2>2. CASE h # g
    <3>1. queue'[s][h] = queue[s][h] /\ lastEmitted'[s][h] = lastEmitted[s][h]
      BY <1>1, <2>1, <2>2 DEF PublishLive
    <3>2. messages'[h] = messages[h]
      BY <1>1, <2>1, <2>2, AppendTo
    <3>3. QED
      BY <1>1, <2>1, <3>1, <3>2, HandsOutFrame
  <2>3. CASE h = g
    <3> DEFINE n == Len(messages[g])
               e == lastEmitted[s][g]
               p == Passed(s, g)
               q == queue[s][g]
    <3>1. /\ Follows(s, kind[s], q, p, e, n, unpublished[g], Covered(s, g), closed)
          /\ kind[s] = "single" /\ pc[s] # "live" =>
               backlog[s].next = p + 1 \/ (backlog[s].end = 0 /\ ~backlog[s].aliased)
          /\ kind[s] \in {"single", "many"}
          /\ q \in Seq(Nat) /\ e \in Nat /\ p \in Nat /\ n \in Nat /\ Covered(s, g) \in Nat
      BY <1>2, <2>3, HandsOutHere
    <3>2. /\ nextCursor[g] = n + 1 /\ Len(messages'[g]) = n + 1
          /\ Covered(s, g) <= Covered(s, g)' /\ Covered(s, g)' \in Nat
      BY <1>1, AppendTo
    <3>3. p = Passed(s, g)'
      BY <1>1 DEF Passed
    <3>4. g \in wanted[s] /\ (s \in subscribers[g] <=> s \notin closed)
      BY <1>2, <2>3 DEF PromiseInv, IInv, Registered, Open
    <3>5. queue'[s] = IF Accepts(s, g, n + 1) THEN [queue[s] EXCEPT ![g] = Append(@, n + 1)]
                      ELSE queue[s]
      BY <1>1, <3>2 DEF PublishLive
    <3>6. lastEmitted'[s] = IF Accepts(s, g, n + 1) /\ kind[s] = "many"
                            THEN [lastEmitted[s] EXCEPT ![g] = n + 1] ELSE lastEmitted[s]
      BY <1>1, <3>2 DEF PublishLive
    <3>7. Follows(s, kind[s], queue'[s][g], p, lastEmitted'[s][g], n + 1, unpublished[g],
                  Covered(s, g)', closed)
      <4>1. CASE Accepts(s, g, n + 1)
        <5>1. s \notin closed /\ (kind[s] = "many" => n + 1 > e)
          BY <4>1 DEF Accepts
        <5>2. queue'[s][g] = Append(q, n + 1)
          BY <2>1, <3>5, <4>1
        <5>3. lastEmitted'[s][g] = IF kind[s] = "many" THEN n + 1 ELSE e
          BY <2>1, <3>6, <4>1
        <5> HIDE DEF n, e, p, q
        <5>4. QED
          BY <3>1, <3>2, <5>1, <5>2, <5>3, FollowsPosted
      <4>2. CASE ~Accepts(s, g, n + 1)
        <5>1. queue'[s][g] = q /\ lastEmitted'[s][g] = e
          BY <3>5, <3>6, <4>2
        <5>2. s \in closed \/ n + 1 <= e
          BY <3>1, <3>4, <4>2 DEF Accepts
        <5> HIDE DEF n, e, p, q
        <5>3. QED
          BY <3>1, <3>2, <5>1, <5>2, FollowsMissed
      <4>3. QED
        BY <4>1, <4>2
    <3>8. QED
      BY <1>1, <2>3, <3>1, <3>2, <3>3, <3>7 DEF HandsOut
  <2>4. QED
    BY <2>2, <2>3
<1>3. QED
  BY <1>1, <1>2 DEF PromiseInv

LEMMA PostUnpersistedPromise ==
  ASSUME PromiseInv, IInv', NEW g \in Groups, PostUnpersisted(g)
  PROVE  PromiseInv'
<1>1. /\ Append1(g)
      /\ unpublished' = [unpublished EXCEPT ![g] = @ \union {nextCursor[g]}]
      /\ UNCHANGED <<queue, lastEmitted, kind, wanted, from, pc, backlog, closed, out>>
  BY DEF PostUnpersisted, requestVars
<1>2. ASSUME NEW s \in Streams, NEW h \in wanted[s], pc[s] \in Running
      PROVE  HandsOut(s, h)'
  <2>1. HandsOut(s, h) /\ h \in Groups /\ unpublished \in [Groups -> SUBSET Nat]
    BY <1>2 DEF PromiseInv, IInv, StorageInv, TypeOK
  <2>2. CASE h # g
    <3>1. messages'[h] = messages[h] /\ unpublished'[h] = unpublished[h]
      BY <1>1, <2>1, <2>2, AppendTo
    <3>2. QED
      BY <1>1, <2>1, <3>1, HandsOutFrame
  <2>3. CASE h = g
    <3> DEFINE n == Len(messages[g])
               e == lastEmitted[s][g]
               p == Passed(s, g)
               q == queue[s][g]
               F == unpublished[g]
    <3>1. /\ Follows(s, kind[s], q, p, e, n, F, Covered(s, g), closed)
          /\ kind[s] = "single" /\ pc[s] # "live" =>
               backlog[s].next = p + 1 \/ (backlog[s].end = 0 /\ ~backlog[s].aliased)
          /\ kind[s] \in {"single", "many"}
          /\ q \in Seq(Nat) /\ e \in Nat /\ p \in Nat /\ n \in Nat /\ Covered(s, g) \in Nat
      BY <1>2, <2>3, HandsOutHere
    <3>2. /\ nextCursor[g] = n + 1 /\ Len(messages'[g]) = n + 1
          /\ Covered(s, g) <= Covered(s, g)' /\ Covered(s, g)' \in Nat
      BY <1>1, AppendTo
    <3>3. p = Passed(s, g)'
      BY <1>1 DEF Passed
    <3>4. unpublished'[g] = F \union {n + 1}
      BY <1>1, <2>1, <3>2
    <3>5. Follows(s, kind[s], q, p, e, n + 1, F \union {n + 1}, Covered(s, g)', closed)
      <4> HIDE DEF n, e, p, q, F
      <4>1. QED
        BY <3>1, <3>2, FollowsFailed
    <3>6. QED
      BY <1>1, <2>3, <3>1, <3>2, <3>3, <3>4, <3>5 DEF HandsOut
  <2>4. QED
    BY <2>2, <2>3
<1>3. QED
  BY <1>1, <1>2 DEF PromiseInv

\* A step that leaves what the streams hold alone, and may shut some or end one.
LEMMA LeavePromise ==
  ASSUME PromiseInv, IInv',
         UNCHANGED <<messages, unpublished, kind, wanted, from, backlog, queue, lastEmitted, out>>,
         closed \subseteq closed',
         \A s \in Streams : pc'[s] = pc[s] \/ pc'[s] = "done"
  PROVE  PromiseInv'
<1>1. ASSUME NEW s \in Streams, NEW g \in Groups, pc'[s] \in Running, g \in wanted[s]
      PROVE  HandsOut(s, g)'
  <2>1. pc'[s] = pc[s] /\ HandsOut(s, g)
    BY <1>1 DEF Running, PromiseInv
  <2>2. QED
    BY <2>1, HandsOutFrame
<1>2. QED
  BY <1>1 DEF PromiseInv

-------------------------------------------------------------------------------

\* An opened stream in a group, as far as other streams do not matter.
LEMMA RegisterPromise ==
  ASSUME PromiseInv, IInv', NEW s \in Streams, NEW G \in SUBSET Groups, NEW k,
         Register(s, G, k),
         \A t \in Streams \ {s} : from'[t] = from[t] /\ queue'[t] = queue[t]
                                /\ backlog'[t] = backlog[t] /\ lastEmitted'[t] = lastEmitted[t],
         \A g \in G : HandsOut(s, g)'
  PROVE  PromiseInv'
<1>1. /\ UNCHANGED <<messages, unpublished, closed, out>>
      /\ \A t \in Streams \ {s} : kind'[t] = kind[t] /\ wanted'[t] = wanted[t] /\ pc'[t] = pc[t]
      /\ wanted'[s] = G
  BY DEF Register, storageVars, PromiseInv, IInv, StorageInv, TypeOK
<1>2. ASSUME NEW t \in Streams, NEW g \in Groups, pc'[t] \in Running, g \in wanted'[t]
      PROVE  HandsOut(t, g)'
  <2>1. CASE t = s
    BY <1>1, <1>2, <2>1
  <2>2. CASE t # s
    <3>1. HandsOut(t, g)
      BY <1>1, <1>2, <2>2 DEF PromiseInv
    <3>2. QED
      BY <1>1, <2>2, <3>1, HandsOutFrame
  <2>3. QED
    BY <2>1, <2>2
<1>3. QED
  BY <1>2 DEF PromiseInv

LEMMA SubscribeSinglePromise ==
  ASSUME PromiseInv, IInv', NEW s \in Streams, NEW g \in Groups, NEW after \in Afters,
         NEW since \in Sinces, SubscribeGroupMessages(s, g, after, since)
  PROVE  PromiseInv'
<1> DEFINE a == Cursor(after)
           b == Fetch(g, after, since)
           f == Position(g, after, since)
           n == Len(messages[g])
<1>1. /\ Register(s, {g}, "single")
      /\ backlog' = [backlog EXCEPT ![s] = b]
      /\ lastEmitted' = [lastEmitted EXCEPT ![s] = [Zero EXCEPT ![g] = a]]
      /\ from' = [from EXCEPT ![s] = [Zero EXCEPT ![g] = f]]
      /\ UNCHANGED queue
  BY DEF SubscribeGroupMessages
<1>2. /\ backlog'[s] = b /\ lastEmitted'[s][g] = a /\ from'[s][g] = f /\ queue' = queue
      /\ \A t \in Streams \ {s} : from'[t] = from[t] /\ queue'[t] = queue[t]
                                /\ backlog'[t] = backlog[t] /\ lastEmitted'[t] = lastEmitted[t]
  BY <1>1 DEF PromiseInv, IInv, StorageInv, TypeOK, Zero
<1>3. /\ Fresh(s) /\ g \notin deletedGroups
      /\ out' = out /\ kind'[s] = "single" /\ pc'[s] = "starting"
      /\ messages' = messages
  <2>1. /\ Register(s, {g}, "single") /\ StreamInv(s)
    BY <1>1 DEF PromiseInv, IInv
  <2>2. QED
    BY <2>1 DEF Register, StreamInv, storageVars, PromiseInv, IInv, StorageInv, TypeOK
<1>4. Stored(g) = n /\ n \in Nat /\ a \in Nat
  BY <1>3, StoredIsLength, StreamsAssumption DEF Cursor, Afters, PromiseInv
<1>5. queue'[s][g] = <<>> /\ out'[s][g] = <<>>
  BY <1>2, <1>3 DEF Fresh, Empty
<1>6. Passed(s, g)' = f /\ f \in Nat
  BY <1>2, <1>4, <1>5 DEF Passed, Position
<1>7. b.next = f + 1 \/ (b.end = 0 /\ ~b.aliased)
  BY <1>4 DEF Fetch, NoBacklog, Position
<1>8. Covered(s, g)' = IF b.aliased THEN n ELSE b.end
  BY <1>2, <1>3 DEF BacklogEnd, Covered
<1>9. Follows(s, "single", <<>>, f, a, n, unpublished'[g], IF b.aliased THEN n ELSE b.end, closed')
  <2>1. a <= f /\ (a = f \/ f <= n)
    BY <1>4 DEF Position
  <2>2. n <= f \/ n <= (IF b.aliased THEN n ELSE b.end)
    BY <1>4 DEF Fetch, NoBacklog, Position
  <2>3. In(<<>>) = {} /\ Len(<<>>) = 0
    BY DEF In
  <2>4. b.end \in Nat
    BY <1>4 DEF Fetch, NoBacklog
  <2> HIDE DEF a, b, f, n
  <2>5. \A i \in (f + 1)..n : i <= (IF b.aliased THEN n ELSE b.end)
    BY <1>4, <1>6, <2>2, <2>4
  <2>6. QED
    BY <2>1, <2>3, <2>5 DEF Follows
<1>10. HandsOut(s, g)'
  <2> HIDE DEF a, b, f, n
  <2>1. Len(messages'[g]) = n
    BY <1>3 DEF n
  <2>2. QED
    BY <1>2, <1>3, <1>5, <1>6, <1>7, <1>8, <1>9, <2>1 DEF HandsOut
<1>11. QED
  BY <1>1, <1>2, <1>10, RegisterPromise

LEMMA SubscribeManyPromise ==
  ASSUME PromiseInv, IInv', NEW s \in Streams, NEW G \in SUBSET Groups,
         NEW afters \in [G -> Afters], NEW since \in Sinces,
         SubscribeManyGroupMessages(s, G, afters, since)
  PROVE  PromiseInv'
<1>1. /\ Register(s, G, "many")
      /\ queue' = [queue EXCEPT ![s] = [g \in Groups |->
           IF g \in G THEN Replayed(Fetch(g, afters[g], since)) ELSE <<>>]]
      /\ lastEmitted' = [lastEmitted EXCEPT ![s] = [g \in Groups |->
           IF g \notin G THEN 0
           ELSE Larger(Fetch(g, afters[g], since).end, Cursor(afters[g]))]]
      /\ from' = [from EXCEPT ![s] = [g \in Groups |->
           IF g \in G THEN Position(g, afters[g], since) ELSE 0]]
      /\ UNCHANGED backlog
  BY DEF SubscribeManyGroupMessages
<1>2. /\ \A t \in Streams \ {s} : from'[t] = from[t] /\ queue'[t] = queue[t]
                                /\ backlog'[t] = backlog[t] /\ lastEmitted'[t] = lastEmitted[t]
      /\ \A g \in G : /\ queue'[s][g] = Replayed(Fetch(g, afters[g], since))
                      /\ lastEmitted'[s][g] =
                           Larger(Fetch(g, afters[g], since).end, Cursor(afters[g]))
                      /\ from'[s][g] = Position(g, afters[g], since)
  BY <1>1 DEF PromiseInv, IInv, StorageInv, TypeOK
<1>3. /\ Fresh(s) /\ G \intersect deletedGroups = {}
      /\ out' = out /\ kind'[s] = "many" /\ pc'[s] = "starting"
      /\ messages' = messages
  <2>1. /\ Register(s, G, "many") /\ StreamInv(s)
    BY <1>1 DEF PromiseInv, IInv
  <2>2. QED
    BY <2>1 DEF Register, StreamInv, storageVars, PromiseInv, IInv, StorageInv, TypeOK
<1>4. ASSUME NEW g \in G
      PROVE  HandsOut(s, g)'
  <2> DEFINE a == Cursor(afters[g])
             b == Fetch(g, afters[g], since)
             f == Position(g, afters[g], since)
             n == Len(messages[g])
             q == Replayed(b)
             e == Larger(b.end, a)
  <2>1. g \in Groups /\ afters[g] \in Afters /\ g \notin deletedGroups
    BY <1>3
  <2>2. Stored(g) = n /\ n \in Nat /\ a \in Nat
    BY <2>1, StoredIsLength, StreamsAssumption DEF Cursor, Afters, PromiseInv
  <2>3. b \in [aliased : BOOLEAN, next : Nat, end : Nat] /\ b.next >= 1
    BY <2>1, <2>2, FetchType DEF PromiseInv, IInv, StorageInv, Fetch, NoBacklog
  <2>4. /\ Len(q) = IF b.end < b.next THEN 0 ELSE b.end + 1 - b.next
        /\ \A i \in 1..Len(q) : q[i] = b.next + i - 1
    BY <2>3, ReplayedType
  <2>5. out'[s][g] = <<>>
    BY <1>3, <2>1 DEF Fresh, Empty
  <2>6. Passed(s, g)' = f /\ f \in Nat
    BY <1>2, <2>2, <2>5 DEF Passed, Position
  <2>7. \/ b.next = 1 /\ b.end = 0 /\ f = IF n > a THEN n ELSE a
        \/ b.next = a + 1 /\ b.end = n /\ f = a
    BY <2>2 DEF Fetch, NoBacklog, Position
  <2>8. e = IF b.end < a THEN a ELSE b.end
    BY DEF Larger
  <2>9. queue'[s][g] = q /\ lastEmitted'[s][g] = e /\ Len(messages'[g]) = n
    BY <1>2, <1>3
  <2>10. Covered(s, g)' = 0
    BY <1>3 DEF Covered
  <2>11. b.end \in Nat /\ b.next \in Nat
    BY <2>3
  <2> HIDE DEF a, b, f, n, q, e
  <2>12. Follows(s, "many", q, f, e, n, unpublished'[g], 0, closed')
    <3>1. CASE b.next = 1 /\ b.end = 0 /\ f = IF n > a THEN n ELSE a
      <4>1. Len(q) = 0
        BY <2>4, <3>1
      <4>2. In(q) = {}
        BY <4>1 DEF In
      <4>3. e = a /\ a <= f /\ (a = f \/ f <= n) /\ n <= f
        BY <2>2, <2>8, <3>1
      <4>4. (f + 1)..n = {}
        BY <2>2, <2>6, <4>3
      <4>5. QED
        BY <4>1, <4>2, <4>3, <4>4 DEF Follows
    <3>2. CASE b.next = a + 1 /\ b.end = n /\ f = a
      <4>1. Len(q) = (IF n > a THEN n - a ELSE 0) /\ \A i \in 1..Len(q) : q[i] = a + i
        BY <2>2, <2>4, <3>2
      <4>2. In(q) = (f + 1)..n
        <5>1. ASSUME NEW i \in (f + 1)..n
              PROVE  i \in In(q)
          <6>1. i - a \in 1..Len(q) /\ a + (i - a) = i
            BY <2>2, <3>2, <4>1
          <6>2. q[i - a] = i
            BY <4>1, <6>1
          <6>3. QED
            BY <6>1, <6>2 DEF In
        <5>2. ASSUME NEW i \in 1..Len(q)
              PROVE  q[i] \in (f + 1)..n
          BY <2>2, <3>2, <4>1
        <5>3. QED
          BY <5>1, <5>2 DEF In
      <4>3. \A i, j \in 1..Len(q) : i < j => q[i] < q[j]
        BY <2>2, <4>1
      <4>4. /\ In(q) \subseteq 1..n
            /\ \A c \in In(q) : f < c
            /\ \A i \in (f + 1)..n : i \in In(q)
        BY <2>2, <2>6, <4>2
      <4>5. (e <= f \/ e \in In(q)) /\ (e = f \/ f <= n)
        BY <2>2, <2>8, <3>2, <4>2
      <4>6. QED
        BY <4>3, <4>4, <4>5 DEF Follows
    <3>3. QED
      BY <2>7, <3>1, <3>2
  <2>13. QED
    BY <1>3, <2>6, <2>9, <2>10, <2>12 DEF HandsOut
<1>5. QED
  BY <1>1, <1>2, <1>4, RegisterPromise

\* A step of a handler in one of its groups.
LEMMA StepPromise ==
  ASSUME PromiseInv, IInv', NEW s \in Streams, NEW g \in wanted[s],
         UNCHANGED <<messages, unpublished, kind, wanted, from, closed>>,
         \A t \in Streams \ {s} : UNCHANGED <<pc[t], out[t], queue[t], backlog[t], lastEmitted[t]>>,
         \A h \in Groups \ {g} : UNCHANGED <<out[s][h], queue[s][h], lastEmitted[s][h]>>,
         kind[s] = "single" \/ (pc'[s] = pc[s] /\ backlog'[s] = backlog[s]),
         pc[s] \in Running,
         HandsOut(s, g)'
  PROVE  PromiseInv'
<1>1. ASSUME NEW t \in Streams, NEW h \in Groups, pc'[t] \in Running, h \in wanted[t]
      PROVE  HandsOut(t, h)'
  <2>1. CASE t # s
    <3>1. HandsOut(t, h)
      BY <1>1, <2>1 DEF PromiseInv
    <3>2. QED
      BY <2>1, <3>1, HandsOutFrame
  <2>2. CASE t = s /\ h = g
    BY <2>2
  <2>3. CASE t = s /\ h # g
    <3>1. kind[s] # "single"
      BY <1>1, <2>3 DEF PromiseInv, IInv, StreamInv
    <3>2. HandsOut(s, h)
      BY <1>1, <2>3 DEF PromiseInv
    <3>3. UNCHANGED <<pc[s], backlog[s], out[s][h], queue[s][h], lastEmitted[s][h]>>
      BY <2>3, <3>1
    <3>4. QED
      BY <2>3, <3>2, <3>3, HandsOutFrame
  <2>4. QED
    BY <2>1, <2>2, <2>3
<1>2. QED
  BY <1>1 DEF PromiseInv

LEMMA StartPromise ==
  ASSUME PromiseInv, IInv', NEW s \in Streams, StartStream(s)
  PROVE  PromiseInv'
<1>1. /\ pc[s] = "starting"
      /\ pc' = [pc EXCEPT ![s] = IF kind[s] = "single" THEN "backlog" ELSE "live"]
      /\ UNCHANGED <<messages, unpublished, kind, wanted, from, closed, backlog, queue,
                     lastEmitted, out>>
  BY DEF StartStream, Goto, storageVars, requestVars
<1>2. /\ pc'[s] = IF kind[s] = "single" THEN "backlog" ELSE "live"
      /\ \A t \in Streams \ {s} : pc'[t] = pc[t]
  BY <1>1 DEF PromiseInv, IInv, StorageInv, TypeOK
<1>3. ASSUME NEW t \in Streams, NEW h \in Groups, pc'[t] \in Running, h \in wanted[t]
      PROVE  HandsOut(t, h)'
  <2>1. HandsOut(t, h)
    BY <1>1, <1>2, <1>3 DEF PromiseInv, Running
  <2>2. CASE t # s
    BY <1>1, <1>2, <2>1, <2>2, HandsOutFrame
  <2>3. CASE t = s
    <3>1. Passed(s, h)' = Passed(s, h) /\ Covered(s, h)' = Covered(s, h)
      BY <1>1, <1>2 DEF Passed, Covered, BacklogEnd
    <3>2. QED
      BY <1>1, <1>2, <2>1, <2>3, <3>1 DEF HandsOut
  <2>4. QED
    BY <2>2, <2>3
<1>4. QED
  BY <1>1, <1>3 DEF PromiseInv

\* The record that the backlog is at is the one behind the position.
LEMMA BacklogIsNext ==
  ASSUME PromiseInv, NEW s \in Streams, NEW g \in Groups, WriteBacklog(s, g)
  PROVE  /\ kind[s] = "single" /\ g \in wanted[s] /\ pc[s] = "backlog"
         /\ backlog[s].next = Passed(s, g) + 1
         /\ Passed(s, g) + 1 <= Len(messages[g])
         /\ messages[g][backlog[s].next] = Passed(s, g) + 1
<1>1. /\ pc[s] = "backlog" /\ g \in wanted[s] /\ backlog[s].next <= BacklogEnd(s, g)
      /\ pc[s] \in Running
  BY DEF WriteBacklog, Running
<1>2. /\ kind[s] = "single"
      /\ backlog[s].next >= 1 /\ backlog[s].end <= Len(messages[g])
      /\ \A i \in 1..Len(messages[g]) : messages[g][i] = i
  BY <1>1 DEF PromiseInv, IInv, StreamInv, StorageInv, BacklogInArray, DenseLogs
<1>3. /\ backlog[s].next \in Nat /\ backlog[s].end \in Nat
      /\ Passed(s, g) \in Nat /\ Len(messages[g]) \in Nat
  BY StreamTypes, PassedType DEF PromiseInv, IInv
<1>4. backlog[s].next = Passed(s, g) + 1 \/ (backlog[s].end = 0 /\ ~backlog[s].aliased)
  BY <1>1, <1>2, HandsOutHere
<1>5. BacklogEnd(s, g) <= Len(messages[g])
      /\ (~backlog[s].aliased => BacklogEnd(s, g) = backlog[s].end)
  BY <1>2, <1>3 DEF BacklogEnd
<1>6. backlog[s].next = Passed(s, g) + 1
  BY <1>1, <1>2, <1>3, <1>4, <1>5
<1>7. backlog[s].next \in 1..Len(messages[g])
  BY <1>1, <1>2, <1>3, <1>5 DEF BacklogEnd
<1>8. QED
  BY <1>1, <1>2, <1>3, <1>6, <1>7

\* What a stream has passed when a record is written.
LEMMA PassedEmitted ==
  ASSUME StorageInv, NEW s \in Streams, NEW g \in Groups, NEW c \in Nat, Emit(s, g, c),
         UNCHANGED from
  PROVE  /\ Passed(s, g)' = c
         /\ \A t \in Streams \ {s} : out'[t] = out[t]
         /\ \A h \in Groups \ {g} : out'[s][h] = out[s][h]
<1>1. out[s][g] \in Seq(Nat) /\ out \in [Streams -> [Groups -> Seq(Nat)]]
      /\ out' = [out EXCEPT ![s][g] = Append(@, c)]
  BY DEF StorageInv, TypeOK, Emit
<1>2. out'[s][g] = Append(out[s][g], c)
      /\ (\A t \in Streams \ {s} : out'[t] = out[t])
      /\ (\A h \in Groups \ {g} : out'[s][h] = out[s][h])
  BY <1>1
<1>3. out'[s][g] # <<>> /\ out'[s][g][Len(out'[s][g])] = c
  <2> DEFINE q == out[s][g]
             r == Append(q, c)
  <2>1. q \in Seq(Nat)
    BY <1>1
  <2> HIDE DEF q
  <2>2. Len(r) = Len(q) + 1 /\ Len(q) \in Nat /\ r[Len(q) + 1] = c /\ r \in Seq(Nat)
    BY <2>1, AppendFacts
  <2>3. out'[s][g] = r
    BY <1>2 DEF q
  <2> HIDE DEF r
  <2>4. r # <<>>
    BY <2>2
  <2>5. QED
    BY <2>2, <2>3, <2>4
<1>4. Passed(s, g)' = c
  BY <1>3 DEF Passed
<1>5. QED
  BY <1>2, <1>4

LEMMA WriteBacklogPromise ==
  ASSUME PromiseInv, IInv', NEW s \in Streams, NEW g \in Groups, WriteBacklog(s, g)
  PROVE  PromiseInv'
<1> DEFINE p == Passed(s, g)
           n == Len(messages[g])
<1>1. /\ kind[s] = "single" /\ g \in wanted[s] /\ pc[s] = "backlog" /\ pc[s] \in Running
      /\ backlog[s].next = p + 1
      /\ p + 1 <= n
      /\ messages[g][backlog[s].next] = p + 1
  BY BacklogIsNext DEF Running
<1>2. p \in Nat /\ n \in Nat /\ p + 1 \in Nat /\ StorageInv
  BY PassedType DEF PromiseInv, IInv
<1>3. /\ Emit(s, g, p + 1)
      /\ lastEmitted' = [lastEmitted EXCEPT ![s][g] = p + 1]
      /\ backlog' = [backlog EXCEPT ![s].next = @ + 1]
      /\ UNCHANGED <<messages, unpublished, kind, wanted, from, closed, pc, queue>>
  BY <1>1, Zenon DEF WriteBacklog, storageVars, requestVars
<1>4. /\ Passed(s, g)' = p + 1
      /\ \A t \in Streams \ {s} : out'[t] = out[t]
      /\ \A h \in Groups \ {g} : out'[s][h] = out[s][h]
  BY <1>2, <1>3, PassedEmitted
<1>5. /\ lastEmitted'[s][g] = p + 1
      /\ \A t \in Streams \ {s} : lastEmitted'[t] = lastEmitted[t]
      /\ \A h \in Groups \ {g} : lastEmitted'[s][h] = lastEmitted[s][h]
  BY <1>2, <1>3 DEF StorageInv, TypeOK
<1>6. /\ backlog'[s].next = (p + 1) + 1
      /\ backlog'[s].end = backlog[s].end /\ backlog'[s].aliased = backlog[s].aliased
      /\ \A t \in Streams \ {s} : backlog'[t] = backlog[t]
  <2>1. backlog \in [Streams -> [aliased : BOOLEAN, next : Nat, end : Nat]]
    BY <1>2 DEF StorageInv, TypeOK
  <2>2. backlog' = [backlog EXCEPT ![s] = [backlog[s] EXCEPT !.next = backlog[s].next + 1]]
    BY <1>3
  <2>3. backlog'[s] = [backlog[s] EXCEPT !.next = backlog[s].next + 1]
        /\ \A t \in Streams \ {s} : backlog'[t] = backlog[t]
    BY <2>1, <2>2
  <2>4. backlog[s] \in [aliased : BOOLEAN, next : Nat, end : Nat]
    BY <2>1
  <2>5. /\ backlog'[s].next = backlog[s].next + 1
        /\ backlog'[s].end = backlog[s].end /\ backlog'[s].aliased = backlog[s].aliased
    BY <2>3, <2>4
  <2>6. QED
    BY <1>1, <2>3, <2>5
<1>7. Covered(s, g)' = Covered(s, g)
  BY <1>3, <1>6 DEF Covered, BacklogEnd
<1>8. Follows(s, "single", queue[s][g], p + 1, p + 1, n, unpublished[g], Covered(s, g), closed)
  <2>1. /\ Follows(s, "single", queue[s][g], p, lastEmitted[s][g], n, unpublished[g],
                   Covered(s, g), closed)
        /\ queue[s][g] \in Seq(Nat) /\ lastEmitted[s][g] \in Nat
    BY <1>1, HandsOutHere
  <2>2. QED
    BY <1>2, <2>1, FollowsReplayed
<1> HIDE DEF p, n
<1>9. HandsOut(s, g)'
  <2>1. Len(messages'[g]) = n
    BY <1>3 DEF n
  <2>2. QED
    BY <1>1, <1>3, <1>4, <1>5, <1>6, <1>7, <1>8, <2>1 DEF HandsOut
<1>10. \A t \in Streams \ {s} : UNCHANGED <<pc[t], out[t], queue[t], backlog[t], lastEmitted[t]>>
  BY <1>3, <1>4, <1>5, <1>6
<1>11. QED
  BY <1>1, <1>3, <1>4, <1>5, <1>9, <1>10, StepPromise

LEMMA EndBacklogPromise ==
  ASSUME PromiseInv, IInv', NEW s \in Streams, NEW g \in Groups, EndBacklog(s, g)
  PROVE  PromiseInv'
<1>1. /\ pc[s] = "backlog" /\ pc[s] \in Running /\ g \in wanted[s]
      /\ backlog[s].next > BacklogEnd(s, g)
      /\ pc' = [pc EXCEPT ![s] = "live"]
      /\ UNCHANGED <<messages, unpublished, kind, wanted, from, closed, backlog, queue,
                     lastEmitted, out>>
  BY DEF EndBacklog, Goto, storageVars, requestVars, Running
<1>2. pc'[s] = "live" /\ \A t \in Streams \ {s} : pc'[t] = pc[t]
  BY <1>1 DEF PromiseInv, IInv, StorageInv, TypeOK
<1>3. kind[s] = "single"
  BY <1>1 DEF PromiseInv, IInv, StreamInv
<1>4. /\ Follows(s, "single", queue[s][g], Passed(s, g), lastEmitted[s][g], Len(messages[g]),
                 unpublished[g], Covered(s, g), closed)
      /\ backlog[s].next = Passed(s, g) + 1 \/ (backlog[s].end = 0 /\ ~backlog[s].aliased)
      /\ Passed(s, g) \in Nat /\ Covered(s, g) \in Nat
  BY <1>1, <1>3, HandsOutHere
<1>5. Covered(s, g) <= Passed(s, g)
  <2>1. Covered(s, g) = BacklogEnd(s, g)
    BY <1>1, <1>3 DEF Covered
  <2>2. ~backlog[s].aliased => BacklogEnd(s, g) = backlog[s].end
    BY DEF BacklogEnd
  <2>3. QED
    BY <1>1, <1>4, <2>1, <2>2
<1>6. Follows(s, "single", queue[s][g], Passed(s, g), lastEmitted[s][g], Len(messages[g]),
              unpublished[g], 0, closed)
  BY <1>4, <1>5, FollowsUncovered
<1>7. HandsOut(s, g)'
  <2>1. Passed(s, g)' = Passed(s, g) /\ Covered(s, g)' = 0
    BY <1>1, <1>2 DEF Passed, Covered
  <2>2. QED
    BY <1>1, <1>2, <1>3, <1>6, <2>1 DEF HandsOut
<1>8. \A t \in Streams \ {s} : UNCHANGED <<pc[t], out[t], queue[t], backlog[t], lastEmitted[t]>>
  BY <1>1, <1>2
<1>9. \A h \in Groups \ {g} : UNCHANGED <<out[s][h], queue[s][h], lastEmitted[s][h]>>
  BY <1>1
<1>10. QED
  BY <1>1, <1>3, <1>7, <1>8, <1>9, StepPromise

LEMMA DequeueFacts ==
  ASSUME StorageInv, NEW s \in Streams, NEW g \in Groups, Dequeue(s, g)
  PROVE  /\ queue'[s][g] = Tail(queue[s][g])
         /\ \A t \in Streams \ {s} : queue'[t] = queue[t]
         /\ \A h \in Groups \ {g} : queue'[s][h] = queue[s][h]
BY DEF StorageInv, TypeOK, Dequeue

LEMMA SkipPromise ==
  ASSUME PromiseInv, IInv', NEW s \in Streams, NEW g \in Groups, SkipReplayed(s, g)
  PROVE  PromiseInv'
<1>1. /\ pc[s] = "live" /\ pc[s] \in Running /\ g \in wanted[s] /\ queue[s][g] # <<>>
      /\ kind[s] = "single" /\ Head(queue[s][g]) <= lastEmitted[s][g]
      /\ Dequeue(s, g)
      /\ UNCHANGED <<messages, unpublished, kind, wanted, from, closed, pc, backlog,
                     lastEmitted, out>>
  BY DEF SkipReplayed, Waiting, Skipped, storageVars, requestVars, Running
<1>2. /\ queue'[s][g] = Tail(queue[s][g])
      /\ \A t \in Streams \ {s} : queue'[t] = queue[t]
      /\ \A h \in Groups \ {g} : queue'[s][h] = queue[s][h]
  BY <1>1, DequeueFacts DEF PromiseInv, IInv
<1>3. Follows(s, "single", Tail(queue[s][g]), Passed(s, g), lastEmitted[s][g], Len(messages[g]),
              unpublished[g], Covered(s, g), closed)
  <2>1. /\ Follows(s, "single", queue[s][g], Passed(s, g), lastEmitted[s][g], Len(messages[g]),
                   unpublished[g], Covered(s, g), closed)
        /\ queue[s][g] \in Seq(Nat) /\ lastEmitted[s][g] \in Nat
        /\ Passed(s, g) \in Nat /\ Len(messages[g]) \in Nat
    BY <1>1, HandsOutHere
  <2>2. QED
    BY <1>1, <2>1, FollowsSkipped
<1>4. HandsOut(s, g)'
  <2>1. Passed(s, g)' = Passed(s, g) /\ Covered(s, g)' = Covered(s, g)
    BY <1>1 DEF Passed, Covered, BacklogEnd
  <2>2. QED
    BY <1>1, <1>2, <1>3, <2>1 DEF HandsOut
<1>5. \A t \in Streams \ {s} : UNCHANGED <<pc[t], out[t], queue[t], backlog[t], lastEmitted[t]>>
  BY <1>1, <1>2
<1>6. \A h \in Groups \ {g} : UNCHANGED <<out[s][h], queue[s][h], lastEmitted[s][h]>>
  BY <1>1, <1>2
<1>7. QED
  BY <1>1, <1>4, <1>5, <1>6, StepPromise

\* A live record is the next one, or lies behind failed ones only.
LEMMA LiveIsNext ==
  ASSUME PromiseInv, NEW s \in Streams, NEW g \in Groups, WriteLive(s, g)
  PROVE  LET c == Head(queue[s][g]) IN
         /\ pc[s] = "live" /\ pc[s] \in Running /\ g \in wanted[s]
         /\ c \in (Passed(s, g) + 1)..Len(messages[g])
         /\ c \in Nat
         /\ (Passed(s, g) + 1)..(c - 1) \subseteq unpublished[g]
         /\ Follows(s, kind[s], Tail(queue[s][g]), c,
                    IF kind[s] = "single" THEN c ELSE lastEmitted[s][g],
                    Len(messages[g]), unpublished[g], 0, closed)
<1>1. /\ pc[s] = "live" /\ pc[s] \in Running /\ g \in wanted[s] /\ queue[s][g] # <<>>
      /\ ~(kind[s] = "single" /\ Head(queue[s][g]) <= lastEmitted[s][g])
  BY DEF WriteLive, Waiting, Skipped, Running
<1>2. /\ Follows(s, kind[s], queue[s][g], Passed(s, g), lastEmitted[s][g], Len(messages[g]),
                 unpublished[g], Covered(s, g), closed)
      /\ kind[s] \in {"single", "many"}
      /\ queue[s][g] \in Seq(Nat) /\ lastEmitted[s][g] \in Nat
      /\ Passed(s, g) \in Nat /\ Len(messages[g]) \in Nat
  BY <1>1, HandsOutHere
<1>3. Covered(s, g) = 0
  BY <1>1 DEF Covered
<1>4. Head(queue[s][g]) \in Nat
  BY <1>1, <1>2, TailFacts
<1>5. Follows(s, kind[s], queue[s][g], Passed(s, g), lastEmitted[s][g], Len(messages[g]),
              unpublished[g], 0, closed)
  BY <1>2, <1>3
<1>6. /\ Head(queue[s][g]) \in (Passed(s, g) + 1)..Len(messages[g])
      /\ (Passed(s, g) + 1)..(Head(queue[s][g]) - 1) \subseteq unpublished[g]
      /\ Follows(s, kind[s], Tail(queue[s][g]), Head(queue[s][g]),
                 IF kind[s] = "single" THEN Head(queue[s][g]) ELSE lastEmitted[s][g],
                 Len(messages[g]), unpublished[g], 0, closed)
  <2> DEFINE k == kind[s]
             q == queue[s][g]
             p == Passed(s, g)
             e == lastEmitted[s][g]
             n == Len(messages[g])
             F == unpublished[g]
  <2>1. /\ Follows(s, k, q, p, e, n, F, 0, closed)
        /\ q # <<>> /\ ~(k = "single" /\ Head(q) <= e)
        /\ k \in {"single", "many"} /\ q \in Seq(Nat) /\ p \in Nat /\ e \in Nat /\ n \in Nat
    BY <1>1, <1>2, <1>5
  <2> HIDE DEF k, q, p, e, n, F
  <2>2. /\ Head(q) \in (p + 1)..n
        /\ (p + 1)..(Head(q) - 1) \subseteq F
        /\ Follows(s, k, Tail(q), Head(q), IF k = "single" THEN Head(q) ELSE e, n, F, 0, closed)
    BY <2>1, FollowsLive
  <2>3. QED
    BY <2>2 DEF k, q, p, e, n, F
<1>7. QED
  BY <1>1, <1>4, <1>6

LEMMA WriteLivePromise ==
  ASSUME PromiseInv, IInv', NEW s \in Streams, NEW g \in Groups, WriteLive(s, g)
  PROVE  PromiseInv'
<1> DEFINE c == Head(queue[s][g])
           f == IF kind[s] = "single" THEN c ELSE lastEmitted[s][g]
<1>1. /\ pc[s] = "live" /\ pc[s] \in Running /\ g \in wanted[s] /\ c \in Nat
      /\ Follows(s, kind[s], Tail(queue[s][g]), c, f, Len(messages[g]), unpublished[g], 0, closed)
  BY LiveIsNext
<1>2. /\ Emit(s, g, c)
      /\ Dequeue(s, g)
      /\ lastEmitted' = IF kind[s] = "single" THEN [lastEmitted EXCEPT ![s][g] = c]
                        ELSE lastEmitted
      /\ UNCHANGED <<messages, unpublished, kind, wanted, from, closed, pc, backlog>>
  BY DEF WriteLive, storageVars, requestVars
<1>3. /\ queue'[s][g] = Tail(queue[s][g])
      /\ \A t \in Streams \ {s} : queue'[t] = queue[t]
      /\ \A h \in Groups \ {g} : queue'[s][h] = queue[s][h]
  BY <1>2, DequeueFacts DEF PromiseInv, IInv
<1>4. /\ Passed(s, g)' = c
      /\ \A t \in Streams \ {s} : out'[t] = out[t]
      /\ \A h \in Groups \ {g} : out'[s][h] = out[s][h]
  BY <1>1, <1>2, PassedEmitted DEF PromiseInv, IInv
<1>5. /\ lastEmitted'[s][g] = f
      /\ \A t \in Streams \ {s} : lastEmitted'[t] = lastEmitted[t]
      /\ \A h \in Groups \ {g} : lastEmitted'[s][h] = lastEmitted[s][h]
  BY <1>2 DEF PromiseInv, IInv, StorageInv, TypeOK
<1> HIDE DEF c, f
<1>6. HandsOut(s, g)'
  <2>1. Covered(s, g)' = 0
    BY <1>1, <1>2 DEF Covered
  <2>2. QED
    BY <1>1, <1>2, <1>3, <1>4, <1>5, <2>1 DEF HandsOut
<1>7. \A t \in Streams \ {s} : UNCHANGED <<pc[t], out[t], queue[t], backlog[t], lastEmitted[t]>>
  BY <1>2, <1>3, <1>4, <1>5
<1>8. \A h \in Groups \ {g} : UNCHANGED <<out[s][h], queue[s][h], lastEmitted[s][h]>>
  BY <1>3, <1>4, <1>5
<1>9. QED
  BY <1>1, <1>2, <1>6, <1>7, <1>8, StepPromise

LEMMA PromiseInvStep == PromiseInv /\ [Next]_vars => PromiseInv'
<1> SUFFICES ASSUME PromiseInv, [Next]_vars
             PROVE  PromiseInv'
  OBVIOUS
<1>1. IInv'
  BY IInvStep DEF PromiseInv
<1>2. ASSUME NEW g \in Groups, Storage(g)
      PROVE  PromiseInv'
  <2>1. CASE PostGroupMessage(g)
    BY <1>1, <2>1, PostPromise
  <2>2. CASE PostUnpersisted(g)
    BY <1>1, <2>2, PostUnpersistedPromise
  <2>3. CASE DeleteGroup(g)
    <3>1. /\ closed \subseteq closed'
          /\ UNCHANGED <<messages, unpublished, kind, wanted, from, backlog, queue, lastEmitted,
                         out, pc>>
      BY <2>3 DEF DeleteGroup, RemoveGroup, CloseSubscribersForGroup, requestVars
    <3>2. QED
      BY <1>1, <3>1, LeavePromise
  <2>4. CASE DeleteUnpersisted(g)
    <3>1. UNCHANGED <<messages, unpublished, kind, wanted, from, backlog, queue, lastEmitted,
                      out, pc, closed>>
      BY <2>4 DEF DeleteUnpersisted, RemoveGroup, requestVars
    <3>2. QED
      BY <1>1, <3>1, LeavePromise
  <2>5. QED
    BY <1>2, <2>1, <2>2, <2>3, <2>4 DEF Storage
<1>3. ASSUME NEW s \in Streams, Subscribe(s)
      PROVE  PromiseInv'
  <2>1. ASSUME NEW g \in Groups, NEW after \in Afters, NEW since \in Sinces,
               SubscribeGroupMessages(s, g, after, since)
        PROVE  PromiseInv'
    BY <1>1, <2>1, SubscribeSinglePromise
  <2>2. ASSUME NEW G \in (SUBSET Groups) \ {{}}, NEW afters \in [G -> Afters],
               NEW since \in Sinces, SubscribeManyGroupMessages(s, G, afters, since)
        PROVE  PromiseInv'
    BY <1>1, <2>2, SubscribeManyPromise
  <2>3. QED
    BY <1>3, <2>1, <2>2 DEF Subscribe
<1>4. ASSUME NEW s \in Streams, EndHandler(s)
      PROVE  PromiseInv'
  <2>1. /\ closed \subseteq closed'
        /\ pc' = [pc EXCEPT ![s] = "done"]
        /\ UNCHANGED <<messages, unpublished, kind, wanted, from, backlog, queue, lastEmitted,
                       out>>
    BY <1>4 DEF EndHandler, Unsubscribe, Goto, storageVars, requestVars
  <2>2. \A t \in Streams : pc'[t] = pc[t] \/ pc'[t] = "done"
    BY <2>1 DEF PromiseInv, IInv, StorageInv, TypeOK
  <2>3. QED
    BY <1>1, <2>1, <2>2, LeavePromise
<1>5. ASSUME NEW s \in Streams, Handler(s)
      PROVE  PromiseInv'
  <2>1. CASE StartStream(s)
    BY <1>1, <2>1, StartPromise
  <2>2. ASSUME NEW g \in Groups, WriteBacklog(s, g)
        PROVE  PromiseInv'
    BY <1>1, <2>2, WriteBacklogPromise
  <2>3. ASSUME NEW g \in Groups, EndBacklog(s, g)
        PROVE  PromiseInv'
    BY <1>1, <2>3, EndBacklogPromise
  <2>4. ASSUME NEW g \in Groups, SkipReplayed(s, g)
        PROVE  PromiseInv'
    BY <1>1, <2>4, SkipPromise
  <2>5. ASSUME NEW g \in Groups, WriteLive(s, g)
        PROVE  PromiseInv'
    BY <1>1, <2>5, WriteLivePromise
  <2>6. CASE FinishStream(s) \/ FailStream(s)
    BY <1>4, <2>6 DEF FinishStream, FailStream
  <2>7. QED
    BY <1>5, <2>1, <2>2, <2>3, <2>4, <2>5, <2>6 DEF Handler
<1>6. ASSUME NEW s \in Streams, PeerAbort(s)
      PROVE  PromiseInv'
  <2>1. /\ closed \subseteq closed'
        /\ UNCHANGED <<messages, unpublished, kind, wanted, from, backlog, queue, lastEmitted,
                       out, pc>>
    BY <1>6 DEF PeerAbort, Unsubscribe, storageVars, requestVars
  <2>2. QED
    BY <1>1, <2>1, LeavePromise
<1>7. CASE UNCHANGED vars
  <2>1. UNCHANGED <<messages, unpublished, kind, wanted, from, backlog, queue, lastEmitted,
                    out, pc, closed>>
    BY <1>7 DEF vars, storageVars, requestVars
  <2>2. QED
    BY <1>1, <2>1, LeavePromise
<1>8. QED
  BY <1>2, <1>3, <1>5, <1>6, <1>7 DEF Next

-------------------------------------------------------------------------------
(* The steps, one by one, under the mapping of Promise. *)

\* The values that Promise gives to the variables of OrderedDelivery.
Lengths == [g \in Groups |-> Len(messages[g])]
Phases == [s \in Streams |-> IF pc[s] = "idle" THEN "idle"
                             ELSE IF pc[s] = "done" THEN "ended" ELSE "open"]
Positions == [s \in Streams |-> [g \in Groups |-> Passed(s, g)]]

LEMMA SamePositions ==
  ASSUME UNCHANGED <<from, out>>
  PROVE  Positions' = Positions
<1>1. \A s \in Streams, g \in Groups : Passed(s, g)' = Passed(s, g)
  BY DEF Passed
<1>2. QED
  BY <1>1 DEF Positions

LEMMA AcceptStep ==
  ASSUME PromiseInv, NEW g \in Groups, Append1(g),
         unpublished' \in {unpublished, [unpublished EXCEPT ![g] = @ \union {nextCursor[g]}]},
         UNCHANGED <<from, out, pc, wanted, closed>>
  PROVE  Promise!Accept(g)
<1>1. g \notin deletedGroups /\ nextCursor[g] <= MaxMessages /\ UNCHANGED deletedGroups
  BY DEF Append1
<1>2. /\ nextCursor[g] = Len(messages[g]) + 1
      /\ Len(messages'[g]) = Len(messages[g]) + 1
      /\ \A h \in Groups : h # g => messages'[h] = messages[h]
  BY AppendTo
<1>3. Len(messages[g]) < MaxMessages
  <2>1. Len(messages[g]) \in Nat
    BY PassedType DEF PromiseInv, IInv, StorageInv, TypeOK
  <2>2. QED
    BY <1>1, <1>2, <2>1, StreamsAssumption
<1>4. Lengths' = [Lengths EXCEPT ![g] = @ + 1]
  BY <1>2 DEF Lengths
<1>5. Lengths[g] < MaxMessages /\ Lengths'[g] = nextCursor[g]
  BY <1>2, <1>3 DEF Lengths
<1>6. Positions' = Positions /\ Phases' = Phases
  BY SamePositions DEF Phases
<1>7. QED
  BY <1>1, <1>4, <1>5, <1>6
     DEF Promise!Accept, Promise!streamVars, Lengths, Positions, Phases

LEMMA DeleteStep ==
  ASSUME PromiseInv, NEW g \in Groups, DeleteGroup(g)
  PROVE  Promise!Delete(g)
<1>1. /\ deletedGroups' = deletedGroups \union {g}
      /\ closed' = closed \union subscribers[g]
      /\ UNCHANGED <<messages, unpublished, from, out, pc, wanted>>
  BY DEF DeleteGroup, RemoveGroup, CloseSubscribersForGroup, requestVars
<1>2. closed' = closed \union {s \in Streams : Phases[s] = "open" /\ g \in wanted[s]}
  <2>1. \A s \in Streams : Phases[s] = "open" <=> pc[s] \in Running
    BY DEF Phases, Running, PromiseInv, IInv, StorageInv, TypeOK
  <2>2. \A s \in Streams : s \in subscribers[g] <=>
          g \in wanted[s] /\ pc[s] \in Running /\ s \notin closed
    BY DEF PromiseInv, IInv, Registered, Open
  <2>3. subscribers[g] \subseteq Streams
    BY DEF PromiseInv, IInv, StorageInv, TypeOK
  <2>4. QED
    BY <1>1, <2>1, <2>2, <2>3
<1>3. Positions' = Positions /\ Phases' = Phases /\ Lengths' = Lengths
  BY <1>1, SamePositions DEF Phases, Lengths
<1>4. QED
  BY <1>1, <1>2, <1>3 DEF Promise!Delete, Lengths, Positions, Phases

LEMMA DeleteUnpersistedStep ==
  ASSUME PromiseInv, NEW g \in Groups, DeleteUnpersisted(g)
  PROVE  Promise!Delete(g)
<1>1. /\ deletedGroups' = deletedGroups \union {g} /\ g \notin deletedGroups
      /\ UNCHANGED <<messages, unpublished, from, out, pc, wanted, closed>>
  BY DEF DeleteUnpersisted, RemoveGroup, requestVars
<1>2. Positions' = Positions /\ Phases' = Phases /\ Lengths' = Lengths
  BY <1>1, SamePositions DEF Phases, Lengths
<1>3. QED
  BY <1>1, <1>2 DEF Promise!Delete, Lengths, Positions, Phases

LEMMA OpenStep ==
  ASSUME PromiseInv, PromiseInv', NEW s \in Streams, NEW G \in SUBSET Groups, NEW k,
         Register(s, G, k), \A t \in Streams \ {s} : from'[t] = from[t]
  PROVE  Promise!Open(s)
<1>1. /\ pc[s] = "idle" /\ G \intersect deletedGroups = {}
      /\ wanted' = [wanted EXCEPT ![s] = G]
      /\ pc' = [pc EXCEPT ![s] = "starting"]
      /\ UNCHANGED <<messages, unpublished, deletedGroups, closed, out>>
  BY DEF Register, storageVars
<1>2. wanted'[s] = G /\ wanted' = [wanted EXCEPT ![s] = wanted'[s]]
  BY <1>1 DEF PromiseInv, IInv, StorageInv, TypeOK
<1>3. Phases[s] = "idle" /\ Phases' = [Phases EXCEPT ![s] = "open"]
  BY <1>1 DEF Phases, PromiseInv, IInv, StorageInv, TypeOK
<1>4. Positions'[s] \in [Groups -> Nat]
  <2>1. StorageInv'
    BY DEF PromiseInv, IInv
  <2>2. ASSUME NEW g \in Groups
        PROVE  Passed(s, g)' \in Nat
    <3>1. out'[s][g] \in Seq(Nat) /\ from'[s][g] \in Nat
      BY <2>1 DEF StorageInv, TypeOK
    <3>2. CASE out'[s][g] = <<>>
      BY <3>1, <3>2 DEF Passed
    <3>3. CASE out'[s][g] # <<>>
      <4>1. Len(out'[s][g]) \in 1..Len(out'[s][g])
        BY <3>1, <3>3
      <4>2. out'[s][g][Len(out'[s][g])] \in Nat
        BY <3>1, <4>1
      <4>3. QED
        BY <3>3, <4>2 DEF Passed
    <3>4. QED
      BY <3>2, <3>3
  <2>3. Positions'[s] = [g \in Groups |-> Passed(s, g)']
    BY DEF Positions
  <2>4. QED
    BY <2>2, <2>3
<1>5. Positions' = [Positions EXCEPT ![s] = Positions'[s]]
  <2>1. \A t \in Streams \ {s}, g \in Groups : Passed(t, g)' = Passed(t, g)
    BY <1>1 DEF Passed
  <2>2. \A t \in Streams \ {s} : Positions'[t] = Positions[t]
    BY <2>1 DEF Positions
  <2>3. QED
    BY <2>2 DEF Positions
<1>6. Lengths' = Lengths
  BY <1>1 DEF Lengths
<1>7. wanted'[s] \subseteq Groups \ deletedGroups
  BY <1>1, <1>2
<1>8. QED
  BY <1>1, <1>2, <1>3, <1>4, <1>5, <1>6, <1>7
     DEF Promise!Open, Promise!logVars, Lengths, Positions, Phases

LEMMA DeliverStep ==
  ASSUME PromiseInv, NEW s \in Streams, NEW g \in wanted[s], pc[s] \in Running,
         NEW c \in (Passed(s, g) + 1)..Len(messages[g]),
         (Passed(s, g) + 1)..(c - 1) \subseteq unpublished[g],
         Emit(s, g, c), c \in Nat,
         UNCHANGED <<deletedGroups, messages, unpublished, from, pc, wanted, closed>>
  PROVE  Promise!Deliver(s, g)
<1>1. g \in Groups /\ StorageInv
  BY DEF PromiseInv, IInv, StorageInv, TypeOK
<1>2. /\ Passed(s, g)' = c
      /\ \A t \in Streams \ {s} : out'[t] = out[t]
      /\ \A h \in Groups \ {g} : out'[s][h] = out[s][h]
  BY <1>1, PassedEmitted
<1>3. Positions' = [Positions EXCEPT ![s][g] = c]
  <2>1. \A t \in Streams, h \in Groups :
          Passed(t, h)' = IF t = s /\ h = g THEN c ELSE Passed(t, h)
    <3>1. ASSUME NEW t \in Streams, NEW h \in Groups, t # s \/ h # g
          PROVE  Passed(t, h)' = Passed(t, h)
      <4>1. out'[t][h] = out[t][h]
        BY <1>2, <3>1
      <4>2. QED
        BY <4>1 DEF Passed
    <3>2. QED
      BY <1>2, <3>1
  <2>2. QED
    BY <1>1, <2>1 DEF Positions
<1>4. Phases[s] = "open" /\ Phases' = Phases /\ Lengths' = Lengths
  BY DEF Phases, Lengths, Running
<1>5. Positions[s][g] = Passed(s, g) /\ Lengths[g] = Len(messages[g])
  BY <1>1 DEF Positions, Lengths
<1>6. QED
  BY <1>3, <1>4, <1>5 DEF Promise!Deliver, Promise!logVars, Lengths, Positions, Phases

LEMMA EndStep ==
  ASSUME PromiseInv, NEW s \in Streams, EndHandler(s), pc[s] \in Running
  PROVE  Promise!End(s)
<1>1. /\ closed' = closed \union {s}
      /\ pc' = [pc EXCEPT ![s] = "done"]
      /\ UNCHANGED <<deletedGroups, messages, unpublished, from, out, wanted>>
  BY DEF EndHandler, Unsubscribe, Goto, storageVars, requestVars
<1>2. Positions' = Positions /\ Lengths' = Lengths
  BY <1>1, SamePositions DEF Lengths
<1>3. Phases[s] = "open" /\ Phases' = [Phases EXCEPT ![s] = "ended"]
  BY <1>1 DEF Phases, Running, PromiseInv, IInv, StorageInv, TypeOK
<1>4. QED
  BY <1>1, <1>2, <1>3 DEF Promise!End, Promise!logVars, Lengths, Positions, Phases

LEMMA AbortStep ==
  ASSUME PromiseInv, NEW s \in Streams, PeerAbort(s)
  PROVE  Promise!Abort(s)
<1>1. /\ pc[s] \in Running
      /\ closed' = closed \union {s}
      /\ UNCHANGED <<deletedGroups, messages, unpublished, from, out, wanted, pc>>
  BY DEF PeerAbort, Unsubscribe, storageVars, requestVars
<1>2. Positions' = Positions /\ Lengths' = Lengths /\ Phases' = Phases /\ Phases[s] = "open"
  BY <1>1, SamePositions DEF Lengths, Phases, Running
<1>3. QED
  BY <1>1, <1>2 DEF Promise!Abort, Promise!logVars, Lengths, Positions, Phases

\* What the promise does not see.
LEMMA Stutter ==
  ASSUME UNCHANGED <<deletedGroups, messages, unpublished, from, out, wanted, closed>>,
         Phases' = Phases
  PROVE  UNCHANGED Promise!vars
<1>1. Positions' = Positions /\ Lengths' = Lengths
  BY SamePositions DEF Lengths
<1>2. QED
  BY <1>1 DEF Promise!vars, Promise!logVars, Promise!streamVars, Lengths, Positions, Phases

LEMMA PromiseStep ==
  PromiseInv /\ PromiseInv' /\ [Next]_vars => [Promise!Next]_(Promise!vars)
<1> SUFFICES ASSUME PromiseInv, PromiseInv', [Next]_vars
             PROVE  [Promise!Next]_(Promise!vars)
  OBVIOUS
<1>1. ASSUME NEW g \in Groups, Storage(g)
      PROVE  Promise!Accept(g) \/ Promise!Delete(g)
  <2>1. CASE PostGroupMessage(g)
    <3>1. Append1(g) /\ UNCHANGED <<unpublished, from, out, pc, wanted, closed>>
      BY <2>1 DEF PostGroupMessage, requestVars
    <3>2. QED
      BY <3>1, AcceptStep
  <2>2. CASE PostUnpersisted(g)
    <3>1. /\ Append1(g)
          /\ unpublished' = [unpublished EXCEPT ![g] = @ \union {nextCursor[g]}]
          /\ UNCHANGED <<from, out, pc, wanted, closed>>
      BY <2>2 DEF PostUnpersisted, requestVars
    <3>2. QED
      BY <3>1, AcceptStep
  <2>3. CASE DeleteGroup(g)
    BY <2>3, DeleteStep
  <2>4. CASE DeleteUnpersisted(g)
    BY <2>4, DeleteUnpersistedStep
  <2>5. QED
    BY <1>1, <2>1, <2>2, <2>3, <2>4 DEF Storage
<1>2. ASSUME NEW s \in Streams, Subscribe(s)
      PROVE  Promise!Open(s)
  <2>1. ASSUME NEW g \in Groups, NEW after \in Afters, NEW since \in Sinces,
               SubscribeGroupMessages(s, g, after, since)
        PROVE  Promise!Open(s)
    <3>1. Register(s, {g}, "single") /\ \A t \in Streams \ {s} : from'[t] = from[t]
      BY <2>1 DEF SubscribeGroupMessages, PromiseInv, IInv, StorageInv, TypeOK
    <3>2. QED
      BY <3>1, OpenStep
  <2>2. ASSUME NEW G \in (SUBSET Groups) \ {{}}, NEW afters \in [G -> Afters],
               NEW since \in Sinces, SubscribeManyGroupMessages(s, G, afters, since)
        PROVE  Promise!Open(s)
    <3>1. Register(s, G, "many") /\ \A t \in Streams \ {s} : from'[t] = from[t]
      BY <2>2 DEF SubscribeManyGroupMessages, PromiseInv, IInv, StorageInv, TypeOK
    <3>2. QED
      BY <3>1, OpenStep
  <2>3. QED
    BY <1>2, <2>1, <2>2 DEF Subscribe
<1>3. ASSUME NEW s \in Streams, Handler(s)
      PROVE  \/ UNCHANGED Promise!vars
             \/ Promise!End(s)
             \/ \E g \in Groups : Promise!Deliver(s, g)
  <2>1. CASE StartStream(s)
    <3>1. /\ pc[s] = "starting"
          /\ pc' = [pc EXCEPT ![s] = IF kind[s] = "single" THEN "backlog" ELSE "live"]
          /\ UNCHANGED <<deletedGroups, messages, unpublished, from, out, wanted, closed>>
      BY <2>1 DEF StartStream, Goto, storageVars, requestVars
    <3>2. Phases' = Phases
      BY <3>1 DEF Phases, PromiseInv, IInv, StorageInv, TypeOK
    <3>3. QED
      BY <3>1, <3>2, Stutter
  <2>2. ASSUME NEW g \in Groups, WriteBacklog(s, g)
        PROVE  Promise!Deliver(s, g)
    <3> DEFINE c == Passed(s, g) + 1
    <3>1. /\ g \in wanted[s] /\ pc[s] \in Running
          /\ c <= Len(messages[g])
          /\ messages[g][backlog[s].next] = c
      BY <2>2, BacklogIsNext DEF Running
    <3>2. Passed(s, g) \in Nat /\ Len(messages[g]) \in Nat
      BY PassedType DEF PromiseInv, IInv
    <3>3. /\ Emit(s, g, c)
          /\ UNCHANGED <<deletedGroups, messages, unpublished, from, pc, wanted, closed>>
      BY <2>2, <3>1, Zenon DEF WriteBacklog, storageVars, requestVars
    <3>4. /\ c \in (Passed(s, g) + 1)..Len(messages[g]) /\ c \in Nat
          /\ (Passed(s, g) + 1)..(c - 1) \subseteq unpublished[g]
      BY <3>1, <3>2
    <3> HIDE DEF c
    <3>5. QED
      BY <3>1, <3>3, <3>4, DeliverStep
  <2>3. ASSUME NEW g \in Groups, EndBacklog(s, g)
        PROVE  UNCHANGED Promise!vars
    <3>1. /\ pc[s] = "backlog"
          /\ pc' = [pc EXCEPT ![s] = "live"]
          /\ UNCHANGED <<deletedGroups, messages, unpublished, from, out, wanted, closed>>
      BY <2>3 DEF EndBacklog, Goto, storageVars, requestVars
    <3>2. Phases' = Phases
      BY <3>1 DEF Phases, PromiseInv, IInv, StorageInv, TypeOK
    <3>3. QED
      BY <3>1, <3>2, Stutter
  <2>4. ASSUME NEW g \in Groups, SkipReplayed(s, g)
        PROVE  UNCHANGED Promise!vars
    <3>1. UNCHANGED <<deletedGroups, messages, unpublished, from, out, wanted, closed, pc>>
      BY <2>4 DEF SkipReplayed, storageVars, requestVars
    <3>2. Phases' = Phases
      BY <3>1 DEF Phases
    <3>3. QED
      BY <3>1, <3>2, Stutter
  <2>5. ASSUME NEW g \in Groups, WriteLive(s, g)
        PROVE  Promise!Deliver(s, g)
    <3> DEFINE c == Head(queue[s][g])
    <3>1. /\ pc[s] \in Running /\ g \in wanted[s]
          /\ c \in (Passed(s, g) + 1)..Len(messages[g]) /\ c \in Nat
          /\ (Passed(s, g) + 1)..(c - 1) \subseteq unpublished[g]
      BY <2>5, LiveIsNext
    <3>2. /\ Emit(s, g, c)
          /\ UNCHANGED <<deletedGroups, messages, unpublished, from, pc, wanted, closed>>
      BY <2>5 DEF WriteLive, storageVars, requestVars
    <3> HIDE DEF c
    <3>3. QED
      BY <3>1, <3>2, DeliverStep
  <2>6. CASE FinishStream(s) \/ FailStream(s)
    <3>1. EndHandler(s) /\ pc[s] \in Running
      BY <2>6 DEF FinishStream, FailStream, Waiting, Running
    <3>2. QED
      BY <3>1, EndStep
  <2>7. QED
    BY <1>3, <2>1, <2>2, <2>3, <2>4, <2>5, <2>6 DEF Handler
<1>4. ASSUME NEW s \in Streams, PeerAbort(s)
      PROVE  Promise!Abort(s)
  BY <1>4, AbortStep
<1>5. CASE UNCHANGED vars
  <2>1. UNCHANGED <<deletedGroups, messages, unpublished, from, out, wanted, closed, pc>>
    BY <1>5 DEF vars, storageVars, requestVars
  <2>2. Phases' = Phases
    BY <2>1 DEF Phases
  <2>3. QED
    BY <2>1, <2>2, Stutter
<1>6. QED
  BY <1>1, <1>2, <1>3, <1>4, <1>5 DEF Next, Promise!Next

LEMMA PromiseInit == Init => Promise!Init
<1> SUFFICES ASSUME Init
             PROVE  Promise!Init
  OBVIOUS
<1>1. Lengths = [g \in Groups |-> 0]
  BY DEF Init, Empty, Lengths
<1>2. Phases = [s \in Streams |-> "idle"]
  BY DEF Init, Phases
<1>3. Positions = [s \in Streams |-> [g \in Groups |-> 0]]
  <2>1. \A s \in Streams, g \in Groups : Passed(s, g) = 0
    BY DEF Init, Empty, Zero, Passed
  <2>2. QED
    BY <2>1 DEF Positions
<1>4. QED
  BY <1>1, <1>2, <1>3 DEF Init, Promise!Init, Lengths, Phases, Positions

\* The safety half of KeepsPromise: whatever is posted, deleted, aborted or fails to
\* persist, and whatever the coordinator's handlers are waiting for when it happens,
\* the message log and its streams behave as OrderedDelivery says.  A stream opens on
\* live groups only, hands out the records behind its position one at a time and in
\* order, and passes over a record only if the post of it was answered with an error.
THEOREM StreamsKeepThePromise == Spec => Promise!Spec
<1>1. Init => PromiseInv
  BY PromiseInvInit
<1>2. PromiseInv /\ [Next]_vars => PromiseInv'
  BY PromiseInvStep
<1>3. Spec => []PromiseInv
  BY <1>1, <1>2, PTL DEF Spec
<1>4. Init => Promise!Init
  BY PromiseInit
<1>5. PromiseInv /\ PromiseInv' /\ [Next]_vars => [Promise!Next]_(Promise!vars)
  BY PromiseStep
<1>6. QED
  BY <1>3, <1>4, <1>5, PTL DEF Spec, Promise!Spec
===============================================================================
