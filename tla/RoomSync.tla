------------------------------- MODULE RoomSync -------------------------------
(***************************************************************************)
(* ChatRoomSession: how the host and the guests of a room keep it in step  *)
(* through a coordinator that only orders opaque records.  The operations  *)
(* of one session run one after another; an action is a call of the        *)
(* coordinator and what the session does with its answer.                  *)
(*                                                                         *)
(* An MLS state is the number of the commit that made it and its members.  *)
(* A record is sealed with the exporter secret of the sender's state and   *)
(* opens under exactly that state; nobody opens records of their own; a    *)
(* commit that adds a member twice is refused (the MLS library).           *)
(*                                                                         *)
(* The host approves requests automatically; guests publish a last-resort  *)
(* key package, which is handed out any number of times.  Messages and     *)
(* reactions are alike.                                                    *)
(***************************************************************************)
EXTENDS Naturals, FiniteSets, SequencesExt, Sublists

CONSTANTS Guests,      \* those with an invite
          Host,        \* the host's session
          Crashing,    \* the sessions whose page may die
          MaxWriters,  \* bound: sessions that send
          MaxSends,    \* bound: messages of a session
          MaxFaults    \* bound: calls and saves that fail, and crashed pages

ASSUME RoomAssumption ==
  /\ IsFiniteSet(Guests)
  /\ Host \notin Guests
  /\ Crashing \subseteq Guests \union {Host}
  /\ {MaxWriters, MaxSends, MaxFaults} \subseteq Nat

VARIABLES
  log,       \* the coordinator's records of the room; the index is the cursor
  requests,  \* guests whose join request the coordinator holds
  welcomes,  \* welcomes it holds
  room,      \* [Sessions -> StoredRoom], the room in memory
  saved,     \* [Sessions -> StoredRoom], the room in localStorage
  status,    \* [Sessions -> connection]
  pc,        \* [Sessions -> the call that is next; idle; or new, before the request]
  todo,      \* [Sessions -> what the loop of the operation has left]
  accepted,  \* guests whose welcome the host has just delivered
  commits,   \* MLS commits made so far
  sends,     \* [Sessions -> Nat], messages sent
  faults,    \* faults so far
  joined,    \* history: [Sessions -> cursor], where the session came in
  pulled,    \* history: [Sessions -> cursors pulled, opened or passed over]
  lost       \* history: commits recorded whose answer, or the save that kept it, was lost

coordinatorVars == <<log, requests, welcomes>>
sessionVars == <<room, saved, status, pc, todo, accepted>>
historyVars == <<joined, pulled, lost>>
vars == <<coordinatorVars, sessionVars, commits, sends, faults, historyVars>>

Sessions == Guests \union {Host}

NoState == [id |-> 0, members |-> {}]
Created == [id |-> 1, members |-> {Host}]

\* createHostedRoom, and what createJoiningRoom returns.
NewRoom(p) ==
  [state |-> IF p = Host THEN Created ELSE NoState, cursor |-> 0, messages |-> <<>>,
   pending |-> <<>>, outbox |-> <<>>, waiting |-> p # Host]

Init ==
  /\ log = <<>>
  /\ requests = {}
  /\ welcomes = <<>>
  /\ room = [p \in Sessions |-> NewRoom(p)]
  /\ saved = room
  /\ status = [p \in Sessions |-> "connecting"]
  /\ pc = [p \in Sessions |-> IF p = Host THEN "idle" ELSE "new"]
  /\ todo = [p \in Sessions |-> <<>>]
  /\ accepted = {}
  /\ commits = 1
  /\ sends = [p \in Sessions |-> 0]
  /\ faults = 0
  /\ joined = [p \in Sessions |-> 0]
  /\ pulled = [p \in Sessions |-> {}]
  /\ lost = {}

-------------------------------------------------------------------------------
(* What the steps share. *)

Goto(p, label) == pc' = [pc EXCEPT ![p] = label]
Todo(p, list) == todo' = [todo EXCEPT ![p] = list]
Update(p, r) == room' = [room EXCEPT ![p] = r]
Persist(p, r) == saved' = [saved EXCEPT ![p] = r]

NextCursor == Len(log) + 1

Larger(a, b) == IF a < b THEN b ELSE a

\* A call over relays is lost before or after the coordinator has done it.  That of a host
\* in the tab of the coordinator throws before, or after when the coordinator cannot
\* persist what it did.  A save of the room fails when localStorage is full.
CanLose == faults < MaxFaults
Lose == CanLose /\ faults' = faults + 1

\* The catch of syncOnce and its finally, whose save may fail as well.
MarkServerOffline(p) ==
  /\ Goto(p, "idle")
  /\ status' = [status EXCEPT ![p] = "offline"]
  /\ Persist(p, room[p]) \/ UNCHANGED saved
  /\ UNCHANGED room

\* A loop without work left goes on to its next step.
Delivering(p, label, last) ==
  IF todo'[p] # <<>> THEN Goto(p, label) ELSE Goto(p, last)

-------------------------------------------------------------------------------
(* sync() and send(). *)

\* createJoiningRoom: the room is saved once the coordinator has the request.
RequestToJoin(p) ==
  /\ pc[p] = "new"
  /\ requests' = requests \union {p}
  /\ Goto(p, "idle")
  /\ UNCHANGED <<log, welcomes, room, saved, status, todo, accepted, commits, sends, faults,
                 historyVars>>

Begin(p, r) ==
  IF p = Host
  THEN /\ Todo(p, r.outbox)
       /\ accepted' = {}
       /\ Goto(p, IF r.outbox = <<>> THEN "requests" ELSE "deliver")
  ELSE /\ Goto(p, IF r.waiting THEN "welcome" ELSE IF r.pending = <<>> THEN "pull" ELSE "flush")
       /\ UNCHANGED <<todo, accepted>>

Sync(p) ==
  /\ pc[p] = "idle"
  /\ Begin(p, room[p])
  /\ UNCHANGED <<coordinatorVars, room, saved, status, commits, sends, faults, historyVars>>

\* The message is sealed under the present state before anything is fetched.
Send(p) ==
  /\ pc[p] = "idle"
  /\ status[p] = "connected"
  /\ ~room[p].waiting
  /\ sends[p] < MaxSends
  /\ Cardinality({q \in Sessions : sends[q] > 0} \union {p}) <= MaxWriters
  /\ sends' = [sends EXCEPT ![p] = @ + 1]
  /\ LET id == <<p, sends[p] + 1>>
         r == [room[p] EXCEPT !.messages = Append(@, id),
                              !.pending = Append(@, [id |-> id, key |-> room[p].state.id])]
     IN Update(p, r) /\ Persist(p, r) /\ Begin(p, r)
  /\ UNCHANGED <<coordinatorVars, status, commits, faults, historyVars>>

-------------------------------------------------------------------------------
(* The host: welcomes and join requests. *)

Entry == Head(todo[Host])
After(label) == IF label = "deliver" THEN "requests" ELSE "flush"
Ack(label) == IF label = "deliver" THEN "ack" ELSE "ackAdmitted"

\* Mutant: a welcome leaves the outbox whether or not it was delivered.
StoreWelcomeOnce(label) ==
  /\ pc[Host] = label
  /\ LET r == [room[Host] EXCEPT !.outbox = Without(@, Entry)] IN
       /\ Update(Host, r) /\ Persist(Host, r)
       /\ \/ /\ welcomes' = Append(welcomes, Entry)
             /\ UNCHANGED faults
          \/ /\ Lose
             /\ UNCHANGED welcomes
       /\ accepted' = accepted \union {Entry.guest}
  /\ Todo(Host, Tail(todo[Host]))
  /\ Delivering(Host, label, IF accepted' = {} THEN After(label) ELSE Ack(label))
  /\ UNCHANGED <<log, requests, status, commits, sends, historyVars>>

\* flushPendingWelcomes, one welcome of the outbox as it was.
StoreWelcome(label) ==
  /\ pc[Host] = label
  /\ LET r == [room[Host] EXCEPT !.outbox = Without(@, Entry)] IN
       \/ /\ welcomes' = Append(welcomes, Entry)
          /\ Update(Host, r)
          /\ accepted' = accepted \union {Entry.guest}
          /\ \/ Persist(Host, r) /\ UNCHANGED faults
             \/ Lose /\ UNCHANGED saved
       \/ /\ Lose
          /\ welcomes' \in {welcomes, Append(welcomes, Entry)}
          /\ UNCHANGED <<room, saved, accepted>>
  /\ Todo(Host, Tail(todo[Host]))
  /\ Delivering(Host, label, IF accepted' = {} THEN After(label) ELSE Ack(label))
  /\ UNCHANGED <<log, requests, status, commits, sends, historyVars>>

\* The request is acknowledged; that it is not changes nothing.
AckRequests(label) ==
  /\ pc[Host] = Ack(label)
  /\ \/ requests' = requests \ accepted /\ UNCHANGED faults
     \/ requests' \in {requests, requests \ accepted} /\ Lose
  /\ accepted' = {}
  /\ Goto(Host, After(label))
  /\ UNCHANGED <<log, welcomes, room, saved, status, todo, commits, sends, historyVars>>

InOutbox(g) == \E i \in DOMAIN room[Host].outbox : room[Host].outbox[i].guest = g

FetchJoinRequests ==
  /\ pc[Host] = "requests"
  /\ \/ /\ \E list \in SetToSeqs({g \in requests : ~InOutbox(g)}) : Todo(Host, list)
        /\ Delivering(Host, "admit", "outbox")
        /\ UNCHANGED <<room, saved, status, faults>>
     \/ /\ Lose
        /\ MarkServerOffline(Host)
        /\ UNCHANGED todo
  /\ UNCHANGED <<coordinatorVars, accepted, commits, sends, historyVars>>

\* Mutant: the epoch is advanced only once the commit comes back in a pull.
AdoptNothing(r, state) == r

Adopt(r, state) == [r EXCEPT !.state = state]

\* One request: take the key package, make the commit, post it, queue the welcome and save
\* both.  What fails is left for the next sync, the commit whose answer is lost included;
\* a save that fails is passed over.
Admit ==
  /\ pc[Host] = "admit"
  /\ LET g == Entry
         state == [id |-> commits + 1, members |-> room[Host].state.members \union {g}]
         commit == [by |-> Host, key |-> room[Host].state.id, commit |-> state]
         cursor == NextCursor
         r == [Adopt(room[Host], state) EXCEPT
                 !.cursor = Larger(@, cursor),
                 !.outbox = Append(@, [guest |-> g, state |-> state, after |-> cursor])]
     IN \/ /\ g \in room[Host].state.members
           /\ UNCHANGED <<log, room, saved, commits, faults, lost>>
        \/ /\ g \notin room[Host].state.members
           /\ commits' = commits + 1
           /\ \/ /\ log' = Append(log, commit)
                 /\ Update(Host, r) /\ Persist(Host, r)
                 /\ UNCHANGED <<faults, lost>>
              \/ /\ log' = Append(log, commit)
                 /\ Update(Host, r) \/ UNCHANGED room
                 /\ Lose
                 /\ lost' = lost \union {state.id}
                 /\ UNCHANGED saved
              \/ /\ Lose
                 /\ UNCHANGED <<log, room, saved, lost>>
  /\ Todo(Host, Tail(todo[Host]))
  /\ Delivering(Host, "admit", "outbox")
  /\ UNCHANGED <<requests, welcomes, status, accepted, sends, joined, pulled>>

\* acceptJoinRequests ends with the outbox, whatever it holds by now.
AcceptedRequests ==
  /\ pc[Host] = "outbox"
  /\ Todo(Host, room[Host].outbox)
  /\ Goto(Host, IF room[Host].outbox = <<>> THEN "flush" ELSE "deliverAdmitted")
  /\ UNCHANGED <<coordinatorVars, room, saved, status, accepted, commits, sends, faults,
                 historyVars>>

-------------------------------------------------------------------------------
(* The guest: the welcome. *)

Join(p, w) ==
  /\ Update(p, [room[p] EXCEPT !.state = w.state, !.cursor = w.after, !.waiting = FALSE])
  /\ joined' = [joined EXCEPT ![p] = w.after]

Welcomed(p, list) ==
  /\ Join(p, Head(list))
  /\ Todo(p, list)
  /\ Goto(p, "ackWelcome")

FetchWelcomes(p) ==
  /\ pc[p] = "welcome"
  /\ LET mine == Only(welcomes, {w \in ToSet(welcomes) : w.guest = p}) IN
       \/ /\ mine # <<>>
          /\ Welcomed(p, mine)
          /\ UNCHANGED <<saved, status, faults>>
       \/ /\ mine = <<>>
          /\ Goto(p, "idle")
          /\ status' = [status EXCEPT ![p] = "connected"]
          /\ Persist(p, room[p])
          /\ UNCHANGED <<room, todo, joined, faults>>
       \/ /\ Lose
          /\ MarkServerOffline(p)
          /\ UNCHANGED <<todo, joined>>
  /\ UNCHANGED <<coordinatorVars, accepted, commits, sends, pulled, lost>>

\* A welcome whose acknowledgement fails is passed over for the next one.
AckWelcome(p) ==
  /\ pc[p] = "ackWelcome"
  /\ LET taken == Without(welcomes, Head(todo[p])) IN
       \/ /\ welcomes' = taken
          /\ Goto(p, "flush")
          /\ Todo(p, <<>>)
          /\ UNCHANGED <<room, joined, faults>>
       \/ /\ Lose
          /\ welcomes' \in {welcomes, taken}
          /\ IF Len(todo[p]) > 1 THEN Welcomed(p, Tail(todo[p]))
             ELSE Goto(p, "flush") /\ Todo(p, <<>>) /\ UNCHANGED <<room, joined>>
  /\ UNCHANGED <<log, requests, saved, status, accepted, commits, sends, pulled, lost>>

-------------------------------------------------------------------------------
(* Messages. *)

\* Mutant: the message leaves the queue before the coordinator has answered.
FlushPendingEarly(p) ==
  /\ pc[p] = "flush"
  /\ room[p].pending # <<>>
  /\ LET m == Head(room[p].pending)
         r == [room[p] EXCEPT !.cursor = Larger(@, NextCursor), !.pending = Tail(@)]
     IN \/ /\ log' = Append(log, [by |-> p, key |-> m.key, id |-> m.id])
           /\ Update(p, r)
           /\ UNCHANGED <<saved, status, pc, faults>>
        \/ /\ Lose
           /\ Goto(p, "idle")
           /\ status' = [status EXCEPT ![p] = "offline"]
           /\ Persist(p, [room[p] EXCEPT !.pending = Tail(@)])
           /\ Update(p, [room[p] EXCEPT !.pending = Tail(@)])
           /\ UNCHANGED log
  /\ UNCHANGED <<requests, welcomes, todo, accepted, commits, sends, historyVars>>

\* flushPending: the message is posted as it was sealed, and posted again when
\* the answer was lost.
FlushPending(p) ==
  /\ pc[p] = "flush"
  /\ room[p].pending # <<>>
  /\ LET m == Head(room[p].pending)
         record == [by |-> p, key |-> m.key, id |-> m.id]
         r == [room[p] EXCEPT !.cursor = Larger(@, NextCursor), !.pending = Tail(@)]
     IN \/ /\ log' = Append(log, record)
           /\ Update(p, r)
           /\ UNCHANGED <<saved, status, pc, faults>>
        \/ /\ Lose
           /\ log' \in {log, Append(log, record)}
           /\ MarkServerOffline(p)
  /\ UNCHANGED <<requests, welcomes, todo, accepted, commits, sends, historyVars>>

Flushed(p) ==
  /\ pc[p] = "flush"
  /\ room[p].pending = <<>>
  /\ Goto(p, "pull")
  /\ UNCHANGED <<coordinatorVars, room, saved, status, todo, accepted, commits, sends, faults,
                 historyVars>>

Opens(p, state, record) == record.by # p /\ record.key = state.id
IsCommit(record) == "commit" \in DOMAIN record

Shown(messages, id) == IF Contains(messages, id) THEN messages ELSE Append(messages, id)

\* decryptMessage on the state the records before have left.
Pulled(p, r, record) ==
  IF ~Opens(p, r.state, record) THEN r
  ELSE IF IsCommit(record) THEN [r EXCEPT !.state = record.commit]
  ELSE [r EXCEPT !.messages = Shown(@, record.id)]

Fetched(r) == (r.cursor + 1)..Len(log)

\* The room behind each of the records fetched.
Processed(p) ==
  LET r == room[p]
      f[c \in r.cursor..Len(log)] ==
        IF c = r.cursor \/ c \notin Fetched(r)
        THEN [r EXCEPT !.cursor = c]
        ELSE [Pulled(p, f[c - 1], log[c]) EXCEPT !.cursor = c]
  IN f

\* pullMessages and the end of the sync.  What does not open is passed over.
PullMessages(p) ==
  /\ pc[p] = "pull"
  /\ \/ /\ LET r == Processed(p)[Len(log)] IN
             /\ Update(p, r)
             /\ \/ Persist(p, r) /\ UNCHANGED faults
                \/ Lose /\ UNCHANGED saved
        /\ pulled' = [pulled EXCEPT ![p] = @ \union Fetched(room[p])]
        /\ status' = [status EXCEPT ![p] = "connected"]
        /\ Goto(p, "idle")
     \/ /\ Lose
        /\ MarkServerOffline(p)
        /\ UNCHANGED pulled
  /\ UNCHANGED <<coordinatorVars, todo, accepted, commits, sends, joined, lost>>

-------------------------------------------------------------------------------
\* The page dies and comes back with what localStorage holds.
Crash(p) ==
  /\ p \in Crashing
  /\ pc[p] \notin {"new", "idle"}
  /\ Lose
  /\ room' = [room EXCEPT ![p] = saved[p]]
  /\ status' = [status EXCEPT ![p] = "connecting"]
  /\ Goto(p, "idle")
  /\ Todo(p, <<>>)
  /\ accepted' = IF p = Host THEN {} ELSE accepted
  /\ UNCHANGED <<coordinatorVars, saved, commits, sends, historyVars>>

Step(p) ==
  \/ Sync(p)
  \/ FetchWelcomes(p)
  \/ AckWelcome(p)
  \/ FlushPending(p)
  \/ Flushed(p)
  \/ PullMessages(p)

HostStep ==
  \/ \E label \in {"deliver", "deliverAdmitted"} : StoreWelcome(label) \/ AckRequests(label)
  \/ FetchJoinRequests
  \/ Admit
  \/ AcceptedRequests

Next ==
  \/ \E p \in Sessions : Step(p) \/ Send(p) \/ Crash(p) \/ RequestToJoin(p)
  \/ HostStep

Spec == Init /\ [][Next]_vars

\* Every session polls, and its calls return or fail.
FairSpec ==
  /\ Spec
  /\ \A p \in Sessions : WF_vars(Step(p))
  /\ WF_vars(HostStep)

-------------------------------------------------------------------------------
Ids == Sessions \X (1..MaxSends)
States == [id : 0..commits, members : SUBSET Sessions]
Welcomes == [guest : Guests, state : States, after : 1..Len(log)]
StoredRoom ==
  [state : States, cursor : 0..Len(log), messages : Seq(Ids),
   pending : Seq([id : Ids, key : 1..commits]), outbox : Seq(Welcomes), waiting : BOOLEAN]

\* Every variable has the shape the code gives it.
TypeOK ==
  /\ \A c \in DOMAIN log :
       \/ log[c] \in [by : Sessions, key : 1..commits, id : Ids]
       \/ log[c] \in [by : {Host}, key : 1..commits, commit : States]
  /\ requests \subseteq Guests
  /\ welcomes \in Seq(Welcomes)
  /\ \A p \in Sessions : {room[p], saved[p]} \subseteq StoredRoom
  /\ status \in [Sessions -> {"connecting", "connected", "offline"}]
  /\ accepted \subseteq Guests
  /\ sends \in [Sessions -> 0..MaxSends]
  /\ faults \in 0..MaxFaults

IsId(p, id) == \E m \in ToSet(saved[p].pending) : m.id = id
InLog(id) == \E c \in DOMAIN log : ~IsCommit(log[c]) /\ log[c].id = id

\* A message once sent is in the stored queue or in the coordinator's log.
SentIsKept ==
  \A p \in Sessions : \A n \in 1..sends[p] : IsId(p, <<p, n>>) \/ InLog(<<p, n>>)

\* However often a message is posted, everyone shows it once.
ShownOnce == \A p \in Sessions : IsInjective(room[p].messages)

\* Whatever calls and answers are lost and wherever the page dies, posting again
\* neither loses a message nor doubles it.
ExactlyOnce == SentIsKept /\ ShownOnce

By(p, c) == log[c].by = p

\* A set of commits that has, with a commit of the log, the one it was made on.
HasParents(S) == \A c \in DOMAIN log : IsCommit(log[c]) /\ log[c].commit.id \in S => log[c].key \in S

\* The states the host's state comes from, by the commits in the log.
HostChain ==
  {id \in 1..commits : \A S \in SUBSET ((1..commits) \ {id}) :
     room[Host].state.id \in S => ~HasParents(S)}

\* Every member is at a state the host has been at, or at one made by a commit that the
\* coordinator recorded while the host lost the answer, or the save that was to keep it:
\* whatever else fails, in whatever order, no two members follow different commits.
EveryoneFollowsHost ==
  {room[p].state.id : p \in {q \in Sessions : ~room[q].waiting}} \subseteq lost \union HostChain

\* "a transient welcome_store failure cannot strand an admitted guest": a guest
\* that asked comes in, and a message that is queued is posted.
NobodyIsStranded ==
  /\ \A g \in Guests : pc[g] # "new" ~> joined[g] # 0
  /\ \A p \in Sessions : room[p].pending # <<>> ~> room[p].pending = <<>>

\* "pullMessages consumes coordinator cursors in order": a session pulls every
\* record of the others up to its cursor.
PulledInOrder ==
  \A p \in Sessions : \A c \in (joined[p] + 1)..room[p].cursor : By(p, c) \/ c \in pulled[p]
===============================================================================
