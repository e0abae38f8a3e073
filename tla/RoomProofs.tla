------------------------------ MODULE RoomProofs ------------------------------
(***************************************************************************)
(* What is promised of the rooms of a browser.  RoomSync: posting again    *)
(* neither loses a message nor doubles it, and members follow the host but *)
(* for commits whose answer or whose save was lost.  Workspace: a room is polled by one       *)
(* session at a time, and one that was removed stays in the history.       *)
(* Reachability: what a session finds of a coordinator is not undone by a  *)
(* probe that began before.                                                *)
(***************************************************************************)
EXTENDS RoomSync, MCWorkspace, SublistProofs, FiniteSetTheorems

\* A sequence over a set is one over every larger set.
LEMMA SeqGrows ==
  ASSUME NEW S, NEW T, S \subseteq T
  PROVE  Seq(S) \subseteq Seq(T)
OBVIOUS

\* The tail of a sequence that is not empty has its later elements.
LEMMA TailHas ==
  ASSUME NEW S, NEW s \in Seq(S), s # <<>>
  PROVE  /\ Head(s) \in S /\ Head(s) = s[1] /\ Len(s) \in Nat \ {0}
         /\ Tail(s) \in Seq(S) /\ Len(Tail(s)) = Len(s) - 1
         /\ \A i \in 1..(Len(s) - 1) : Tail(s)[i] = s[i + 1]
OBVIOUS

LEMMA TailLeft ==
  ASSUME NEW S, NEW s \in Seq(S), Len(s) > 1
  PROVE  Tail(s) \in Seq(S) /\ Tail(s) # <<>>
<1>1. s # <<>> /\ Len(Tail(s)) = Len(s) - 1 /\ Tail(s) \in Seq(S) /\ Len(s) \in Nat
  BY TailHas
<1>2. Len(Tail(s)) # 0 /\ Len(<<>>) = 0
  BY <1>1
<1>3. QED
  BY <1>1, <1>2

LEMMA AppendHas ==
  ASSUME NEW S, NEW s \in Seq(S), NEW e \in S
  PROVE  /\ Append(s, e) \in Seq(S) /\ Len(Append(s, e)) = Len(s) + 1 /\ Len(s) \in Nat
         /\ Append(s, e)[Len(s) + 1] = e
         /\ \A i \in 1..Len(s) : Append(s, e)[i] = s[i]
OBVIOUS

\* An injective sequence stays so when it gets what it does not have.
LEMMA AppendIsInjective ==
  ASSUME NEW S, NEW s \in Seq(S), NEW e \in S, IsInjective(s), \A i \in 1..Len(s) : s[i] # e
  PROVE  Append(s, e) \in Seq(S) /\ IsInjective(Append(s, e))
<1>1. /\ Append(s, e) \in Seq(S) /\ DOMAIN Append(s, e) = 1..(Len(s) + 1) /\ Len(s) \in Nat
      /\ Append(s, e)[Len(s) + 1] = e /\ DOMAIN s = 1..Len(s)
      /\ \A i \in 1..Len(s) : Append(s, e)[i] = s[i]
  OBVIOUS
<1>2. ASSUME NEW i \in 1..(Len(s) + 1), NEW j \in 1..(Len(s) + 1), Append(s, e)[i] = Append(s, e)[j]
      PROVE  i = j
  <2>1. (i \in 1..Len(s) \/ i = Len(s) + 1) /\ (j \in 1..Len(s) \/ j = Len(s) + 1)
    BY <1>1
  <2>2. QED
    BY <1>1, <1>2, <2>1 DEF IsInjective
<1>3. QED
  BY <1>1, <1>2 DEF IsInjective

LEMMA ShownIsInjective ==
  ASSUME NEW S, NEW s \in Seq(S), NEW e \in S, IsInjective(s)
  PROVE  Shown(s, e) \in Seq(S) /\ IsInjective(Shown(s, e))
BY AppendIsInjective DEF Shown, Contains

-------------------------------------------------------------------------------
(* The inductive invariant. *)

\* The messages sent so far, the states made so far and what holds them.
Sent == {id \in Ids : id[2] <= sends[id[1]]}
MlsStates == [id : 1..commits, members : SUBSET Sessions]
Messages == [by : Sessions, key : 1..commits, id : Sent]
Commits == [by : {Host}, key : 1..commits, commit : MlsStates]
Sealed == [id : Sent, key : 1..commits]

\* The log has the commit that made a state.
Recorded(id) == \E c \in 1..Len(log) : IsCommit(log[c]) /\ log[c].commit.id = id

Offers == [guest : Guests, state : {s \in MlsStates : Recorded(s.id)}, after : 1..Len(log)]

\* Every commit of the log is behind the state, or is one that was lost.
Covers(id) ==
  \A S \in SUBSET (1..commits) :
    id \in S /\ HasParents(S) =>
      \A c \in 1..Len(log) : IsCommit(log[c]) => log[c].commit.id \in S \union lost

Queued(r, id) == \E i \in 1..Len(r.pending) : r.pending[i].id = id

\* A room of p, in memory or stored: what p has sent is in its queue or in the log,
\* and it shows nothing twice.  A guest that came in is at a state whose commit the log
\* has, and the commits of the log that are not lost are behind the state of the host.
Fits(p, r) ==
  /\ r \in [state : States, cursor : 0..Len(log), messages : Seq(Sent),
            pending : Seq(Sealed), outbox : Seq(Offers), waiting : BOOLEAN]
  /\ ~r.waiting \/ p = Host => r.state.id # 0
  /\ p # Host /\ ~r.waiting => Recorded(r.state.id)
  /\ p = Host => Covers(r.state.id)
  /\ IsInjective(r.messages)
  /\ \A n \in 1..sends[p] : Queued(r, <<p, n>>) \/ InLog(<<p, n>>)

Shared ==
  /\ log \in Seq(Messages \union Commits)
  /\ requests \subseteq Guests
  /\ welcomes \in Seq(Offers)
  /\ status \in [Sessions -> {"connecting", "connected", "offline"}]
  /\ accepted \subseteq Guests
  /\ commits \in Nat \ {0}
  /\ sends \in [Sessions -> 0..MaxSends]
  /\ faults \in 0..MaxFaults

AllFit ==
  /\ DOMAIN room = Sessions /\ DOMAIN saved = Sessions
  /\ \A p \in Sessions : Fits(p, room[p]) /\ Fits(p, saved[p])

HostLabels ==
  {"idle", "deliver", "ack", "requests", "admit", "outbox", "deliverAdmitted", "ackAdmitted",
   "flush", "pull"}
GuestLabels == {"new", "idle", "welcome", "ackWelcome", "flush", "pull"}

\* Where a loop over welcomes or requests has some left.
Delivers == {"deliver", "deliverAdmitted", "ackWelcome"}

Places ==
  /\ DOMAIN pc = Sessions /\ DOMAIN todo = Sessions
  /\ pc[Host] \in HostLabels
  /\ \A g \in Guests : pc[g] \in GuestLabels
  /\ \A p \in Sessions :
       /\ pc[p] \in Delivers => todo[p] \in Seq(Offers) /\ todo[p] # <<>>
       /\ pc[p] = "admit" => todo[p] \in Seq(Guests) /\ todo[p] # <<>>

IInv == Shared /\ AllFit /\ Places

LEMMA RecordKinds ==
  ASSUME NEW r \in Messages \union Commits
  PROVE  /\ r.by \in Sessions /\ r.key \in 1..commits
         /\ IsCommit(r) => r \in Commits /\ r.by = Host /\ r.commit \in MlsStates
         /\ ~IsCommit(r) => r \in Messages /\ r.id \in Sent
BY DEF IsCommit, Messages, Commits, Sessions

\* What depends on the log, the commits and the messages sent stays when they do.
Same == UNCHANGED <<log, commits, sends, lost>>

LEMMA SameFits ==
  ASSUME Same
  PROVE  /\ Offers' = Offers /\ Messages' = Messages /\ Commits' = Commits
         /\ \A p, r : Fits(p, r)' = Fits(p, r)
<1>1. Sent' = Sent /\ MlsStates' = MlsStates /\ States' = States
  BY DEF Same, Sent, MlsStates, States
<1>2. \A id : InLog(id)' = InLog(id) /\ Recorded(id)' = Recorded(id)
  BY DEF Same, InLog, Recorded
<1>3. Offers' = Offers /\ Messages' = Messages /\ Commits' = Commits /\ Sealed' = Sealed
  BY <1>1, <1>2 DEF Same, Offers, Messages, Commits, Sealed
<1>4. \A id : Covers(id)' = Covers(id)
  BY DEF Same, Covers, HasParents
<1>5. \A p, r : Fits(p, r)' = Fits(p, r)
  BY <1>1, <1>2, <1>3, <1>4 DEF Same, Fits, Queued
<1>6. QED
  BY <1>3, <1>5

LEMMA SharedUnchanged ==
  ASSUME Shared, Same, requests' \subseteq Guests, welcomes' \in Seq(Offers),
         status' \in [Sessions -> {"connecting", "connected", "offline"}],
         accepted' \subseteq Guests, faults' \in 0..MaxFaults
  PROVE  Shared'
BY SameFits DEF Shared, Same

\* One session's room changes, or none.
LEMMA OneRoom ==
  ASSUME AllFit, NEW p \in Sessions,
         DOMAIN room' = Sessions, DOMAIN saved' = Sessions,
         \A q \in Sessions \ {p} : room'[q] = room[q] /\ saved'[q] = saved[q],
         Fits(p, room[p])', Fits(p, saved[p])',
         \A q \in Sessions \ {p} : \A x : Fits(q, x) => Fits(q, x)'
  PROVE  AllFit'
<1>1. ASSUME NEW q \in Sessions, q # p
      PROVE  Fits(q, room[q])' /\ Fits(q, saved[q])'
  BY <1>1 DEF AllFit
<1>2. QED
  BY <1>1 DEF AllFit

\* One session goes on, or none.
LEMMA OnePlace ==
  ASSUME Places, NEW p \in Sessions,
         DOMAIN pc' = Sessions, DOMAIN todo' = Sessions,
         \A q \in Sessions \ {p} : pc'[q] = pc[q] /\ todo'[q] = todo[q],
         IF p = Host THEN pc'[p] \in HostLabels ELSE pc'[p] \in GuestLabels,
         pc'[p] \in Delivers => todo'[p] \in Seq(Offers') /\ todo'[p] # <<>>,
         pc'[p] = "admit" => todo'[p] \in Seq(Guests) /\ todo'[p] # <<>>,
         Offers \subseteq Offers'
  PROVE  Places'
<1>1. Host \notin Guests /\ Sessions = Guests \union {Host} /\ Seq(Offers) \subseteq Seq(Offers')
  BY SeqGrows, RoomAssumption DEF Sessions
<1>2. pc'[Host] \in HostLabels
  BY <1>1 DEF Places
<1>3. \A g \in Guests : pc'[g] \in GuestLabels
  BY <1>1 DEF Places
<1>4. ASSUME NEW q \in Sessions
      PROVE  /\ pc'[q] \in Delivers => todo'[q] \in Seq(Offers') /\ todo'[q] # <<>>
             /\ pc'[q] = "admit" => todo'[q] \in Seq(Guests) /\ todo'[q] # <<>>
  BY <1>1 DEF Places
<1>5. QED
  BY <1>2, <1>3, <1>4 DEF Places

\* A step that leaves the log, the commits and what was sent alone.
LEMMA SameStep ==
  ASSUME IInv, Same, NEW p \in Sessions,
         requests' \subseteq Guests, welcomes' \in Seq(Offers),
         status' \in [Sessions -> {"connecting", "connected", "offline"}],
         accepted' \subseteq Guests, faults' \in 0..MaxFaults,
         DOMAIN room' = Sessions, DOMAIN saved' = Sessions,
         \A q \in Sessions \ {p} : room'[q] = room[q] /\ saved'[q] = saved[q],
         Fits(p, room'[p]), Fits(p, saved'[p]),
         DOMAIN pc' = Sessions, DOMAIN todo' = Sessions,
         \A q \in Sessions \ {p} : pc'[q] = pc[q] /\ todo'[q] = todo[q],
         IF p = Host THEN pc'[p] \in HostLabels ELSE pc'[p] \in GuestLabels,
         pc'[p] \in Delivers => todo'[p] \in Seq(Offers) /\ todo'[p] # <<>>,
         pc'[p] = "admit" => todo'[p] \in Seq(Guests) /\ todo'[p] # <<>>
  PROVE  IInv'
<1>1. Shared'
  BY SharedUnchanged DEF IInv
<1>2. Fits(p, room[p])' /\ Fits(p, saved[p])'
  BY SameFits
<1>3. AllFit'
  BY <1>2, SameFits, OneRoom DEF IInv
<1>4. Places'
  BY SameFits, OnePlace DEF IInv
<1>5. QED
  BY <1>1, <1>3, <1>4, SameFits DEF IInv

LEMMA WithoutIn ==
  ASSUME NEW T, NEW s \in Seq(T), NEW e
  PROVE  Without(s, e) \in Seq(T)
BY OnlyKeeps DEF Without

LEMMA FaultsStay ==
  ASSUME Shared, UNCHANGED faults \/ Lose
  PROVE  faults' \in 0..MaxFaults
BY RoomAssumption DEF Shared, Lose, CanLose

\* What the invariant says of one session.
LEMMA Here ==
  ASSUME IInv, NEW p \in Sessions
  PROVE  /\ Fits(p, room[p]) /\ Fits(p, saved[p])
         /\ IF p = Host THEN pc[p] \in HostLabels ELSE pc[p] \in GuestLabels
         /\ pc[p] \in Delivers => todo[p] \in Seq(Offers) /\ todo[p] # <<>>
         /\ pc[p] = "admit" => todo[p] \in Seq(Guests) /\ todo[p] # <<>>
         /\ Host \in Sessions /\ Host \notin Guests /\ (p # Host => p \in Guests)
BY RoomAssumption DEF IInv, AllFit, Places, Sessions

LEMMA RequestInv ==
  ASSUME IInv, NEW p \in Sessions, RequestToJoin(p)
  PROVE  IInv'
<1>1. p \in Guests /\ Same
  BY Here DEF RequestToJoin, HostLabels, Same, historyVars
<1>2. requests' \subseteq Guests /\ welcomes' \in Seq(Offers) /\ accepted' \subseteq Guests
      /\ status' \in [Sessions -> {"connecting", "connected", "offline"}]
      /\ faults' \in 0..MaxFaults
  BY <1>1 DEF RequestToJoin, IInv, Shared
<1>3. DOMAIN room' = Sessions /\ DOMAIN saved' = Sessions /\ DOMAIN pc' = Sessions
      /\ DOMAIN todo' = Sessions /\ pc'[p] = "idle"
      /\ \A q \in Sessions \ {p} : /\ room'[q] = room[q] /\ saved'[q] = saved[q]
                                   /\ pc'[q] = pc[q] /\ todo'[q] = todo[q]
  BY DEF RequestToJoin, Goto, IInv, AllFit, Places
<1>4. Fits(p, room'[p]) /\ Fits(p, saved'[p])
  BY Here DEF RequestToJoin
<1>5. QED
  BY <1>1, <1>2, <1>3, <1>4, SameStep, Here DEF HostLabels, GuestLabels, Delivers

LEMMA SyncInv ==
  ASSUME IInv, NEW p \in Sessions, Sync(p)
  PROVE  IInv'
<1>1. requests' \subseteq Guests /\ welcomes' \in Seq(Offers) /\ Same
      /\ status' \in [Sessions -> {"connecting", "connected", "offline"}]
      /\ faults' \in 0..MaxFaults /\ accepted' \subseteq Guests
  BY DEF Sync, coordinatorVars, IInv, Shared, Same, Begin, historyVars
<1>2. DOMAIN room' = Sessions /\ DOMAIN saved' = Sessions /\ DOMAIN pc' = Sessions
      /\ DOMAIN todo' = Sessions
      /\ \A q \in Sessions \ {p} : /\ room'[q] = room[q] /\ saved'[q] = saved[q]
                                   /\ pc'[q] = pc[q] /\ todo'[q] = todo[q]
  BY DEF Sync, Begin, Goto, Todo, IInv, AllFit, Places
<1>3. Fits(p, room'[p]) /\ Fits(p, saved'[p])
  BY Here DEF Sync
<1>4. room[p].outbox \in Seq(Offers)
  BY Here DEF Fits
<1>5. CASE p = Host
  <2>1. todo'[p] = room[p].outbox
        /\ pc'[p] = IF room[p].outbox = <<>> THEN "requests" ELSE "deliver"
    BY <1>5 DEF Sync, Begin, Goto, Todo, IInv, Places
  <2>2. QED
    BY <1>1, <1>2, <1>3, <1>4, <1>5, <2>1, SameStep DEF HostLabels, Delivers
<1>6. CASE p # Host
  <2>1. pc'[p] \in {"welcome", "pull", "flush"}
    BY <1>6 DEF Sync, Begin, Goto, IInv, Places
  <2>2. QED
    BY <1>1, <1>2, <1>3, <1>6, <2>1, SameStep DEF GuestLabels, Delivers
<1>7. QED
  BY <1>5, <1>6

LEMMA FlushedInv ==
  ASSUME IInv, NEW p \in Sessions, Flushed(p)
  PROVE  IInv'
<1>1. requests' \subseteq Guests /\ welcomes' \in Seq(Offers) /\ Same
      /\ status' \in [Sessions -> {"connecting", "connected", "offline"}]
      /\ faults' \in 0..MaxFaults /\ accepted' \subseteq Guests
  BY DEF Flushed, coordinatorVars, IInv, Shared, Same, historyVars
<1>2. DOMAIN room' = Sessions /\ DOMAIN saved' = Sessions /\ DOMAIN pc' = Sessions
      /\ DOMAIN todo' = Sessions /\ pc'[p] = "pull"
      /\ \A q \in Sessions \ {p} : /\ room'[q] = room[q] /\ saved'[q] = saved[q]
                                   /\ pc'[q] = pc[q] /\ todo'[q] = todo[q]
  BY DEF Flushed, Goto, IInv, AllFit, Places
<1>3. Fits(p, room'[p]) /\ Fits(p, saved'[p])
  BY Here DEF Flushed
<1>4. QED
  BY <1>1, <1>2, <1>3, SameStep DEF HostLabels, GuestLabels, Delivers

\* A welcome delivered, or not: only the outbox of the host is shorter.
LEMMA StoreWelcomeInv ==
  ASSUME IInv, NEW label \in {"deliver", "deliverAdmitted"}, StoreWelcome(label)
  PROVE  IInv'
<1> DEFINE r == [room[Host] EXCEPT !.outbox = Without(@, Entry)]
<1>0. Host \in Sessions /\ Fits(Host, room[Host]) /\ Fits(Host, saved[Host])
  BY Here DEF Sessions
<1>1. pc[Host] = label /\ todo[Host] \in Seq(Offers) /\ todo[Host] # <<>>
  BY <1>0, Here DEF StoreWelcome, Delivers
<1>2. Entry \in Offers /\ Tail(todo[Host]) \in Seq(Offers) /\ Entry.guest \in Guests
  <2>1. Entry \in Offers /\ Tail(todo[Host]) \in Seq(Offers)
    BY <1>1, TailHas, Zenon DEF Entry
  <2>2. \A e \in Offers : e.guest \in Guests
    BY DEF Offers
  <2>3. QED
    BY <2>1, <2>2, Zenon
<1>3. Same /\ requests' \subseteq Guests
      /\ status' \in [Sessions -> {"connecting", "connected", "offline"}]
  BY DEF StoreWelcome, IInv, Shared, Same, historyVars
<1>4. welcomes' \in Seq(Offers) /\ accepted' \subseteq Guests /\ faults' \in 0..MaxFaults
  <2>1. Append(welcomes, Entry) \in Seq(Offers) /\ welcomes \in Seq(Offers)
        /\ accepted \subseteq Guests
    BY <1>2, AppendHas DEF IInv, Shared
  <2>2. UNCHANGED faults \/ Lose
    BY DEF StoreWelcome
  <2>3. QED
    BY <1>0, <1>2, <2>1, <2>2, FaultsStay DEF StoreWelcome, IInv
<1>5. Fits(Host, r)
  <2>1. Without(room[Host].outbox, Entry) \in Seq(Offers)
    BY <1>0, WithoutIn DEF Fits
  <2>2. QED
    BY <1>0, <2>1 DEF Fits, Queued
<1>6. DOMAIN room = Sessions /\ DOMAIN saved = Sessions /\ DOMAIN pc = Sessions
      /\ DOMAIN todo = Sessions
  BY DEF IInv, AllFit, Places
<1> HIDE DEF r
<1>7. UNCHANGED room \/ Update(Host, r)
  BY DEF StoreWelcome, r
<1>7a. UNCHANGED saved \/ Persist(Host, r)
  BY DEF StoreWelcome, r
<1>8. DOMAIN room' = Sessions /\ DOMAIN saved' = Sessions
      /\ Fits(Host, room'[Host]) /\ Fits(Host, saved'[Host])
      /\ \A q \in Sessions \ {Host} : room'[q] = room[q] /\ saved'[q] = saved[q]
  BY <1>0, <1>5, <1>6, <1>7, <1>7a DEF Update, Persist
<1>9. DOMAIN pc' = Sessions /\ DOMAIN todo' = Sessions /\ todo'[Host] = Tail(todo[Host])
      /\ \A q \in Sessions \ {Host} : pc'[q] = pc[q] /\ todo'[q] = todo[q]
  BY <1>0, <1>6 DEF StoreWelcome, Todo, Goto, Delivering
<1>10. IF todo'[Host] # <<>> THEN pc'[Host] = label
       ELSE pc'[Host] \in {"requests", "flush", "ack", "ackAdmitted"}
  BY <1>0, <1>6 DEF StoreWelcome, Goto, Delivering, After, Ack
<1>11. QED
  BY <1>0, <1>2, <1>3, <1>4, <1>8, <1>9, <1>10, SameStep DEF HostLabels, Delivers

LEMMA AckRequestsInv ==
  ASSUME IInv, NEW label \in {"deliver", "deliverAdmitted"}, AckRequests(label)
  PROVE  IInv'
<1>0. Host \in Sessions /\ Fits(Host, room[Host]) /\ Fits(Host, saved[Host])
  BY Here DEF Sessions
<1>1. Same /\ requests' \subseteq Guests /\ welcomes' \in Seq(Offers) /\ accepted' \subseteq Guests
      /\ status' \in [Sessions -> {"connecting", "connected", "offline"}]
  BY DEF AckRequests, IInv, Shared, Same, historyVars
<1>2. faults' \in 0..MaxFaults
  <2>1. UNCHANGED faults \/ Lose
    BY DEF AckRequests
  <2>2. QED
    BY <1>0, <2>1, FaultsStay DEF IInv
<1>3. DOMAIN room' = Sessions /\ DOMAIN saved' = Sessions /\ DOMAIN pc' = Sessions
      /\ DOMAIN todo' = Sessions /\ pc'[Host] \in {"requests", "flush"}
      /\ \A q \in Sessions \ {Host} : /\ room'[q] = room[q] /\ saved'[q] = saved[q]
                                      /\ pc'[q] = pc[q] /\ todo'[q] = todo[q]
  BY <1>0 DEF AckRequests, Goto, After, IInv, AllFit, Places
<1>4. Fits(Host, room'[Host]) /\ Fits(Host, saved'[Host])
  BY <1>0 DEF AckRequests
<1>5. QED
  BY <1>0, <1>1, <1>2, <1>3, <1>4, SameStep DEF HostLabels, Delivers

LEMMA FetchJoinRequestsInv ==
  ASSUME IInv, FetchJoinRequests
  PROVE  IInv'
<1>0. Host \in Sessions /\ Fits(Host, room[Host]) /\ Fits(Host, saved[Host])
  BY Here DEF Sessions
<1>1. Same /\ requests' \subseteq Guests /\ welcomes' \in Seq(Offers) /\ accepted' \subseteq Guests
  BY DEF FetchJoinRequests, coordinatorVars, IInv, Shared, Same, historyVars
<1>2. status' \in [Sessions -> {"connecting", "connected", "offline"}]
  BY <1>0 DEF FetchJoinRequests, MarkServerOffline, IInv, Shared
<1>3. faults' \in 0..MaxFaults
  <2>1. UNCHANGED faults \/ Lose
    BY DEF FetchJoinRequests
  <2>2. QED
    BY <1>0, <2>1, FaultsStay DEF IInv
<1>4. DOMAIN room = Sessions /\ DOMAIN saved = Sessions /\ DOMAIN pc = Sessions
      /\ DOMAIN todo = Sessions
  BY DEF IInv, AllFit, Places
<1>5. CASE /\ \E list \in SetToSeqs({g \in requests : ~InOutbox(g)}) : Todo(Host, list)
           /\ Delivering(Host, "admit", "outbox")
           /\ UNCHANGED <<room, saved, status, faults>>
  <2>1. PICK list \in SetToSeqs({g \in requests : ~InOutbox(g)}) : Todo(Host, list)
    BY <1>5
  <2> DEFINE S == {g \in requests : ~InOutbox(g)}
  <2>2. S \subseteq Guests /\ IsFiniteSet(S) /\ Cardinality(S) \in Nat
    <3>1. S \subseteq Guests
      BY DEF IInv, Shared
    <3>2. QED
      BY <3>1, RoomAssumption, FS_Subset, FS_CardinalityType
  <2>3. list \in [1..Cardinality(S) -> S]
    BY <2>1 DEF SetToSeqs
  <2> HIDE DEF S
  <2>4. list \in Seq(Guests)
    BY <2>2, <2>3
  <2>5. DOMAIN pc' = Sessions /\ DOMAIN todo' = Sessions /\ todo'[Host] = list
        /\ \A q \in Sessions \ {Host} : pc'[q] = pc[q] /\ todo'[q] = todo[q]
    BY <1>0, <1>4, <1>5, <2>1 DEF Todo, Goto, Delivering
  <2>6. pc'[Host] = IF todo'[Host] # <<>> THEN "admit" ELSE "outbox"
    BY <1>0, <1>4, <1>5 DEF Goto, Delivering
  <2>7. QED
    BY <1>0, <1>1, <1>2, <1>3, <1>4, <1>5, <2>4, <2>5, <2>6, SameStep DEF HostLabels, Delivers
<1>6. CASE MarkServerOffline(Host) /\ UNCHANGED todo
  <2>1. DOMAIN room' = Sessions /\ DOMAIN saved' = Sessions /\ DOMAIN pc' = Sessions
        /\ DOMAIN todo' = Sessions /\ pc'[Host] = "idle"
        /\ room'[Host] = room[Host] /\ saved'[Host] \in {room[Host], saved[Host]}
        /\ \A q \in Sessions \ {Host} : /\ room'[q] = room[q] /\ saved'[q] = saved[q]
                                        /\ pc'[q] = pc[q] /\ todo'[q] = todo[q]
    BY <1>0, <1>4, <1>6 DEF MarkServerOffline, Goto, Persist
  <2>2. Fits(Host, room'[Host]) /\ Fits(Host, saved'[Host])
    BY <1>0, <2>1
  <2>3. pc'[Host] \in HostLabels /\ pc'[Host] \notin Delivers /\ pc'[Host] # "admit"
    BY <2>1 DEF HostLabels, Delivers
  <2>4. QED
    BY <1>0, <1>1, <1>2, <1>3, <2>1, <2>2, <2>3, SameStep
<1>7. QED
  BY <1>5, <1>6 DEF FetchJoinRequests

LEMMA AcceptedRequestsInv ==
  ASSUME IInv, AcceptedRequests
  PROVE  IInv'
<1>0. Host \in Sessions /\ Fits(Host, room[Host]) /\ Fits(Host, saved[Host])
  BY Here DEF Sessions
<1>1. Same /\ requests' \subseteq Guests /\ welcomes' \in Seq(Offers) /\ accepted' \subseteq Guests
      /\ status' \in [Sessions -> {"connecting", "connected", "offline"}]
      /\ faults' \in 0..MaxFaults
  BY DEF AcceptedRequests, coordinatorVars, IInv, Shared, Same, historyVars
<1>2. DOMAIN room' = Sessions /\ DOMAIN saved' = Sessions /\ DOMAIN pc' = Sessions
      /\ DOMAIN todo' = Sessions /\ todo'[Host] = room[Host].outbox
      /\ pc'[Host] = (IF room[Host].outbox = <<>> THEN "flush" ELSE "deliverAdmitted")
      /\ \A q \in Sessions \ {Host} : /\ room'[q] = room[q] /\ saved'[q] = saved[q]
                                      /\ pc'[q] = pc[q] /\ todo'[q] = todo[q]
  BY <1>0 DEF AcceptedRequests, Goto, Todo, IInv, AllFit, Places
<1>3. Fits(Host, room'[Host]) /\ Fits(Host, saved'[Host])
  BY <1>0 DEF AcceptedRequests
<1>4. room[Host].outbox \in Seq(Offers)
  BY <1>0 DEF Fits
<1>5. QED
  BY <1>0, <1>1, <1>2, <1>3, <1>4, SameStep DEF HostLabels, Delivers

\* A guest at a welcome, whatever it was at before.
LEMMA JoinFits ==
  ASSUME IInv, NEW p \in Guests, NEW w \in Offers, Join(p, w)
  PROVE  /\ DOMAIN room' = Sessions /\ Fits(p, room'[p])
         /\ \A q \in Sessions \ {p} : room'[q] = room[q]
<1>1. p \in Sessions /\ p # Host /\ Fits(p, room[p])
  BY Here, RoomAssumption DEF Sessions
<1>2. w.state \in States /\ w.state.id # 0 /\ Recorded(w.state.id) /\ w.after \in 0..Len(log)
  BY DEF Offers, MlsStates, States, IInv, Shared
<1>3. /\ room' = [room EXCEPT ![p] =
                    [room[p] EXCEPT !.state = w.state, !.cursor = w.after, !.waiting = FALSE]]
      /\ DOMAIN room = Sessions
  BY DEF Join, Update, IInv, AllFit
<1>4. room'[p] = [room[p] EXCEPT !.state = w.state, !.cursor = w.after, !.waiting = FALSE]
  BY <1>1, <1>3
<1>5. Fits(p, room'[p])
  BY <1>1, <1>2, <1>4 DEF Fits, Queued
<1>6. QED
  BY <1>3, <1>5

LEMMA FetchWelcomesInv ==
  ASSUME IInv, NEW p \in Sessions, FetchWelcomes(p)
  PROVE  IInv'
<1> DEFINE mine == Only(welcomes, {w \in ToSet(welcomes) : w.guest = p})
<1>0. p \in Guests /\ p # Host /\ Fits(p, room[p]) /\ Fits(p, saved[p])
  BY Here DEF FetchWelcomes, HostLabels
<1>1. Same /\ requests' \subseteq Guests /\ welcomes' \in Seq(Offers) /\ accepted' \subseteq Guests
  BY DEF FetchWelcomes, coordinatorVars, IInv, Shared, Same, historyVars
<1>2. status' \in [Sessions -> {"connecting", "connected", "offline"}]
  BY <1>0 DEF FetchWelcomes, MarkServerOffline, IInv, Shared
<1>3. faults' \in 0..MaxFaults
  <2>1. UNCHANGED faults \/ Lose
    BY DEF FetchWelcomes
  <2>2. QED
    BY <2>1, FaultsStay DEF IInv
<1>4. DOMAIN room = Sessions /\ DOMAIN saved = Sessions /\ DOMAIN pc = Sessions
      /\ DOMAIN todo = Sessions
  BY DEF IInv, AllFit, Places
<1>5. mine \in Seq(Offers)
  BY OnlyKeeps DEF IInv, Shared
<1> HIDE DEF mine
<1>6. CASE mine # <<>> /\ Welcomed(p, mine) /\ UNCHANGED <<saved, status, faults>>
  <2>1. Head(mine) \in Offers
    BY <1>5, <1>6, TailHas
  <2>2. /\ DOMAIN room' = Sessions /\ Fits(p, room'[p])
        /\ \A q \in Sessions \ {p} : room'[q] = room[q]
    BY <1>0, <1>6, <2>1, JoinFits DEF Welcomed
  <2>3. DOMAIN saved' = Sessions /\ DOMAIN pc' = Sessions
        /\ DOMAIN todo' = Sessions /\ pc'[p] = "ackWelcome" /\ todo'[p] = mine
        /\ saved'[p] = saved[p]
        /\ \A q \in Sessions \ {p} : /\ saved'[q] = saved[q]
                                     /\ pc'[q] = pc[q] /\ todo'[q] = todo[q]
    BY <1>4, <1>6 DEF Welcomed, Goto, Todo
  <2>4. Fits(p, saved'[p]) /\ pc'[p] \in GuestLabels /\ pc'[p] # "admit"
    BY <1>0, <2>3 DEF GuestLabels
  <2>5. QED
    BY <1>0, <1>1, <1>2, <1>3, <1>5, <1>6, <2>2, <2>3, <2>4, SameStep
<1>7. CASE /\ Goto(p, "idle") /\ UNCHANGED <<room, todo>>
           /\ Persist(p, room[p]) \/ UNCHANGED saved
  <2>1. DOMAIN room' = Sessions /\ DOMAIN saved' = Sessions /\ DOMAIN pc' = Sessions
        /\ DOMAIN todo' = Sessions /\ pc'[p] = "idle"
        /\ room'[p] = room[p] /\ saved'[p] \in {room[p], saved[p]}
        /\ \A q \in Sessions \ {p} : /\ room'[q] = room[q] /\ saved'[q] = saved[q]
                                     /\ pc'[q] = pc[q] /\ todo'[q] = todo[q]
    BY <1>4, <1>7 DEF Goto, Persist
  <2>2. Fits(p, room'[p]) /\ Fits(p, saved'[p])
    BY <1>0, <2>1
  <2>3. pc'[p] \in GuestLabels /\ pc'[p] \notin Delivers /\ pc'[p] # "admit"
    BY <2>1 DEF GuestLabels, Delivers
  <2>4. QED
    BY <1>0, <1>1, <1>2, <1>3, <2>1, <2>2, <2>3, SameStep
<1>8. QED
  BY <1>6, <1>7 DEF FetchWelcomes, MarkServerOffline, mine

LEMMA AckWelcomeInv ==
  ASSUME IInv, NEW p \in Sessions, AckWelcome(p)
  PROVE  IInv'
<1>0. p \in Guests /\ p # Host /\ Fits(p, room[p]) /\ Fits(p, saved[p])
  BY Here DEF AckWelcome, HostLabels
<1>1. todo[p] \in Seq(Offers) /\ todo[p] # <<>>
  BY Here DEF AckWelcome, Delivers
<1>2. Same /\ requests' \subseteq Guests /\ accepted' \subseteq Guests
      /\ status' \in [Sessions -> {"connecting", "connected", "offline"}]
  BY DEF AckWelcome, IInv, Shared, Same, historyVars
<1>3. welcomes' \in Seq(Offers)
  <2>1. Without(welcomes, Head(todo[p])) \in Seq(Offers) /\ welcomes \in Seq(Offers)
    BY WithoutIn DEF IInv, Shared
  <2>2. QED
    BY <2>1 DEF AckWelcome
<1>4. faults' \in 0..MaxFaults
  <2>1. UNCHANGED faults \/ Lose
    BY DEF AckWelcome
  <2>2. QED
    BY <2>1, FaultsStay DEF IInv
<1>5. DOMAIN room = Sessions /\ DOMAIN saved = Sessions /\ DOMAIN pc = Sessions
      /\ DOMAIN todo = Sessions /\ UNCHANGED saved
  BY DEF IInv, AllFit, Places, AckWelcome
<1>6. CASE Goto(p, "flush") /\ Todo(p, <<>>) /\ UNCHANGED room
  <2>1. DOMAIN room' = Sessions /\ DOMAIN saved' = Sessions /\ DOMAIN pc' = Sessions
        /\ DOMAIN todo' = Sessions /\ pc'[p] = "flush"
        /\ room'[p] = room[p] /\ saved'[p] = saved[p]
        /\ \A q \in Sessions \ {p} : /\ room'[q] = room[q] /\ saved'[q] = saved[q]
                                     /\ pc'[q] = pc[q] /\ todo'[q] = todo[q]
    BY <1>5, <1>6 DEF Goto, Todo
  <2>2. Fits(p, room'[p]) /\ Fits(p, saved'[p])
    BY <1>0, <2>1
  <2>3. pc'[p] \in GuestLabels /\ pc'[p] \notin Delivers /\ pc'[p] # "admit"
    BY <2>1 DEF GuestLabels, Delivers
  <2>4. QED
    BY <1>0, <1>2, <1>3, <1>4, <2>1, <2>2, <2>3, SameStep
<1>7. CASE Len(todo[p]) > 1 /\ Welcomed(p, Tail(todo[p]))
  <2>1. Tail(todo[p]) \in Seq(Offers) /\ Tail(todo[p]) # <<>>
    BY <1>1, <1>7, TailLeft
  <2>2. Head(Tail(todo[p])) \in Offers
    BY <2>1, TailHas
  <2>3. /\ DOMAIN room' = Sessions /\ Fits(p, room'[p])
        /\ \A q \in Sessions \ {p} : room'[q] = room[q]
    BY <1>0, <1>7, <2>2, JoinFits DEF Welcomed
  <2>4. DOMAIN saved' = Sessions /\ DOMAIN pc' = Sessions
        /\ DOMAIN todo' = Sessions /\ pc'[p] = "ackWelcome" /\ todo'[p] = Tail(todo[p])
        /\ saved'[p] = saved[p]
        /\ \A q \in Sessions \ {p} : /\ saved'[q] = saved[q]
                                     /\ pc'[q] = pc[q] /\ todo'[q] = todo[q]
    BY <1>5, <1>7 DEF Welcomed, Goto, Todo
  <2>5. Fits(p, saved'[p]) /\ pc'[p] \in GuestLabels /\ pc'[p] # "admit"
    BY <1>0, <2>4 DEF GuestLabels
  <2>6. QED
    BY <1>0, <1>2, <1>3, <1>4, <2>1, <2>3, <2>4, <2>5, SameStep
<1>8. QED
  BY <1>6, <1>7 DEF AckWelcome

LEMMA CrashInv ==
  ASSUME IInv, NEW p \in Sessions, Crash(p)
  PROVE  IInv'
<1>0. Fits(p, saved[p])
  BY Here
<1>1. Same /\ requests' \subseteq Guests /\ welcomes' \in Seq(Offers) /\ accepted' \subseteq Guests
      /\ status' \in [Sessions -> {"connecting", "connected", "offline"}]
  BY DEF Crash, coordinatorVars, IInv, Shared, Same, historyVars
<1>2. faults' \in 0..MaxFaults
  BY FaultsStay DEF Crash, IInv
<1>3. DOMAIN room' = Sessions /\ DOMAIN saved' = Sessions /\ DOMAIN pc' = Sessions
      /\ DOMAIN todo' = Sessions /\ pc'[p] = "idle"
      /\ room'[p] = saved[p] /\ saved'[p] = saved[p]
      /\ \A q \in Sessions \ {p} : /\ room'[q] = room[q] /\ saved'[q] = saved[q]
                                   /\ pc'[q] = pc[q] /\ todo'[q] = todo[q]
  BY DEF Crash, Goto, Todo, IInv, AllFit, Places
<1>4. Fits(p, room'[p]) /\ Fits(p, saved'[p])
  BY <1>0, <1>3
<1>5. pc'[p] \in GuestLabels \intersect HostLabels /\ pc'[p] \notin Delivers /\ pc'[p] # "admit"
  BY <1>3 DEF GuestLabels, HostLabels, Delivers
<1>6. QED
  BY <1>1, <1>2, <1>3, <1>4, <1>5, SameStep

-------------------------------------------------------------------------------
(* Pulling: the room after each record, one record after another. *)

PullStep(p, prev, c) == [Pulled(p, prev, log[c]) EXCEPT !.cursor = c]

\* g is the recursive function of Processed up to the record m.
Processes(p, r, g, m) ==
  g = [c \in r.cursor..m |-> IF c = r.cursor \/ c \notin Fetched(r)
                             THEN [r EXCEPT !.cursor = c]
                             ELSE [Pulled(p, g[c - 1], log[c]) EXCEPT !.cursor = c]]

LEMMA ProcessesMeans ==
  ASSUME NEW p, NEW r, NEW m, NEW g, Processes(p, r, g, m), log \in Seq(Messages \union Commits),
         r.cursor \in Nat, m \in r.cursor..Len(log)
  PROVE  /\ g[r.cursor] = [r EXCEPT !.cursor = r.cursor]
         /\ \A c \in (r.cursor + 1)..m : g[c] = PullStep(p, g[c - 1], c)
<1>1. \A c \in r.cursor..m : g[c] = IF c = r.cursor \/ c \notin Fetched(r)
                                    THEN [r EXCEPT !.cursor = c]
                                    ELSE [Pulled(p, g[c - 1], log[c]) EXCEPT !.cursor = c]
  BY Zenon DEF Processes
<1>2. Len(log) \in Nat
  OBVIOUS
<1>3. r.cursor \in r.cursor..m
  BY <1>2
<1>4. ASSUME NEW c \in (r.cursor + 1)..m
      PROVE  c \in r.cursor..m /\ c # r.cursor /\ c \in Fetched(r)
  BY <1>2 DEF Fetched
<1>5. ASSUME NEW c \in (r.cursor + 1)..m
      PROVE  g[c] = PullStep(p, g[c - 1], c)
  BY <1>1, <1>4, Zenon DEF PullStep
<1>6. QED
  BY <1>1, <1>3, <1>5, Zenon

LEMMA ProcessesStep ==
  ASSUME NEW p, NEW r, NEW m, NEW g, Processes(p, r, g, m), log \in Seq(Messages \union Commits),
         r.cursor \in Nat, m \in r.cursor..Len(log)
  PROVE  \E h : Processes(p, r, h, m + 1)
<1> DEFINE grown == IF m + 1 \notin Fetched(r) THEN [r EXCEPT !.cursor = m + 1]
                    ELSE [Pulled(p, g[m], log[m + 1]) EXCEPT !.cursor = m + 1]
           h == [c \in r.cursor..(m + 1) |-> IF c = m + 1 THEN grown ELSE g[c]]
<1>0. m \in Nat /\ Len(log) \in Nat /\ r.cursor <= m
  OBVIOUS
<1>1. \A c \in r.cursor..m : g[c] = IF c = r.cursor \/ c \notin Fetched(r)
                                    THEN [r EXCEPT !.cursor = c]
                                    ELSE [Pulled(p, g[c - 1], log[c]) EXCEPT !.cursor = c]
  BY Zenon DEF Processes
<1>2. h = [c \in r.cursor..(m + 1) |-> h[c]]
  BY Zenon
<1>3. h[m + 1] = grown /\ \A c \in r.cursor..m : h[c] = g[c]
  BY <1>0
<1> HIDE DEF h
<1>4. ASSUME NEW c \in r.cursor..(m + 1)
      PROVE  h[c] = IF c = r.cursor \/ c \notin Fetched(r)
                    THEN [r EXCEPT !.cursor = c]
                    ELSE [Pulled(p, h[c - 1], log[c]) EXCEPT !.cursor = c]
  <2>1. CASE c = m + 1
    <3>1. c # r.cursor /\ c - 1 = m /\ m \in r.cursor..m
      BY <1>0, <2>1
    <3>2. h[c - 1] = g[m]
      BY <1>3, <3>1
    <3>3. h[c] = grown
      BY <1>3, <2>1
    <3>4. grown = IF c \notin Fetched(r) THEN [r EXCEPT !.cursor = c]
                  ELSE [Pulled(p, g[m], log[c]) EXCEPT !.cursor = c]
      BY <2>1
    <3> HIDE DEF grown
    <3>5. QED
      BY <3>1, <3>2, <3>3, <3>4, Zenon
  <2>2. CASE c # m + 1
    <3>1. c \in r.cursor..m /\ (c # r.cursor => c - 1 \in r.cursor..m)
      BY <1>0, <2>2
    <3>2. h[c] = g[c] /\ (c # r.cursor => h[c - 1] = g[c - 1])
      BY <1>3, <3>1
    <3>3. QED
      BY <1>1, <3>1, <3>2, Zenon
  <2>3. QED
    BY <2>1, <2>2
<1>5. h = [c \in r.cursor..(m + 1) |-> IF c = r.cursor \/ c \notin Fetched(r)
                                       THEN [r EXCEPT !.cursor = c]
                                       ELSE [Pulled(p, h[c - 1], log[c]) EXCEPT !.cursor = c]]
  BY <1>2, <1>4, Zenon
<1>6. QED
  BY <1>5, Zenon DEF Processes

LEMMA ProcessedMeans ==
  ASSUME NEW p, log \in Seq(Messages \union Commits), room[p].cursor \in 0..Len(log)
  PROVE  /\ Processed(p)[room[p].cursor] = [room[p] EXCEPT !.cursor = room[p].cursor]
         /\ \A c \in (room[p].cursor + 1)..Len(log) :
              Processed(p)[c] = PullStep(p, Processed(p)[c - 1], c)
<1> DEFINE r == room[p]
           lo == r.cursor
           G == {m \in lo..Len(log) : \E g : Processes(p, r, g, m)}
<1>0. Len(log) \in Nat /\ lo \in Nat /\ lo \in Int /\ Len(log) \in Int /\ lo <= Len(log)
  OBVIOUS
<1>1. lo \in G
  <2> DEFINE first == [c \in lo..lo |-> [r EXCEPT !.cursor = c]]
  <2>1. first = [c \in lo..lo |->
                   IF c = lo \/ c \notin Fetched(r) THEN [r EXCEPT !.cursor = c]
                   ELSE [Pulled(p, first[c - 1], log[c]) EXCEPT !.cursor = c]]
    <3>1. \A c \in lo..lo : c = lo
      BY <1>0
    <3>2. QED
      BY <3>1, Zenon
  <2>2. Processes(p, r, first, lo)
    BY <2>1, Zenon DEF Processes
  <2> HIDE DEF first, r
  <2>3. lo \in lo..Len(log)
    BY <1>0
  <2>4. QED
    BY <2>2, <2>3
<1>2. ASSUME NEW m \in lo..Len(log), m < Len(log), m \in G
      PROVE  m + 1 \in G
  <2>1. PICK g : Processes(p, r, g, m)
    BY <1>2
  <2>2. \E h : Processes(p, r, h, m + 1)
    BY <1>0, <2>1, ProcessesStep
  <2>3. QED
    BY <1>0, <1>2, <2>2
<1>3. lo..Len(log) \subseteq G
  <2>1. \A m \in lo..Len(log) : m < Len(log) /\ m \in G => m + 1 \in G
    BY <1>2
  <2> HIDE DEF G, lo
  <2>2. QED
    BY <1>0, <1>1, <2>1, UpTo
<1>4. \E g : Processes(p, r, g, Len(log))
  <2>1. Len(log) \in lo..Len(log)
    BY <1>0
  <2>2. QED
    BY <1>3, <2>1
<1>5. Processed(p) = CHOOSE g : Processes(p, r, g, Len(log))
  BY Zenon DEF Processed, Processes
<1>6. Processes(p, r, Processed(p), Len(log))
  BY <1>4, <1>5, Zenon
<1>7. QED
  BY <1>0, <1>6, ProcessesMeans

\* A record pulled, and opened or not, leaves a room of p.
LEMMA PullStepFits ==
  ASSUME IInv, NEW p \in Sessions, NEW x, Fits(p, x), NEW c \in 1..Len(log)
  PROVE  Fits(p, PullStep(p, x, c))
<1> DEFINE record == log[c]
           y == Pulled(p, x, record)
<1>1. record \in Messages \union Commits /\ c \in 0..Len(log)
  BY DEF IInv, Shared
<1>2. Fits(p, y)
  <2>1. CASE ~Opens(p, x.state, record)
    BY <2>1 DEF Pulled
  <2>2. CASE Opens(p, x.state, record) /\ IsCommit(record)
    <3>1. record.commit \in States /\ record.commit.id # 0 /\ p # Host
      BY <1>1, <2>2, RecordKinds DEF Opens, MlsStates, States, IInv, Shared
    <3>1a. Recorded(record.commit.id)
      BY <2>2 DEF Recorded
    <3>2. y = [x EXCEPT !.state = record.commit]
      BY <2>2 DEF Pulled
    <3> HIDE DEF y, record
    <3>3. QED
      BY <3>1, <3>1a, <3>2 DEF Fits, Queued
  <2>3. CASE Opens(p, x.state, record) /\ ~IsCommit(record)
    <3>1. record.id \in Sent
      BY <1>1, <2>3, RecordKinds
    <3>2. y = [x EXCEPT !.messages = Shown(x.messages, record.id)]
      BY <2>3 DEF Pulled
    <3>3. x.messages \in Seq(Sent) /\ IsInjective(x.messages)
      BY DEF Fits
    <3> HIDE DEF y, record
    <3>4. Shown(x.messages, record.id) \in Seq(Sent) /\ IsInjective(Shown(x.messages, record.id))
      BY <3>1, <3>3, ShownIsInjective
    <3>5. QED
      BY <3>2, <3>4 DEF Fits, Queued
  <2>4. QED
    BY <2>1, <2>2, <2>3
<1>3. PullStep(p, x, c) = [y EXCEPT !.cursor = c]
  BY DEF PullStep
<1> HIDE DEF y
<1>4. QED
  BY <1>1, <1>2, <1>3 DEF Fits, Queued

LEMMA ProcessedFits ==
  ASSUME IInv, NEW p \in Sessions
  PROVE  Fits(p, Processed(p)[Len(log)])
<1> DEFINE lo == room[p].cursor
           f == Processed(p)
           G == {c \in lo..Len(log) : Fits(p, f[c])}
<1>1. log \in Seq(Messages \union Commits) /\ Fits(p, room[p]) /\ lo \in 0..Len(log)
      /\ Len(log) \in Nat
  BY Here DEF IInv, Shared, Fits
<1>2. /\ f[lo] = [room[p] EXCEPT !.cursor = lo]
      /\ \A c \in (lo + 1)..Len(log) : f[c] = PullStep(p, f[c - 1], c)
  BY <1>1, ProcessedMeans
<1> HIDE DEF lo, f
<1>3. lo \in G
  <2>1. Fits(p, f[lo])
    BY <1>1, <1>2 DEF Fits, Queued
  <2>2. QED
    BY <1>1, <2>1
<1>4. ASSUME NEW c \in lo..Len(log), c < Len(log), c \in G
      PROVE  c + 1 \in G
  <2>1. c + 1 \in (lo + 1)..Len(log) /\ c + 1 \in 1..Len(log) /\ c + 1 \in lo..Len(log)
        /\ (c + 1) - 1 = c
    BY <1>1, <1>4
  <2>2. Fits(p, f[c])
    BY <1>4
  <2>3. f[c + 1] = PullStep(p, f[c], c + 1)
    BY <1>2, <2>1
  <2>4. Fits(p, f[c + 1])
    BY <2>1, <2>2, <2>3, PullStepFits
  <2>5. QED
    BY <2>1, <2>4
<1>5. lo..Len(log) \subseteq G
  <2>1. \A c \in lo..Len(log) : c < Len(log) /\ c \in G => c + 1 \in G
    BY <1>4
  <2>2. lo \in Int /\ Len(log) \in Int
    BY <1>1
  <2> HIDE DEF G
  <2>3. QED
    BY <1>3, <2>1, <2>2, UpTo
<1>6. Fits(p, f[Len(log)])
  BY <1>1, <1>5
<1>7. QED
  BY <1>6 DEF f

LEMMA PullMessagesInv ==
  ASSUME IInv, NEW p \in Sessions, PullMessages(p)
  PROVE  IInv'
<1> DEFINE r == Processed(p)[Len(log)]
<1>0. Fits(p, room[p]) /\ Fits(p, saved[p]) /\ Fits(p, r)
  BY Here, ProcessedFits
<1> HIDE DEF r
<1>1. Same /\ requests' \subseteq Guests /\ welcomes' \in Seq(Offers) /\ accepted' \subseteq Guests
      /\ status' \in [Sessions -> {"connecting", "connected", "offline"}]
  BY DEF PullMessages, MarkServerOffline, coordinatorVars, IInv, Shared, Same, historyVars
<1>2. faults' \in 0..MaxFaults
  <2>1. UNCHANGED faults \/ Lose
    BY DEF PullMessages
  <2>2. QED
    BY <2>1, FaultsStay DEF IInv
<1>3. DOMAIN room = Sessions /\ DOMAIN saved = Sessions /\ DOMAIN pc = Sessions
      /\ DOMAIN todo = Sessions
  BY DEF IInv, AllFit, Places
<1>4. /\ Update(p, r) \/ UNCHANGED room
      /\ Persist(p, r) \/ Persist(p, room[p]) \/ UNCHANGED saved
  BY DEF PullMessages, MarkServerOffline, r
<1>5. Goto(p, "idle") /\ UNCHANGED todo
  BY DEF PullMessages, MarkServerOffline
<1>6. DOMAIN room' = Sessions /\ DOMAIN saved' = Sessions
      /\ Fits(p, room'[p]) /\ Fits(p, saved'[p])
      /\ \A q \in Sessions \ {p} : room'[q] = room[q] /\ saved'[q] = saved[q]
  BY <1>0, <1>3, <1>4 DEF Update, Persist
<1>7. DOMAIN pc' = Sessions /\ DOMAIN todo' = Sessions /\ pc'[p] = "idle"
      /\ \A q \in Sessions \ {p} : pc'[q] = pc[q] /\ todo'[q] = todo[q]
  BY <1>3, <1>5 DEF Goto
<1>8. pc'[p] \in GuestLabels \intersect HostLabels /\ pc'[p] \notin Delivers /\ pc'[p] # "admit"
  BY <1>7 DEF GuestLabels, HostLabels, Delivers
<1>9. QED
  BY <1>1, <1>2, <1>6, <1>7, <1>8, SameStep

-------------------------------------------------------------------------------
(* The steps that post or send. *)

\* The log, the commits and the messages sent only grow.
Grew ==
  /\ log' \in Seq((Messages \union Commits)')
  /\ Len(log) <= Len(log') /\ \A c \in 1..Len(log) : log'[c] = log[c]
  /\ commits' \in Nat /\ commits <= commits'
  /\ sends' \in [Sessions -> 0..MaxSends] /\ \A q \in Sessions : sends[q] <= sends'[q]

LEMMA GrownSets ==
  ASSUME Shared, Len(log') \in Nat, Len(log) <= Len(log'), commits' \in Nat, commits <= commits',
         sends' \in [Sessions -> 0..MaxSends], \A q \in Sessions : sends[q] <= sends'[q]
  PROVE  /\ Sent \subseteq Sent' /\ MlsStates \subseteq MlsStates' /\ States \subseteq States'
         /\ Messages \subseteq Messages' /\ Commits \subseteq Commits' /\ Sealed \subseteq Sealed'
<1>1. Sent \subseteq Sent'
  <2>1. ASSUME NEW id \in Sent
        PROVE  id \in Ids /\ id[2] <= sends'[id[1]]
    <3>1. id \in Ids /\ id[1] \in Sessions /\ id[2] \in Nat /\ id[2] <= sends[id[1]]
      BY DEF Sent, Ids
    <3>2. sends[id[1]] \in Nat /\ sends'[id[1]] \in Nat /\ sends[id[1]] <= sends'[id[1]]
      BY <3>1, RoomAssumption DEF Shared
    <3>3. QED
      BY <3>1, <3>2
  <2>2. QED
    BY <2>1 DEF Sent, Ids
<1>2. commits \in Nat /\ 1..commits \subseteq 1..commits' /\ 0..commits \subseteq 0..commits'
      /\ Len(log) \in Nat /\ 1..Len(log) \subseteq 1..Len(log')
  BY DEF Shared
<1>3. MlsStates \subseteq MlsStates' /\ States \subseteq States'
  BY <1>2 DEF MlsStates, States
<1>4. QED
  BY <1>1, <1>2, <1>3 DEF Messages, Commits, Sealed

\* What the log has it keeps.
LEMMA LogKeeps ==
  ASSUME Shared, Grew
  PROVE  /\ \A id : (InLog(id) => InLog(id)') /\ (Recorded(id) => Recorded(id)')
         /\ Offers \subseteq Offers'
<1>1. DOMAIN log = 1..Len(log) /\ DOMAIN log' = 1..Len(log') /\ Len(log) \in Nat /\ Len(log') \in Nat
  BY DEF Shared, Grew
<1>2. \A c \in DOMAIN log : c \in DOMAIN log' /\ log'[c] = log[c]
  BY <1>1 DEF Grew
<1>3. \A id : InLog(id) => InLog(id)'
  BY <1>2, Zenon DEF InLog
<1>4. \A id : Recorded(id) => Recorded(id)'
  BY <1>1, <1>2 DEF Recorded
<1>5. MlsStates \subseteq MlsStates' /\ 1..Len(log) \subseteq 1..Len(log')
  BY <1>1, GrownSets DEF Grew
<1>6. {x \in MlsStates : Recorded(x.id)} \subseteq {x \in MlsStates' : Recorded(x.id)'}
  BY <1>4, <1>5
<1>7. Offers \subseteq Offers'
  BY <1>5, <1>6 DEF Offers
<1>8. QED
  BY <1>3, <1>4, <1>7

\* The host goes from the state k to the state n.  What had k behind it has n behind it.
LEMMA CoversGoesOn ==
  ASSUME Shared, Grew, lost \subseteq lost', NEW k \in 1..commits, NEW n, Covers(k),
         ASSUME NEW S \in SUBSET (1..commits'), n \in S, HasParents(S)'
         PROVE  /\ k \in S
                /\ \A c \in 1..Len(log') :
                     c \in 1..Len(log) \/ (IsCommit(log'[c]) => log'[c].commit.id \in S \union lost')
  PROVE  Covers(n)'
<1>1. DOMAIN log = 1..Len(log) /\ DOMAIN log' = 1..Len(log') /\ Len(log) \in Nat /\ Len(log') \in Nat
      /\ \A c \in 1..Len(log) : log[c] \in Messages \union Commits
  BY DEF Shared, Grew
<1>2. \A c \in 1..Len(log) : c \in 1..Len(log') /\ log'[c] = log[c]
  BY <1>1 DEF Grew
<1>3. ASSUME NEW S \in SUBSET (1..commits'), n \in S, HasParents(S)',
             NEW c \in 1..Len(log'), IsCommit(log'[c])
      PROVE  log'[c].commit.id \in S \union lost'
  <2>1. k \in S /\ (c \in 1..Len(log) \/ log'[c].commit.id \in S \union lost')
    BY <1>3
  <2> DEFINE T == S \intersect (1..commits)
  <2>2. HasParents(T)
    <3>1. ASSUME NEW d \in 1..Len(log), IsCommit(log[d]), log[d].commit.id \in T
          PROVE  log[d].key \in T
      <4>1. log[d].key \in 1..commits
        BY <1>1, <3>1, RecordKinds
      <4>2. log'[d].key \in S
        BY <1>1, <1>2, <1>3, <3>1 DEF HasParents
      <4>3. QED
        BY <1>2, <4>1, <4>2
    <3>2. QED
      BY <1>1, <3>1 DEF HasParents
  <2>3. k \in T /\ T \in SUBSET (1..commits)
    BY <2>1
  <2>4. \A d \in 1..Len(log) : IsCommit(log[d]) => log[d].commit.id \in T \union lost
    BY <2>2, <2>3 DEF Covers
  <2>5. QED
    BY <1>2, <1>3, <2>1, <2>4
<1>4. QED
  BY <1>3 DEF Covers

\* What comes to the log is no commit, or one that was lost.
NoneBehind ==
  /\ lost \subseteq lost'
  /\ \A c \in 1..Len(log') :
       c \in 1..Len(log) \/ (IsCommit(log'[c]) => log'[c].commit.id \in lost')

\* A room fits a longer log.
LEMMA FitsGrows ==
  ASSUME Shared, Grew, NEW q \in Sessions, NEW x, Fits(q, x), sends'[q] = sends[q],
         q = Host => NoneBehind
  PROVE  Fits(q, x)'
<1>1. Len(log) \in Nat /\ Len(log') \in Nat
  BY DEF Shared, Grew
<1>2. /\ Sent \subseteq Sent' /\ MlsStates \subseteq MlsStates' /\ States \subseteq States'
      /\ Sealed \subseteq Sealed' /\ Offers \subseteq Offers'
  BY <1>1, GrownSets, LogKeeps DEF Grew
<1>3. Seq(Sent) \subseteq Seq(Sent') /\ Seq(Sealed) \subseteq Seq(Sealed')
      /\ Seq(Offers) \subseteq Seq(Offers') /\ 0..Len(log) \subseteq 0..Len(log')
  BY <1>1, <1>2, SeqGrows DEF Grew
<1>4. x \in [state : States', cursor : 0..Len(log'), messages : Seq(Sent'),
             pending : Seq(Sealed'), outbox : Seq(Offers'), waiting : BOOLEAN]
  BY <1>2, <1>3 DEF Fits
<1>5. ASSUME NEW id
      PROVE  (InLog(id) => InLog(id)') /\ (Recorded(id) => Recorded(id)')
  BY LogKeeps
<1>6. \A n \in 1..sends'[q] : Queued(x, <<q, n>>) \/ InLog(<<q, n>>)'
  BY <1>5 DEF Fits
<1>7. q = Host => Covers(x.state.id)'
  <2> SUFFICES ASSUME q = Host
               PROVE  Covers(x.state.id)'
    OBVIOUS
  <2>1. x.state.id \in 1..commits /\ Covers(x.state.id)
    BY DEF Fits, States, Shared
  <2>2. QED
    BY <2>1, CoversGoesOn DEF NoneBehind
<1>8. QED
  BY <1>4, <1>5, <1>6, <1>7 DEF Fits, Queued

LEMMA GrowStep ==
  ASSUME IInv, Grew, NEW p \in Sessions, \A q \in Sessions \ {p} : sends'[q] = sends[q],
         NoneBehind \/ p = Host,
         UNCHANGED <<requests, welcomes>>, accepted' \subseteq Guests,
         status' \in [Sessions -> {"connecting", "connected", "offline"}],
         faults' \in 0..MaxFaults,
         DOMAIN room' = Sessions, DOMAIN saved' = Sessions,
         \A q \in Sessions \ {p} : room'[q] = room[q] /\ saved'[q] = saved[q],
         Fits(p, room[p])', Fits(p, saved[p])',
         DOMAIN pc' = Sessions, DOMAIN todo' = Sessions,
         \A q \in Sessions \ {p} : pc'[q] = pc[q] /\ todo'[q] = todo[q],
         IF p = Host THEN pc'[p] \in HostLabels ELSE pc'[p] \in GuestLabels,
         pc'[p] \in Delivers => todo'[p] \in Seq(Offers') /\ todo'[p] # <<>>,
         pc'[p] = "admit" => todo'[p] \in Seq(Guests) /\ todo'[p] # <<>>
  PROVE  IInv'
<1>1. Shared /\ Len(log') \in Nat
  BY DEF IInv, Grew
<1>2. Offers \subseteq Offers'
  BY <1>1, LogKeeps
<1>3. Shared'
  <2>1. Seq(Offers) \subseteq Seq(Offers')
    BY <1>2, SeqGrows
  <2>2. commits' \in Nat \ {0}
    BY <1>1 DEF Shared, Grew
  <2>3. QED
    BY <1>1, <2>1, <2>2 DEF Shared, Grew
<1>4. \A q \in Sessions \ {p} : \A x : Fits(q, x) => Fits(q, x)'
  BY <1>1, FitsGrows DEF Grew
<1>5. AllFit'
  BY <1>4, OneRoom DEF IInv
<1>6. Places'
  BY <1>2, OnePlace DEF IInv
<1>7. QED
  BY <1>3, <1>5, <1>6 DEF IInv

LEMMA SendInv ==
  ASSUME IInv, NEW p \in Sessions, Send(p)
  PROVE  IInv'
<1> DEFINE id == <<p, sends[p] + 1>>
           sealed == [id |-> id, key |-> room[p].state.id]
           r == [room[p] EXCEPT !.messages = Append(@, id), !.pending = Append(@, sealed)]
<1>0. Fits(p, room[p]) /\ Shared
  BY Here DEF IInv
<1>1. Update(p, r) /\ Persist(p, r) /\ Begin(p, r)
  BY DEF Send
<1>2. sends' = [sends EXCEPT ![p] = @ + 1] /\ sends[p] < MaxSends /\ sends[p] \in Nat /\ MaxSends \in Nat
      /\ UNCHANGED <<log, requests, welcomes, status, commits, faults, lost>>
  BY <1>0, RoomAssumption DEF Send, coordinatorVars, historyVars, Shared
<1>3. /\ sends' \in [Sessions -> 0..MaxSends] /\ sends'[p] = sends[p] + 1
      /\ \A q \in Sessions : sends[q] <= sends'[q]
      /\ \A q \in Sessions \ {p} : sends'[q] = sends[q]
  BY <1>0, <1>2, RoomAssumption DEF Shared
<1>4. Len(log) \in Nat /\ Len(log') \in Nat /\ commits' \in Nat
  BY <1>0, <1>2 DEF Shared
<1>5. /\ Sent \subseteq Sent' /\ MlsStates \subseteq MlsStates' /\ States \subseteq States'
      /\ Messages \subseteq Messages' /\ Commits \subseteq Commits' /\ Sealed \subseteq Sealed'
  BY <1>0, <1>2, <1>3, <1>4, GrownSets DEF Shared
<1>5a. Offers' = Offers
  BY <1>2 DEF Offers, MlsStates, Recorded
<1>6. Grew
  <2>1. Seq(Messages \union Commits) \subseteq Seq((Messages \union Commits)')
    BY <1>5, SeqGrows
  <2>2. QED
    BY <1>0, <1>2, <1>3, <1>4, <2>1 DEF Grew, Shared
<1>7. id \in Sent' /\ id \notin Sent
  <2>1. id \in Ids
    BY <1>2 DEF Ids
  <2>2. id[1] = p /\ id[2] = sends[p] + 1
    OBVIOUS
  <2> HIDE DEF id
  <2>3. QED
    BY <1>2, <1>3, <2>1, <2>2 DEF Sent, Ids
<1>8. sealed \in Sealed'
  <2>1. room[p].state.id \in 1..commits
    BY <1>0 DEF Send, Fits, States, Shared
  <2>2. QED
    BY <1>2, <1>7, <2>1 DEF Sealed
<1>9. Seq(Sent) \subseteq Seq(Sent') /\ Seq(Sealed) \subseteq Seq(Sealed')
      /\ Seq(Offers) \subseteq Seq(Offers') /\ room[p].messages \in Seq(Sent)
      /\ room[p].pending \in Seq(Sealed) /\ room[p].outbox \in Seq(Offers)
  BY <1>0, <1>5, <1>5a, SeqGrows DEF Fits
<1>10. Append(room[p].messages, id) \in Seq(Sent') /\ IsInjective(Append(room[p].messages, id))
  <2> HIDE DEF id
  <2>1. \A i \in 1..Len(room[p].messages) : room[p].messages[i] # id
    BY <1>7, <1>9
  <2>2. room[p].messages \in Seq(Sent') /\ IsInjective(room[p].messages)
    BY <1>0, <1>9 DEF Fits
  <2>3. QED
    BY <1>7, <2>1, <2>2, AppendIsInjective
<1>11. /\ Append(room[p].pending, sealed) \in Seq(Sealed')
       /\ Len(Append(room[p].pending, sealed)) = Len(room[p].pending) + 1
       /\ Len(room[p].pending) \in Nat
       /\ Append(room[p].pending, sealed)[Len(room[p].pending) + 1] = sealed
       /\ \A i \in 1..Len(room[p].pending) :
            Append(room[p].pending, sealed)[i] = room[p].pending[i]
  <2> HIDE DEF sealed
  <2>1. room[p].pending \in Seq(Sealed')
    BY <1>9
  <2>2. QED
    BY <1>8, <2>1, AppendHas
<1>12. sealed.id = id
  OBVIOUS
<1>13. \A n \in 1..sends'[p] : Queued(r, <<p, n>>) \/ InLog(<<p, n>>)'
  <2>1. r.pending = Append(room[p].pending, sealed)
    BY <1>0 DEF Fits
  <2>2. \A x : InLog(x)' = InLog(x)
    BY <1>2 DEF InLog
  <2> HIDE DEF r, sealed
  <2>3. \A x : Queued(room[p], x) => Queued(r, x)
    BY <1>11, <2>1 DEF Queued
  <2>4. Queued(r, id)
    <3>1. Len(room[p].pending) + 1 \in 1..Len(r.pending)
      BY <1>11, <2>1
    <3>2. r.pending[Len(room[p].pending) + 1].id = id
      BY <1>11, <1>12, <2>1, Zenon
    <3>3. QED
      BY <3>1, <3>2, Zenon DEF Queued
  <2>5. \A n \in 1..sends'[p] : n \in 1..sends[p] \/ n = sends[p] + 1
    BY <1>2, <1>3
  <2>6. QED
    BY <1>0, <2>2, <2>3, <2>4, <2>5 DEF Fits
<1>14. r \in [state : States', cursor : 0..Len(log'), messages : Seq(Sent'),
              pending : Seq(Sealed'), outbox : Seq(Offers'), waiting : BOOLEAN]
       /\ r.messages = Append(room[p].messages, id) /\ r.state = room[p].state
       /\ r.waiting = room[p].waiting /\ r.outbox = room[p].outbox
  <2> HIDE DEF id, sealed
  <2>1. room[p] \in [state : States, cursor : 0..Len(log), messages : Seq(Sent),
                     pending : Seq(Sealed), outbox : Seq(Offers), waiting : BOOLEAN]
    BY <1>0 DEF Fits
  <2>2. QED
    BY <1>2, <1>5, <1>9, <1>10, <1>11, <2>1
<1> HIDE DEF r, id, sealed
<1>15. DOMAIN room = Sessions /\ DOMAIN saved = Sessions /\ DOMAIN pc = Sessions
       /\ DOMAIN todo = Sessions
  BY DEF IInv, AllFit, Places
<1>16. DOMAIN room' = Sessions /\ DOMAIN saved' = Sessions
       /\ room'[p] = r /\ saved'[p] = r
       /\ \A q \in Sessions \ {p} : room'[q] = room[q] /\ saved'[q] = saved[q]
  BY <1>1, <1>15 DEF Update, Persist
<1>17. ~r.waiting \/ p = Host => r.state.id # 0
  BY <1>0, <1>14 DEF Fits
<1>17a. NoneBehind
  BY <1>2 DEF NoneBehind
<1>18. Fits(p, room[p])' /\ Fits(p, saved[p])'
  <2>0. \A k : (Recorded(k) <=> Recorded(k)') /\ (Covers(k) <=> Covers(k)')
    BY <1>2 DEF Recorded, Covers, HasParents
  <2>1. /\ (p # Host /\ ~room[p].waiting => Recorded(room[p].state.id))'
        /\ (p = Host => Covers(room[p].state.id))'
    BY <1>0, <1>14, <1>16, <2>0 DEF Fits
  <2>2. /\ (p # Host /\ ~saved[p].waiting => Recorded(saved[p].state.id))'
        /\ (p = Host => Covers(saved[p].state.id))'
    BY <1>0, <1>14, <1>16, <2>0 DEF Fits
  <2>3. QED
    BY <1>10, <1>13, <1>14, <1>16, <1>17, <2>1, <2>2 DEF Fits, Queued
<1>19. DOMAIN pc' = Sessions /\ DOMAIN todo' = Sessions
       /\ \A q \in Sessions \ {p} : pc'[q] = pc[q] /\ todo'[q] = todo[q]
  BY <1>1, <1>15 DEF Begin, Goto, Todo
<1>21. status' \in [Sessions -> {"connecting", "connected", "offline"}] /\ faults' \in 0..MaxFaults
  BY <1>0, <1>2 DEF Shared
<1>22. CASE p = Host
  <2>1. todo'[p] = r.outbox /\ pc'[p] = (IF r.outbox = <<>> THEN "requests" ELSE "deliver")
    BY <1>1, <1>15, <1>22 DEF Begin, Goto, Todo
  <2>2. r.outbox \in Seq(Offers')
    BY <1>9, <1>14
  <2>3. pc'[p] \in HostLabels /\ pc'[p] # "admit"
        /\ (pc'[p] \in Delivers => todo'[p] \in Seq(Offers') /\ todo'[p] # <<>>)
    BY <2>1, <2>2 DEF HostLabels, Delivers
  <2>4. accepted' \subseteq Guests
    BY <1>1, <1>22 DEF Begin
  <2>5. QED
    BY <1>2, <1>3, <1>6, <1>16, <1>17a, <1>18, <1>19, <1>21, <1>22, <2>3, <2>4, GrowStep
<1>23. CASE p # Host
  <2>1. pc'[p] \in {"welcome", "pull", "flush"} /\ UNCHANGED accepted
    BY <1>1, <1>15, <1>23 DEF Begin, Goto
  <2>2. pc'[p] \in GuestLabels /\ pc'[p] # "admit" /\ pc'[p] \notin Delivers
    BY <2>1 DEF GuestLabels, Delivers
  <2>3. accepted' \subseteq Guests
    BY <1>0, <2>1 DEF Shared
  <2>4. QED
    BY <1>2, <1>3, <1>6, <1>16, <1>17a, <1>18, <1>19, <1>21, <1>23, <2>1, <2>2, <2>3, GrowStep
<1>24. QED
  BY <1>22, <1>23

\* A record appended to the log, or none.
LEMMA Posted ==
  ASSUME Shared, NEW e, e \in (Messages \union Commits)', log' \in {log, Append(log, e)},
         commits' \in Nat, commits <= commits',
         sends' \in [Sessions -> 0..MaxSends], \A q \in Sessions : sends[q] <= sends'[q]
  PROVE  /\ Grew
         /\ log' # log => Len(log') = Len(log) + 1 /\ log'[Len(log) + 1] = e
         /\ \A c \in 1..Len(log') : c \in 1..Len(log) \/ (c = Len(log) + 1 /\ log'[c] = e)
<1> DEFINE T == (Messages \union Commits)'
<1>1. Len(log) \in Nat /\ log \in Seq(Messages \union Commits)
  BY DEF Shared
<1>2. Len(Append(log, e)) = Len(log) + 1
  BY <1>1
<1>3. Len(log') \in Nat /\ Len(log) <= Len(log')
  BY <1>1, <1>2
<1>4. (Messages \union Commits) \subseteq T
  BY <1>3, GrownSets
<1>5. log \in Seq(T)
  BY <1>1, <1>4, SeqGrows
<1> HIDE DEF T
<1>6. /\ Append(log, e) \in Seq(T) /\ Append(log, e)[Len(log) + 1] = e
      /\ \A i \in 1..Len(log) : Append(log, e)[i] = log[i]
  BY <1>5, AppendHas DEF T
<1>7. log' \in Seq(T) /\ \A c \in 1..Len(log) : log'[c] = log[c]
  BY <1>5, <1>6
<1>8. Grew
  BY <1>3, <1>7 DEF Grew, T
<1>9. log' # log => Len(log') = Len(log) + 1 /\ log'[Len(log) + 1] = e
  BY <1>2, <1>6
<1>10. \A c \in 1..Len(log') : c \in 1..Len(log) \/ (c = Len(log) + 1 /\ log'[c] = e)
  BY <1>1, <1>9
<1>11. QED
  BY <1>8, <1>9, <1>10

LEMMA FlushPendingInv ==
  ASSUME IInv, NEW p \in Sessions, FlushPending(p)
  PROVE  IInv'
<1> DEFINE m == Head(room[p].pending)
           record == [by |-> p, key |-> m.key, id |-> m.id]
           r == [room[p] EXCEPT !.cursor = Larger(@, NextCursor), !.pending = Tail(@)]
<1>0. Fits(p, room[p]) /\ Fits(p, saved[p]) /\ Shared
  BY Here DEF IInv
<1>1. room[p].pending \in Seq(Sealed) /\ room[p].pending # <<>>
  BY <1>0 DEF Fits, FlushPending
<1>2. /\ m \in Sealed /\ m = room[p].pending[1] /\ Len(room[p].pending) \in Nat \ {0}
      /\ Tail(room[p].pending) \in Seq(Sealed)
      /\ Len(Tail(room[p].pending)) = Len(room[p].pending) - 1
      /\ \A i \in 1..(Len(room[p].pending) - 1) :
           Tail(room[p].pending)[i] = room[p].pending[i + 1]
  BY <1>1, TailHas
<1>3. m.id \in Sent /\ m.key \in 1..commits
  BY <1>2 DEF Sealed
<1> HIDE DEF m
<1>4. record \in Messages /\ record.id = m.id /\ ~IsCommit(record)
  BY <1>3 DEF Messages, IsCommit
<1>5. UNCHANGED <<requests, welcomes, todo, accepted, commits, sends, lost>>
      /\ log' \in {log, Append(log, record)}
  BY DEF FlushPending, historyVars, m
<1>6. Messages' = Messages /\ Commits' = Commits /\ Sent' = Sent /\ Sealed' = Sealed
      /\ States' = States /\ MlsStates' = MlsStates
  BY <1>5 DEF Messages, Commits, Sent, Sealed, States, MlsStates
<1>7. commits' \in Nat /\ commits <= commits' /\ sends' \in [Sessions -> 0..MaxSends]
      /\ \A q \in Sessions : sends[q] <= sends'[q] /\ sends'[q] = sends[q]
  BY <1>0, <1>5, RoomAssumption DEF Shared
<1> HIDE DEF record
<1>8. /\ Grew
      /\ log' # log => Len(log') = Len(log) + 1 /\ log'[Len(log) + 1] = record
      /\ \A c \in 1..Len(log') : c \in 1..Len(log) \/ (c = Len(log) + 1 /\ log'[c] = record)
  BY <1>0, <1>4, <1>5, <1>6, <1>7, Posted
<1>9. NoneBehind
  BY <1>4, <1>5, <1>8 DEF NoneBehind
<1>10. \A x : Fits(p, x) => Fits(p, x)'
  BY <1>0, <1>5, <1>8, <1>9, FitsGrows
<1>11. DOMAIN room = Sessions /\ DOMAIN saved = Sessions /\ DOMAIN pc = Sessions
       /\ DOMAIN todo = Sessions
  BY DEF IInv, AllFit, Places
<1>12. CASE log' = Append(log, record) /\ Update(p, r) /\ UNCHANGED <<saved, status, pc, faults>>
  <2>1. room'[p] = r /\ DOMAIN room' = Sessions /\ saved'[p] = saved[p]
        /\ DOMAIN saved' = Sessions /\ DOMAIN pc' = Sessions /\ DOMAIN todo' = Sessions
        /\ pc'[p] = "flush"
        /\ \A q \in Sessions \ {p} : /\ room'[q] = room[q] /\ saved'[q] = saved[q]
                                     /\ pc'[q] = pc[q] /\ todo'[q] = todo[q]
    BY <1>5, <1>11, <1>12 DEF Update, FlushPending
  <2>2. Len(log') = Len(log) + 1 /\ log'[Len(log) + 1] = record /\ Len(log) \in Nat
    <3>1. Len(log) \in Nat /\ log \in Seq(Messages \union Commits)
      BY <1>0 DEF Shared
    <3>2. Len(Append(log, record)) = Len(log) + 1
          /\ Append(log, record)[Len(log) + 1] = record
      BY <1>4, <3>1, AppendHas
    <3>3. QED
      BY <1>12, <3>1, <3>2
  <2>3. Fits(p, room[p])' /\ Fits(p, saved[p])'
    <3>1. Larger(room[p].cursor, NextCursor) \in 0..Len(log')
      BY <1>0, <2>2 DEF Larger, NextCursor, Fits
    <3>2. \A n \in 1..sends'[p] : Queued(r, <<p, n>>) \/ InLog(<<p, n>>)'
      <4>1. r.pending = Tail(room[p].pending)
        BY <1>0 DEF Fits
      <4>2. ASSUME NEW n \in 1..sends[p], Queued(room[p], <<p, n>>)
            PROVE  Queued(r, <<p, n>>) \/ InLog(<<p, n>>)'
        <5>1. PICK i \in 1..Len(room[p].pending) : room[p].pending[i].id = <<p, n>>
          BY <4>2 DEF Queued
        <5>2. CASE i = 1
          <6>1. record.id = <<p, n>> /\ ~IsCommit(record) /\ Len(log') \in DOMAIN log'
            BY <1>2, <1>4, <1>8, <2>2, <5>1, <5>2 DEF Grew
          <6>2. QED
            BY <2>2, <6>1 DEF InLog
        <5>3. CASE i # 1
          <6>1. i - 1 \in 1..(Len(room[p].pending) - 1) /\ (i - 1) + 1 = i
            BY <1>2, <5>3
          <6>2. QED
            BY <1>2, <4>1, <5>1, <6>1 DEF Queued
        <5>4. QED
          BY <5>2, <5>3
      <4>3. ASSUME NEW id, InLog(id)
            PROVE  InLog(id)'
        BY <1>0, <1>8, <4>3, LogKeeps
      <4>4. QED
        BY <1>0, <1>5, <4>2, <4>3 DEF Fits
    <3>3. Seq(Offers) \subseteq Seq(Offers')
      BY <1>0, <1>8, LogKeeps, SeqGrows
    <3>4. r \in [state : States', cursor : 0..Len(log'), messages : Seq(Sent'),
                 pending : Seq(Sealed'), outbox : Seq(Offers'), waiting : BOOLEAN]
          /\ r.messages = room[p].messages /\ r.state = room[p].state
          /\ r.waiting = room[p].waiting
      <4>1. room[p] \in [state : States, cursor : 0..Len(log), messages : Seq(Sent),
                         pending : Seq(Sealed), outbox : Seq(Offers), waiting : BOOLEAN]
        BY <1>0 DEF Fits
      <4>2. QED
        BY <1>2, <1>6, <3>1, <3>3, <4>1
    <3> HIDE DEF r
    <3>5. /\ (p # Host /\ ~room[p].waiting => Recorded(room[p].state.id))'
          /\ (p = Host => Covers(room[p].state.id))'
      <4>1. ASSUME NEW x, Fits(p, x)
            PROVE  /\ p # Host /\ ~x.waiting => Recorded(x.state.id)'
                   /\ p = Host => Covers(x.state.id)'
        <5>1. Fits(p, x)'
          BY <1>10, <4>1
        <5>2. QED
          BY <5>1 DEF Fits
      <4>2. QED
        BY <1>0, <2>1, <3>4, <4>1
    <3>5a. Fits(p, room[p])'
      BY <1>0, <1>5, <2>1, <3>2, <3>4, <3>5 DEF Fits, Queued
    <3>6. Fits(p, saved[p])'
      BY <1>0, <1>10, <2>1
    <3>7. QED
      BY <3>5a, <3>6
  <2>4. status' \in [Sessions -> {"connecting", "connected", "offline"}] /\ faults' \in 0..MaxFaults
    BY <1>0, <1>12 DEF Shared
  <2>5. pc'[p] \in GuestLabels \intersect HostLabels /\ pc'[p] \notin Delivers /\ pc'[p] # "admit"
    BY <2>1 DEF GuestLabels, HostLabels, Delivers
  <2>6. accepted' \subseteq Guests
    BY <1>0, <1>5 DEF Shared
  <2>7. QED
    BY <1>5, <1>7, <1>8, <1>9, <2>1, <2>3, <2>4, <2>5, <2>6, GrowStep
<1>13. CASE Lose /\ MarkServerOffline(p)
  <2>1. room'[p] = room[p] /\ DOMAIN room' = Sessions /\ saved'[p] \in {room[p], saved[p]}
        /\ DOMAIN saved' = Sessions /\ DOMAIN pc' = Sessions /\ DOMAIN todo' = Sessions
        /\ pc'[p] = "idle"
        /\ \A q \in Sessions \ {p} : /\ room'[q] = room[q] /\ saved'[q] = saved[q]
                                     /\ pc'[q] = pc[q] /\ todo'[q] = todo[q]
    BY <1>5, <1>11, <1>13 DEF MarkServerOffline, Persist, Goto
  <2>2. Fits(p, room[p])' /\ Fits(p, saved[p])'
    BY <1>0, <1>10, <2>1
  <2>3. status' \in [Sessions -> {"connecting", "connected", "offline"}] /\ faults' \in 0..MaxFaults
    BY <1>0, <1>13, FaultsStay DEF Shared, MarkServerOffline
  <2>4. pc'[p] \in GuestLabels \intersect HostLabels /\ pc'[p] \notin Delivers /\ pc'[p] # "admit"
    BY <2>1 DEF GuestLabels, HostLabels, Delivers
  <2>5. accepted' \subseteq Guests
    BY <1>0, <1>5 DEF Shared
  <2>6. QED
    BY <1>5, <1>7, <1>8, <1>9, <2>1, <2>2, <2>3, <2>4, <2>5, GrowStep
<1>14. QED
  BY <1>12, <1>13 DEF FlushPending, m, record

LEMMA AdmitInv ==
  ASSUME IInv, Admit
  PROVE  IInv'
<1> DEFINE g == Entry
           chosen == [id |-> commits + 1, members |-> room[Host].state.members \union {g}]
           commit == [by |-> Host, key |-> room[Host].state.id, commit |-> chosen]
           cursor == NextCursor
           offer == [guest |-> g, state |-> chosen, after |-> cursor]
           r == [Adopt(room[Host], chosen) EXCEPT
                   !.cursor = Larger(@, cursor), !.outbox = Append(@, offer)]
<1>0. Host \in Sessions /\ Fits(Host, room[Host]) /\ Fits(Host, saved[Host]) /\ Shared
      /\ Host \notin Guests
  BY Here DEF Sessions, IInv
<1>1. todo[Host] \in Seq(Guests) /\ todo[Host] # <<>>
  BY <1>0, Here DEF Admit
<1>2. g \in Guests /\ Tail(todo[Host]) \in Seq(Guests) /\ g \in Sessions
  BY <1>1, TailHas DEF Entry, Sessions
<1> HIDE DEF g
<1>3. DOMAIN room = Sessions /\ DOMAIN saved = Sessions /\ DOMAIN pc = Sessions
      /\ DOMAIN todo = Sessions
  BY DEF IInv, AllFit, Places
<1>4. UNCHANGED <<requests, welcomes, accepted, status, sends>>
      /\ Todo(Host, Tail(todo[Host])) /\ Delivering(Host, "admit", "outbox")
  BY DEF Admit
<1>5. DOMAIN pc' = Sessions /\ DOMAIN todo' = Sessions
      /\ \A q \in Sessions \ {Host} : pc'[q] = pc[q] /\ todo'[q] = todo[q]
  BY <1>0, <1>3, <1>4 DEF Todo, Goto, Delivering
<1>6. pc'[Host] \in HostLabels /\ pc'[Host] \notin Delivers
      /\ (pc'[Host] = "admit" => todo'[Host] \in Seq(Guests) /\ todo'[Host] # <<>>)
  <2>1. todo'[Host] \in Seq(Guests)
    BY <1>0, <1>2, <1>3, <1>4 DEF Todo
  <2>2. pc'[Host] = IF todo'[Host] # <<>> THEN "admit" ELSE "outbox"
    BY <1>0, <1>3, <1>4 DEF Goto, Delivering
  <2>3. QED
    BY <2>1, <2>2 DEF HostLabels, Delivers
<1>7. requests' \subseteq Guests /\ welcomes' \in Seq(Offers) /\ accepted' \subseteq Guests
      /\ status' \in [Sessions -> {"connecting", "connected", "offline"}]
  BY <1>0, <1>4 DEF Shared
<1>8. faults' \in 0..MaxFaults
  <2>1. UNCHANGED faults \/ Lose
    BY DEF Admit
  <2>2. QED
    BY <1>0, <2>1, FaultsStay
<1>9. CASE UNCHANGED <<log, room, saved, commits, faults, lost>>
  <2>1. Same /\ Fits(Host, room'[Host]) /\ Fits(Host, saved'[Host])
    BY <1>0, <1>4, <1>9 DEF Same
  <2>2. DOMAIN room' = Sessions /\ DOMAIN saved' = Sessions
        /\ \A q \in Sessions \ {Host} : room'[q] = room[q] /\ saved'[q] = saved[q]
    BY <1>3, <1>9
  <2>3. QED
    BY <1>0, <1>5, <1>6, <1>7, <1>8, <2>1, <2>2, SameStep
<1>10. CASE /\ commits' = commits + 1
            /\ \/ log' = Append(log, commit) /\ Update(Host, r) /\ Persist(Host, r) /\ UNCHANGED lost
               \/ /\ log' = Append(log, commit) /\ (Update(Host, r) \/ UNCHANGED room)
                  /\ lost' = lost \union {chosen.id} /\ UNCHANGED saved
               \/ UNCHANGED <<log, room, saved, lost>>
  <2>1. commits \in Nat /\ commits' \in Nat /\ commits <= commits' /\ commits' \in 1..commits'
        /\ Len(log) \in Nat
    BY <1>0, <1>10 DEF Shared
  <2>2. chosen \in MlsStates' /\ chosen \in States' /\ chosen.id = commits'
    <3>1. room[Host].state.members \subseteq Sessions
      BY <1>0 DEF Fits, States
    <3>2. QED
      BY <1>2, <1>10, <2>1, <3>1 DEF MlsStates, States
  <2>3. sends' \in [Sessions -> 0..MaxSends]
        /\ \A q \in Sessions : sends[q] <= sends'[q] /\ sends'[q] = sends[q]
    BY <1>0, <1>4, RoomAssumption DEF Shared
  <2>4. commit.commit = chosen /\ commit.key = room[Host].state.id /\ IsCommit(commit)
    BY DEF IsCommit
  <2>4a. /\ lost \subseteq lost'
         /\ \/ log' = Append(log, commit) /\ Update(Host, r) /\ Persist(Host, r)
            \/ /\ log' = Append(log, commit) /\ (Update(Host, r) \/ UNCHANGED room)
               /\ chosen.id \in lost' /\ UNCHANGED saved
            \/ UNCHANGED <<log, room, saved>>
    BY <1>10
  <2> HIDE DEF chosen
  <2>5. room[Host].state.id \in 0..commits
    BY <1>0 DEF Fits, States
  <2>6. room[Host].state.id # 0
    BY <1>0 DEF Fits
  <2>7. commit \in Commits'
    <3>1. room[Host].state.id \in 1..commits'
      BY <2>1, <2>5, <2>6
    <3>2. QED
      BY <2>2, <3>1 DEF Commits
  <2> HIDE DEF commit
  <2>8. log' \in {log, Append(log, commit)}
    BY <2>4a
  <2>9. /\ Grew
        /\ log' # log => Len(log') = Len(log) + 1 /\ log'[Len(log) + 1] = commit
        /\ \A c \in 1..Len(log') : c \in 1..Len(log) \/ (c = Len(log) + 1 /\ log'[c] = commit)
    BY <1>0, <2>1, <2>3, <2>7, <2>8, Posted
  <2>10. ASSUME log' = Append(log, commit), NEW x, x = r
         PROVE  Fits(Host, x)'
    <3>1. Len(log') = Len(log) + 1 /\ log'[Len(log) + 1] = commit
      <4>1. log \in Seq(Messages \union Commits) /\ Len(Append(log, commit)) = Len(log) + 1
        BY <1>0 DEF Shared
      <4>2. Len(log') # Len(log)
        BY <2>1, <2>10, <4>1
      <4>3. QED
        BY <2>9, <4>2
    <3>2. /\ Sent \subseteq Sent' /\ States \subseteq States' /\ Sealed \subseteq Sealed'
          /\ Offers \subseteq Offers' /\ MlsStates \subseteq MlsStates'
      BY <1>0, <2>1, <2>3, <2>9, GrownSets, LogKeeps DEF Grew
    <3>3. Seq(Sent) \subseteq Seq(Sent') /\ Seq(Sealed) \subseteq Seq(Sealed')
          /\ Seq(Offers) \subseteq Seq(Offers')
      BY <3>2, SeqGrows
    <3>4. offer \in Offers'
      <4>1. cursor \in 1..Len(log')
        BY <2>1, <3>1 DEF NextCursor
      <4>2. \A n : n = chosen.id => Recorded(n)'
        BY <2>1, <2>4, <3>1 DEF Recorded
      <4>3. QED
        BY <1>2, <2>2, <4>1, <4>2 DEF Offers
    <3>5. Larger(room[Host].cursor, cursor) \in 0..Len(log')
      BY <1>0, <2>1, <3>1 DEF Larger, NextCursor, Fits
    <3> HIDE DEF offer, cursor
    <3>6. Append(room[Host].outbox, offer) \in Seq(Offers')
      <4>1. room[Host].outbox \in Seq(Offers')
        BY <1>0, <3>3 DEF Fits
      <4>2. QED
        BY <3>4, <4>1, AppendHas
    <3>7. x \in [state : States', cursor : 0..Len(log'), messages : Seq(Sent'),
                 pending : Seq(Sealed'), outbox : Seq(Offers'), waiting : BOOLEAN]
          /\ x.messages = room[Host].messages /\ x.state = chosen
          /\ x.pending = room[Host].pending
      <4>1. room[Host] \in [state : States, cursor : 0..Len(log), messages : Seq(Sent),
                            pending : Seq(Sealed), outbox : Seq(Offers), waiting : BOOLEAN]
        BY <1>0 DEF Fits
      <4>2. QED
        BY <2>2, <2>10, <3>2, <3>3, <3>5, <3>6, <4>1 DEF Adopt
    <3>8. \A n \in 1..sends'[Host] : Queued(x, <<Host, n>>) \/ InLog(<<Host, n>>)'
      <4>1. ASSUME NEW id, InLog(id)
            PROVE  InLog(id)'
        BY <1>0, <2>9, <4>1, LogKeeps
      <4>2. QED
        BY <1>0, <1>4, <3>7, <4>1 DEF Fits, Queued
    <3>9. IsInjective(x.messages) /\ x.state.id = commits' /\ commits' # 0
      BY <1>0, <1>10, <2>1, <2>2, <3>7 DEF Fits
    <3>10. Covers(x.state.id)'
      <4>0. x.state.id = chosen.id
        BY <3>7
      <4>1. room[Host].state.id \in 1..commits /\ Covers(room[Host].state.id)
        BY <1>0, <2>1, <2>5, <2>6 DEF Fits
      <4>2. ASSUME NEW S \in SUBSET (1..commits'), x.state.id \in S, HasParents(S)'
            PROVE  /\ room[Host].state.id \in S
                   /\ \A c \in 1..Len(log') :
                        \/ c \in 1..Len(log)
                        \/ IsCommit(log'[c]) => log'[c].commit.id \in S \union lost'
        <5>1. Len(log) + 1 \in DOMAIN log'
          BY <2>1, <2>9, <3>1 DEF Grew
        <5>2. log'[Len(log) + 1].key \in S
          BY <2>4, <3>1, <4>0, <4>2, <5>1 DEF HasParents
        <5>3. QED
          BY <2>4, <2>9, <3>1, <4>0, <4>2, <5>2
      <4>3. QED
        BY <1>0, <2>4a, <2>9, <4>1, <4>2, CoversGoesOn
    <3>11. QED
      BY <3>7, <3>8, <3>9, <3>10 DEF Fits, Queued
  <2>11. ASSUME UNCHANGED log \/ chosen.id \in lost', NEW x, Fits(Host, x)
         PROVE  Fits(Host, x)'
    <3>1. NoneBehind
      BY <2>4, <2>4a, <2>9, <2>11 DEF NoneBehind
    <3>2. QED
      BY <1>0, <2>3, <2>9, <2>11, <3>1, FitsGrows
  <2> HIDE DEF r
  <2>12. /\ DOMAIN room' = Sessions /\ DOMAIN saved' = Sessions
         /\ \A q \in Sessions \ {Host} : room'[q] = room[q] /\ saved'[q] = saved[q]
         /\ \/ log' = Append(log, commit) /\ room'[Host] = r /\ saved'[Host] = r
            \/ /\ log' = Append(log, commit) /\ room'[Host] \in {r, room[Host]}
               /\ chosen.id \in lost' /\ saved'[Host] = saved[Host]
            \/ UNCHANGED log /\ room'[Host] = room[Host] /\ saved'[Host] = saved[Host]
    BY <1>0, <1>3, <2>4a DEF Update, Persist
  <2>13. Fits(Host, room[Host])' /\ Fits(Host, saved[Host])'
    BY <1>0, <2>10, <2>11, <2>12
  <2>14. QED
    BY <1>0, <1>4, <1>5, <1>6, <1>7, <1>8, <2>3, <2>9, <2>12, <2>13, GrowStep
<1>11. QED
  BY <1>9, <1>10 DEF Admit, g

-------------------------------------------------------------------------------
(* The theorems. *)

LEMMA IInvInit == Init => IInv
<1> SUFFICES ASSUME Init PROVE IInv
  OBVIOUS
<1>1. Host \in Sessions /\ Host \notin Guests /\ \A p \in Sessions : p # Host => p \in Guests
  BY RoomAssumption DEF Sessions
<1>2. Shared
  BY RoomAssumption DEF Init, Shared
<1>3. ASSUME NEW p \in Sessions
      PROVE  Fits(p, room[p]) /\ Fits(p, saved[p])
  <2>1. room[p] = NewRoom(p) /\ saved[p] = NewRoom(p) /\ sends[p] = 0 /\ commits = 1
        /\ log = <<>> /\ Len(log) = 0
    BY DEF Init
  <2>2. NewRoom(p).state \in States /\ 0 \in 0..Len(log)
        /\ (p = Host => NewRoom(p).state.id = 1 /\ NewRoom(p).waiting = FALSE)
        /\ (p # Host => NewRoom(p).waiting = TRUE)
    <3>1. Created \in States /\ NoState \in States /\ Created.id = 1
      BY <1>1, <2>1 DEF States, Created, NoState
    <3>2. /\ p = Host => NewRoom(p).state = Created /\ NewRoom(p).waiting = FALSE
          /\ p # Host => NewRoom(p).state = NoState /\ NewRoom(p).waiting = TRUE
      BY DEF NewRoom
    <3>3. QED
      BY <2>1, <3>1, <3>2
  <2>3. NewRoom(p) \in [state : States, cursor : 0..Len(log), messages : Seq(Sent),
                        pending : Seq(Sealed), outbox : Seq(Offers), waiting : BOOLEAN]
    BY <2>2 DEF NewRoom
  <2>4. IsInjective(NewRoom(p).messages)
    BY DEF NewRoom, IsInjective
  <2>4a. Covers(NewRoom(p).state.id)
    BY <2>1 DEF Covers
  <2>5. Fits(p, NewRoom(p))
    BY <2>1, <2>2, <2>3, <2>4, <2>4a DEF Fits
  <2>6. QED
    BY <2>1, <2>5
<1>4. AllFit
  BY <1>3 DEF Init, AllFit
<1>5. Places
  BY <1>1 DEF Init, Places, HostLabels, GuestLabels, Delivers, Sessions
<1>7. QED
  BY <1>2, <1>4, <1>5 DEF IInv

LEMMA IInvStep == IInv /\ [Next]_vars => IInv'
<1> SUFFICES ASSUME IInv, [Next]_vars PROVE IInv'
  OBVIOUS
<1>1. ASSUME NEW p \in Sessions, Step(p)
      PROVE  IInv'
  BY <1>1, SyncInv, FetchWelcomesInv, AckWelcomeInv, FlushPendingInv, FlushedInv, PullMessagesInv
     DEF Step
<1>2. ASSUME NEW p \in Sessions, Send(p) \/ Crash(p) \/ RequestToJoin(p)
      PROVE  IInv'
  BY <1>2, SendInv, CrashInv, RequestInv
<1>3. CASE HostStep
  BY <1>3, StoreWelcomeInv, AckRequestsInv, FetchJoinRequestsInv, AdmitInv, AcceptedRequestsInv
     DEF HostStep
<1>4. CASE UNCHANGED vars
  <2>1. Same /\ UNCHANGED <<requests, welcomes, room, saved, status, pc, todo, accepted, faults>>
    BY <1>4 DEF vars, coordinatorVars, sessionVars, historyVars, Same
  <2>2. Shared' /\ AllFit' /\ Places'
    BY <2>1, SameFits DEF IInv, Shared, AllFit, Places, Same
  <2>3. QED
    BY <2>1, <2>2, SameFits DEF IInv
<1>5. QED
  BY <1>1, <1>2, <1>3, <1>4 DEF Next

\* Every room, in memory and stored, the log and the welcomes hold what the code
\* puts there: no cursor is past the log, no record names a state not made yet.
THEOREM RoomTypes == Spec => []TypeOK
<1>1. IInv => TypeOK
  <2> SUFFICES ASSUME IInv PROVE TypeOK
    OBVIOUS
  <2>1. Sent \subseteq Ids /\ MlsStates \subseteq States
    BY DEF Sent, MlsStates, States, IInv, Shared
  <2>2. Sealed \subseteq [id : Ids, key : 1..commits] /\ Offers \subseteq Welcomes
    BY <2>1 DEF Sealed, Offers, Welcomes
  <2>3. Seq(Sent) \subseteq Seq(Ids) /\ Seq(Offers) \subseteq Seq(Welcomes)
        /\ Seq(Sealed) \subseteq Seq([id : Ids, key : 1..commits])
    BY <2>1, <2>2, SeqGrows
  <2>4. \A p \in Sessions : {room[p], saved[p]} \subseteq StoredRoom
    <3>1. ASSUME NEW p \in Sessions, NEW x, Fits(p, x)
          PROVE  x \in StoredRoom
      BY <2>3, <3>1 DEF Fits, StoredRoom
    <3>2. QED
      BY <3>1 DEF IInv, AllFit
  <2>5. \A c \in DOMAIN log :
          \/ log[c] \in [by : Sessions, key : 1..commits, id : Ids]
          \/ log[c] \in [by : {Host}, key : 1..commits, commit : States]
    <3>1. \A c \in DOMAIN log : log[c] \in Messages \union Commits
      BY DEF IInv, Shared
    <3>2. Messages \subseteq [by : Sessions, key : 1..commits, id : Ids]
          /\ Commits \subseteq [by : {Host}, key : 1..commits, commit : States]
      BY <2>1 DEF Messages, Commits
    <3>3. QED
      BY <3>1, <3>2
  <2>6. QED
    BY <2>3, <2>4, <2>5 DEF TypeOK, IInv, Shared
<1>2. QED
  BY <1>1, IInvInit, IInvStep, PTL DEF Spec

\* Whatever calls and answers are lost, on either side of the coordinator, and
\* wherever a page dies and comes back with its stored room: a message that was sent is
\* still queued or in the log, and no session shows a message twice.
THEOREM MessagesAreExactlyOnce == Spec => []ExactlyOnce
<1>1. IInv => ExactlyOnce
  <2> SUFFICES ASSUME IInv PROVE ExactlyOnce
    OBVIOUS
  <2>1. ASSUME NEW p \in Sessions, NEW n \in 1..sends[p]
        PROVE  IsId(p, <<p, n>>) \/ InLog(<<p, n>>)
    <3>1. Queued(saved[p], <<p, n>>) \/ InLog(<<p, n>>)
      BY DEF IInv, AllFit, Fits
    <3>2. DOMAIN saved[p].pending = 1..Len(saved[p].pending)
      BY DEF IInv, AllFit, Fits
    <3>3. QED
      BY <3>1, <3>2 DEF Queued, IsId, ToSet
  <2>2. \A p \in Sessions : IsInjective(room[p].messages)
    BY DEF IInv, AllFit, Fits
  <2>3. QED
    BY <2>1, <2>2 DEF ExactlyOnce, SentIsKept, ShownOnce
<1>2. QED
  BY <1>1, IInvInit, IInvStep, PTL DEF Spec

\* Whatever calls, answers and saves are lost and wherever pages die: a member whose state
\* is not one the host has been at is at a state whose commit the coordinator recorded while
\* the host lost the answer, or the save that was to keep it (acceptJoinRequests).  Nothing
\* else makes two members follow different commits.
THEOREM MembersFollowTheHost == Spec => []EveryoneFollowsHost
<1>1. IInv => EveryoneFollowsHost
  <2> SUFFICES ASSUME IInv, NEW p \in Sessions, ~room[p].waiting
               PROVE  room[p].state.id \in lost \union HostChain
    BY DEF EveryoneFollowsHost
  <2> DEFINE id == room[p].state.id
             h == room[Host].state.id
  <2>1. Fits(p, room[p]) /\ Fits(Host, room[Host]) /\ commits \in Nat
    BY Here DEF Sessions, IInv, Shared
  <2>2. id \in 1..commits /\ h \in 1..commits /\ Covers(h)
    BY <2>1 DEF Fits, States
  <2>3. CASE p = Host
    BY <2>2, <2>3 DEF HostChain
  <2>4. CASE p # Host /\ id \notin lost
    <3>1. PICK c \in 1..Len(log) : IsCommit(log[c]) /\ log[c].commit.id = id
      BY <2>1, <2>4 DEF Fits, Recorded
    <3>2. ASSUME NEW S \in SUBSET ((1..commits) \ {id}), h \in S, HasParents(S)
          PROVE  FALSE
      <4>1. S \in SUBSET (1..commits) /\ id \notin S
        OBVIOUS
      <4>2. log[c].commit.id \in S \union lost
        BY <2>2, <3>1, <3>2, <4>1 DEF Covers
      <4>3. QED
        BY <2>4, <3>1, <4>1, <4>2
    <3>3. QED
      BY <2>2, <3>2 DEF HostChain
  <2>5. QED
    BY <2>3, <2>4
<1>2. QED
  BY <1>1, IInvInit, IInvStep, PTL DEF Spec

-----------------------------------------------------------------------------
(* Workspace: the order of the side bar.                                   *)

LEMMA EnumeratedRooms ==
  ASSUME NEW S \in SUBSET Rooms
  PROVE  SetToSeq(S) \in Seq(Rooms) /\ Elements(SetToSeq(S)) \subseteq S
<1>1. IsFiniteSet(S)
  BY CacheAssumption, FS_Subset DEF Rooms
<1>2. Cardinality(S) \in Nat /\ \E f \in [1..Cardinality(S) -> S] : IsInjective(f)
  BY <1>1, FS_CardinalityType DEF ExistsBijection, Bijection, Injection
<1>3. SetToSeq(S) \in [1..Cardinality(S) -> S]
  BY <1>2 DEF SetToSeq
<1>4. ASSUME NEW n \in Nat, NEW f \in [1..n -> S]
      PROVE  f \in Seq(Rooms) /\ Elements(f) \subseteq S
  <2>1. f \in Seq(Rooms) /\ Len(f) = n
    BY <1>4
  <2>2. QED
    BY <1>4, <2>1 DEF Elements
<1>5. QED
  BY <1>2, <1>3, <1>4

LEMMA OrderedRooms ==
  ASSUME NEW before \in Seq(Rooms), NEW active \in SUBSET Rooms
  PROVE  Ordered(before, active) \in Seq(Rooms) /\ Elements(Ordered(before, active)) \subseteq active
<1> DEFINE s == Only(before, active)
           t == SetToSeq(active \ ToSet(before))
<1>1. s \in Seq(Rooms) /\ Elements(s) \subseteq active
  BY OnlyKeeps
<1>2. t \in Seq(Rooms) /\ Elements(t) \subseteq active
  BY EnumeratedRooms
<1>3. Ordered(before, active) = s \o t
  BY DEF Ordered
<1> HIDE DEF s, t
<1>4. /\ s \o t \in Seq(Rooms) /\ Len(s \o t) = Len(s) + Len(t) /\ Len(s) \in Nat /\ Len(t) \in Nat
      /\ \A i \in 1..Len(s) : (s \o t)[i] = s[i]
      /\ \A i \in (Len(s) + 1)..(Len(s) + Len(t)) : (s \o t)[i] = t[i - Len(s)]
  BY <1>1, <1>2
<1>5. ASSUME NEW i \in 1..(Len(s) + Len(t))
      PROVE  (s \o t)[i] \in active
  <2>1. CASE i \in 1..Len(s)
    BY <1>1, <1>4, <2>1 DEF Elements
  <2>2. CASE i \in (Len(s) + 1)..(Len(s) + Len(t))
    <3>1. i - Len(s) \in 1..Len(t)
      BY <1>4, <2>2
    <3>2. QED
      BY <1>2, <1>4, <2>2, <3>1 DEF Elements
  <2>3. QED
    BY <1>4, <1>5, <2>1, <2>2
<1>6. QED
  BY <1>3, <1>4, <1>5 DEF Elements

-----------------------------------------------------------------------------
(* The inductive invariant.                                                *)

\* A session that is in use has a room.
Kinds ==
  {k \in [room : Rooms \union {NoRoom}, busy : BOOLEAN, opening : BOOLEAN,
          state : {"unused", "new", "live", "recovering", "stopped", "discarded"}] :
     k.busy \/ k.state # "unused" => k.room \in Rooms}

Records == {"absent", "active", "retired"}
RouteStates == {"closed", "signing", "joining", "abandoned", "attaching", "attached", "disposed"}

\* What is shown is stored, and what was removed and is not stored is in the history.
CacheInv ==
  /\ current \in [Rooms -> Records]
  /\ DOMAIN history = Rooms
  /\ order \in Seq(Rooms)
  /\ \A r \in Elements(order) : current[r] # "absent"
  /\ removed \subseteq Rooms
  /\ RemovedIsRemembered

\* The pointers to sessions.
Pointers ==
  /\ sessions \in [SessionIds -> Kinds]
  /\ mapped \in [Hosted -> SessionIds \union {None}]
  /\ {session, candidate, routeSession} \subseteq SessionIds \union {None}
  /\ hosting \in {"idle", "starting", "recovering", "exhausted", "running"}
  /\ listed \subseteq Hosted /\ recovered \subseteq Hosted
  /\ shown \in Hosted \union {NoRoom}

\* The candidate recovers a room that is still to be recovered.
CandidateInv ==
  candidate # None =>
    /\ hosting = "recovering"
    /\ sessions[candidate].state = "recovering"
    /\ sessions[candidate].room \in listed \ recovered

\* The route has a session while it is attached.
RouteInv ==
  /\ route \in [room : Joined \union {NoRoom}, state : RouteStates]
  /\ route.state # "closed" => route.room \in Joined
  /\ routeSession # None => /\ route.state = "attached"
                            /\ sessions[routeSession].room \in Joined
                            /\ sessions[routeSession].state # "unused"

\* A session that polls is the one its room is known by.
LiveInv ==
  \A s \in SessionIds : sessions[s].state = "live" =>
    \/ sessions[s].room \in Hosted /\ mapped[sessions[s].room] = s
    \/ sessions[s].room \in Joined /\ routeSession = s

SessionsInv == Pointers /\ CandidateInv /\ RouteInv /\ LiveInv
WorkspaceInv == CacheInv /\ SessionsInv

-----------------------------------------------------------------------------
(* What steps do to the stored rooms.                                      *)

\* Rooms are stored, reconciled, and only a removal takes one away.
LEMMA ReconciledCache ==
  ASSUME CacheInv, NEW R \in SUBSET Rooms, NEW before,
         current' \in [Rooms -> Records],
         Reconcile(before), DOMAIN before = Rooms,
         removed' \subseteq removed \union R,
         \A r \in R : before[r] # "none",
         \A r \in Rooms \ R : before[r] = history[r],
         \A r \in Rooms \ R : current'[r] = "absent" => current[r] = "absent"
  PROVE  CacheInv'
<1>1. order' = Ordered(order, Active') /\ history' = History(before)
  BY DEF Reconcile
<1>2. Active' \in SUBSET Rooms /\ order \in Seq(Rooms) /\ removed \subseteq Rooms
  BY DEF Active, CacheInv
<1>3. order' \in Seq(Rooms) /\ Elements(order') \subseteq Active'
  BY <1>1, <1>2, OrderedRooms
<1>4. \A r \in Active' : current'[r] # "absent"
  BY DEF Active
<1>5. \A r \in Elements(order)' : current'[r] # "absent"
  <2>1. Elements(order)' = Elements(order')
    BY DEF Elements
  <2>2. QED
    BY <1>3, <1>4, <2>1
<1>6. ASSUME NEW r \in removed', current'[r] = "absent"
      PROVE  history'[r] # "none"
  <2>1. r \in Rooms
    BY <1>2
  <2>2. history'[r] = before[r]
    BY <1>1, <1>6, <2>1 DEF History
  <2>3. CASE r \in R
    BY <2>2, <2>3
  <2>4. CASE r \notin R
    <3>1. r \in removed /\ current[r] = "absent" /\ before[r] = history[r]
      BY <1>6, <2>1, <2>4
    <3>2. QED
      BY <2>2, <3>1 DEF CacheInv, RemovedIsRemembered
  <2>5. QED
    BY <2>3, <2>4
<1>7. DOMAIN history' = Rooms
  BY <1>1 DEF History
<1>8. QED
  BY <1>2, <1>3, <1>5, <1>6, <1>7 DEF CacheInv, RemovedIsRemembered

LEMMA SavedCache ==
  ASSUME CacheInv, NEW r \in Rooms, SaveRoom(r), Reconcile(history),
         removed' \subseteq removed
  PROVE  CacheInv'
<1>1. current \in [Rooms -> Records] /\ DOMAIN history = Rooms
  BY DEF CacheInv
<1>2. current' \in [Rooms -> Records]
      /\ \A q \in Rooms : current'[q] = "absent" => current[q] = "absent"
  BY <1>1 DEF SaveRoom, Records
<1>3. /\ {} \in SUBSET Rooms /\ removed' \subseteq removed \union {}
      /\ \A q \in {} : history[q] # "none"
      /\ \A q \in Rooms \ {} : history[q] = history[q] /\ (current'[q] = "absent" => current[q] = "absent")
  BY <1>2
<1>4. QED
  BY <1>1, <1>2, <1>3, ReconciledCache

LEMMA RemovedCache ==
  ASSUME CacheInv, NEW r \in Rooms, NEW reason, reason # "none", current[r] # "absent",
         RemoveStored({r}), Reconcile(Archived({r}, reason)),
         removed' = removed \union {r}
  PROVE  CacheInv'
<1>1. current \in [Rooms -> Records]
  BY DEF CacheInv
<1>2. current' \in [Rooms -> Records]
      /\ \A q \in Rooms \ {r} : current'[q] = "absent" => current[q] = "absent"
  BY <1>1 DEF RemoveStored, Records
<1>3. /\ DOMAIN Archived({r}, reason) = Rooms
      /\ Archived({r}, reason)[r] = reason
      /\ \A q \in Rooms \ {r} : Archived({r}, reason)[q] = history[q]
  BY DEF Archived
<1>4. \A q \in {r} : Archived({r}, reason)[q] # "none"
  BY <1>3
<1>5. QED
  BY <1>2, <1>3, <1>4, ReconciledCache

LEMMA SameCache ==
  ASSUME CacheInv, current' = current, order' = order, history' = history,
         removed' \subseteq removed
  PROVE  CacheInv'
BY DEF CacheInv, RemovedIsRemembered, Elements

-----------------------------------------------------------------------------
(* What steps do to the sessions.                                          *)

LEMMA SetSessionsMeans ==
  ASSUME NEW ss \in [SessionIds -> Kinds], SetSessions(ss)
  PROVE  /\ sessions' \in [SessionIds -> Kinds]
         /\ \A s \in SessionIds : sessions'[s] = ss[s] \/ sessions'[s] = Unused
         /\ \A s \in SessionIds : s \in Reachable \/ ss[s].state = "live" => sessions'[s] = ss[s]
<1>1. Unused \in Kinds
  BY DEF Unused, Kinds
<1>2. sessions' = Collected(ss, Reachable)
  BY DEF SetSessions
<1>3. \A s \in SessionIds :
        /\ sessions'[s] = ss[s] \/ sessions'[s] = Unused
        /\ s \in Reachable \/ ss[s].state = "live" => sessions'[s] = ss[s]
  BY <1>2 DEF Collected
<1>4. DOMAIN sessions' = SessionIds /\ sessions' = [s \in SessionIds |-> sessions'[s]]
  BY <1>2 DEF Collected
<1>5. \A s \in SessionIds : sessions'[s] \in Kinds
  BY <1>1, <1>3
<1>6. QED
  BY <1>3, <1>4, <1>5

LEMMA UnusedFacts == Unused.state = "unused" /\ Unused.room = NoRoom
BY DEF Unused

\* stop() and discard() change nothing but the state, and never to live.
LEMMA StoppedMeans ==
  ASSUME NEW ss \in [SessionIds -> Kinds], NEW S
  PROVE  /\ Stopped(ss, S) \in [SessionIds -> Kinds]
         /\ \A s \in SessionIds :
              /\ s \notin S => Stopped(ss, S)[s] = ss[s]
              /\ Stopped(ss, S)[s].room = ss[s].room
              /\ Stopped(ss, S)[s].state = "unused" <=> ss[s].state = "unused"
              /\ s \in S => Stopped(ss, S)[s].state # "live"
              /\ Stopped(ss, S)[s].state = "live" => ss[s].state = "live"
BY DEF Stopped, Kinds

LEMMA DiscardedMeans ==
  ASSUME NEW ss \in [SessionIds -> Kinds], NEW S
  PROVE  /\ Discarded(ss, S) \in [SessionIds -> Kinds]
         /\ \A s \in SessionIds :
              /\ s \notin S => Discarded(ss, S)[s] = ss[s]
              /\ Discarded(ss, S)[s].room = ss[s].room
              /\ Discarded(ss, S)[s].state = "unused" <=> ss[s].state = "unused"
              /\ s \in S => Discarded(ss, S)[s].state # "live"
              /\ Discarded(ss, S)[s].state = "live" => ss[s].state = "live"
BY DEF Discarded, Kinds

\* s does not become live, or is used no more.
Aged(ss, s) ==
  ss[s].state = "live" => sessions[s].state = "live" /\ ss[s].room = sessions[s].room

\* The room of a session that stays live is still known by it.
Known ==
  \A s \in SessionIds : sessions'[s].state = "live" =>
    /\ sessions[s].room \in Hosted => mapped'[sessions[s].room] = mapped[sessions[s].room]
    /\ sessions[s].room \in Joined => routeSession' = routeSession

LEMMA AgedLive ==
  ASSUME LiveInv, \A s \in SessionIds : Aged(sessions', s), Known
  PROVE  LiveInv'
BY DEF LiveInv, Aged, Known

\* A step that leaves the sessions alone.
LEMMA SameSessions ==
  ASSUME SessionsInv, sessions' = sessions, mapped' = mapped, session' = session,
         shown' = shown, routeSession' = routeSession, route' = route, candidate' = candidate,
         hosting' \in {"idle", "starting", "recovering", "exhausted", "running"},
         listed' \subseteq Hosted, recovered' \subseteq Hosted,
         candidate # None => hosting' = "recovering" /\ listed' = listed /\ recovered' = recovered
  PROVE  SessionsInv'
BY DEF SessionsInv, Pointers, CandidateInv, RouteInv, LiveInv

-----------------------------------------------------------------------------
(* The coordinator.                                                        *)

LEMMA WorkspaceInitInv == WorkspaceInit => WorkspaceInv
<1> SUFFICES ASSUME WorkspaceInit PROVE WorkspaceInv
  OBVIOUS
<1>1. CacheInv
  BY DEF WorkspaceInit, CacheInit, CacheInv, Records, RemovedIsRemembered, Elements
<1>2. None \notin SessionIds /\ Unused \in Kinds
  BY WorkspaceAssumption DEF None, SessionIds, Unused, Kinds
<1>3. Pointers /\ CandidateInv
  BY <1>2 DEF WorkspaceInit, Pointers, CandidateInv
<1>4. RouteInv /\ LiveInv
  BY UnusedFacts DEF WorkspaceInit, RouteInv, LiveInv, Closed, RouteStates
<1>5. QED
  BY <1>1, <1>3, <1>4 DEF WorkspaceInv, SessionsInv

LEMMA MountInv ==
  ASSUME WorkspaceInv, Mount
  PROVE  WorkspaceInv'
<1>1. CacheInv /\ SessionsInv /\ DOMAIN history = Rooms
  BY DEF WorkspaceInv, CacheInv
<1>2. /\ current' \in [Rooms -> Records]
      /\ \A q \in Rooms : current'[q] = "absent" => current[q] = "absent"
  BY <1>1 DEF Mount, Migrate, CacheInv, Records
<1>3. /\ {} \in SUBSET Rooms /\ removed' \subseteq removed \union {} /\ Reconcile(history)
      /\ \A q \in {} : history[q] # "none"
      /\ \A q \in Rooms \ {} : history[q] = history[q] /\ (current'[q] = "absent" => current[q] = "absent")
  BY <1>2 DEF Mount, counted
<1>4. CacheInv'
  BY <1>1, <1>2, <1>3, ReconciledCache
<1>5. SessionsInv'
  BY <1>1, SameSessions DEF Mount, recoveryVars, shownVars, routeVars, SessionsInv, Pointers, CandidateInv
<1>6. QED
  BY <1>4, <1>5 DEF WorkspaceInv

LEMMA ReloadInv ==
  ASSUME WorkspaceInv, Reload
  PROVE  WorkspaceInv'
<1>1. CacheInv /\ SessionsInv
  BY DEF WorkspaceInv
<1>2. CacheInv'
  BY <1>1, SameCache DEF Reload, cacheVars
<1>3. None \notin SessionIds /\ Unused \in Kinds
  BY WorkspaceAssumption DEF None, SessionIds, Unused, Kinds
<1>4. Pointers' /\ CandidateInv'
  BY <1>3 DEF Reload, Pointers, CandidateInv
<1>5. RouteInv' /\ LiveInv'
  BY UnusedFacts DEF Reload, RouteInv, LiveInv, Closed, RouteStates
<1>6. QED
  BY <1>2, <1>4, <1>5 DEF WorkspaceInv, SessionsInv

\* Steps of the coordinator that touch neither a session nor a room.
LEMMA HostingInv ==
  ASSUME WorkspaceInv, Start \/ ListTargets \/ Recovered \/ Retry
  PROVE  WorkspaceInv'
<1>1. CacheInv /\ SessionsInv
  BY DEF WorkspaceInv
<1>2. CacheInv'
  BY <1>1, SameCache DEF Start, ListTargets, Recovered, Retry, cacheVars, counted
<1>3. /\ sessions' = sessions /\ mapped' = mapped /\ session' = session
      /\ shown' = shown /\ routeSession' = routeSession /\ route' = route
      /\ candidate' = candidate
  BY DEF Start, ListTargets, Recovered, Retry, shownVars, routeVars
<1>4. /\ hosting' \in {"idle", "starting", "recovering", "exhausted", "running"}
      /\ listed' \subseteq Hosted /\ recovered' \subseteq Hosted
  BY <1>1 DEF Start, ListTargets, Recovered, Retry, Targets, SessionsInv, Pointers
<1>5. candidate = None
  BY <1>1 DEF Start, ListTargets, Recovered, Retry, SessionsInv, CandidateInv
<1>6. SessionsInv'
  BY <1>1, <1>3, <1>4, <1>5, SameSessions
<1>7. QED
  BY <1>2, <1>6 DEF WorkspaceInv

LEMMA FreshMeans ==
  ASSUME SessionsInv, NEW s \in SessionIds, Fresh(s)
  PROVE  sessions[s].state = "unused" /\ s # candidate /\ s # routeSession
BY WorkspaceAssumption DEF Fresh, SessionsInv, Pointers, CandidateInv, RouteInv, SessionIds, None

LEMMA RecoverBeginInv ==
  ASSUME WorkspaceInv, NEW r \in Hosted, NEW s \in SessionIds, RecoverBegin(r, s)
  PROVE  WorkspaceInv'
<1> DEFINE ss == Recovering(sessions, s, r)
<1>1. CacheInv /\ SessionsInv /\ None \notin SessionIds
  BY WorkspaceAssumption DEF WorkspaceInv, None, SessionIds
<1>2. CacheInv'
  BY <1>1, SameCache DEF RecoverBegin, cacheVars, counted
<1>3. sessions[s].state = "unused" /\ s # routeSession
  BY <1>1, FreshMeans DEF RecoverBegin
<1>4. /\ ss \in [SessionIds -> Kinds] /\ ss[s].state = "recovering" /\ ss[s].room = r
      /\ \A q \in SessionIds \ {s} : ss[q] = sessions[q]
  BY <1>1 DEF Recovering, Made, Kinds, SessionsInv, Pointers, Rooms
<1>5. SetSessions(ss) /\ candidate' = s /\ hosting = "recovering" /\ r \in listed \ recovered
      /\ UNCHANGED <<recoveryVars, mapped, shown, session, routeVars>>
  BY DEF RecoverBegin
<1> HIDE DEF ss
<1>6. /\ sessions' \in [SessionIds -> Kinds]
      /\ \A q \in SessionIds : sessions'[q] = ss[q] \/ sessions'[q] = Unused
      /\ \A q \in SessionIds : q \in Reachable \/ ss[q].state = "live" => sessions'[q] = ss[q]
  BY <1>4, <1>5, SetSessionsMeans
<1>7. s \in Reachable /\ routeSession \in Reachable
  BY <1>5 DEF Reachable, routeVars
<1>8. Pointers' /\ CandidateInv'
  BY <1>1, <1>4, <1>5, <1>6, <1>7 DEF SessionsInv, Pointers, CandidateInv, recoveryVars, routeVars
<1>9. RouteInv'
  BY <1>1, <1>3, <1>4, <1>5, <1>6, <1>7 DEF SessionsInv, Pointers, RouteInv, routeVars
<1>10. LiveInv'
  <2>1. \A q \in SessionIds : Aged(sessions', q)
    BY <1>4, <1>6, UnusedFacts DEF Aged
  <2>2. Known
    BY <1>5 DEF Known, routeVars
  <2>3. QED
    BY <1>1, <2>1, <2>2, AgedLive DEF SessionsInv
<1>11. QED
  BY <1>2, <1>8, <1>9, <1>10 DEF WorkspaceInv, SessionsInv

LEMMA RecoverEndInv ==
  ASSUME WorkspaceInv, RecoverEnd
  PROVE  WorkspaceInv'
<1> DEFINE r == sessions[candidate].room
           st == Stopped(sessions, {mapped[r]})
           ss == RecoveredOnce(st, candidate)
<1>1. CacheInv /\ SessionsInv /\ None \notin SessionIds
  BY WorkspaceAssumption DEF WorkspaceInv, None, SessionIds
<1>2. /\ candidate # None /\ candidate \in SessionIds /\ r \in Hosted /\ r \in Rooms
      /\ sessions[candidate].state = "recovering" /\ sessions \in [SessionIds -> Kinds]
  BY <1>1 DEF RecoverEnd, SessionsInv, Pointers, CandidateInv, Rooms
<1>3. /\ SaveRoom(r) /\ Reconcile(history) /\ removed' = removed
      /\ mapped' = [mapped EXCEPT ![r] = candidate]
      /\ shown' \in {shown, r} /\ session' \in {session, candidate}
      /\ recovered' = recovered \union {r} /\ candidate' = None
      /\ UNCHANGED <<hosting, listed, route, routeSession>>
      /\ SetSessions(ss)
  BY DEF RecoverEnd, counted, routeVars
<1>4. CacheInv'
  BY <1>1, <1>2, <1>3, SavedCache
<1>5. /\ st \in [SessionIds -> Kinds]
      /\ \A s \in SessionIds :
           /\ s # mapped[r] => st[s] = sessions[s]
           /\ st[s].room = sessions[s].room
           /\ st[s].state = "unused" <=> sessions[s].state = "unused"
           /\ s = mapped[r] => st[s].state # "live"
           /\ st[s].state = "live" => sessions[s].state = "live"
  BY <1>2, StoppedMeans
<1> HIDE DEF r, st
<1>6. /\ ss \in [SessionIds -> Kinds] /\ ss[candidate].room = r /\ ss[candidate].state = "live"
      /\ \A s \in SessionIds \ {candidate} : ss[s] = st[s]
  BY <1>2, <1>5 DEF RecoveredOnce, Made, Kinds, r
<1> HIDE DEF ss
<1>7. /\ sessions' \in [SessionIds -> Kinds]
      /\ \A q \in SessionIds : sessions'[q] = ss[q] \/ sessions'[q] = Unused
      /\ \A q \in SessionIds : q \in Reachable \/ ss[q].state = "live" => sessions'[q] = ss[q]
  BY <1>3, <1>6, SetSessionsMeans
<1>8. Pointers' /\ CandidateInv'
  <2>1. mapped' \in [Hosted -> SessionIds \union {None}] /\ {session', candidate', routeSession'} \subseteq SessionIds \union {None}
    BY <1>1, <1>2, <1>3 DEF SessionsInv, Pointers
  <2>2. QED
    BY <1>1, <1>2, <1>3, <1>7, <2>1 DEF SessionsInv, Pointers, CandidateInv
<1>9. RouteInv'
  <2>1. ASSUME routeSession # None
        PROVE  /\ routeSession' = routeSession /\ sessions'[routeSession].room \in Joined
               /\ sessions'[routeSession].state # "unused"
    <3>1. routeSession \in SessionIds /\ routeSession \in Reachable
      BY <1>1, <1>3, <2>1 DEF SessionsInv, Pointers, Reachable
    <3>2. sessions[routeSession].room \in Joined /\ sessions[routeSession].state # "unused"
      BY <1>1, <2>1 DEF SessionsInv, RouteInv
    <3>3. candidate # routeSession
      BY <1>2, <3>2, CacheAssumption DEF r
    <3>4. QED
      BY <1>3, <1>5, <1>6, <1>7, <3>1, <3>2, <3>3
  <2>2. QED
    BY <1>1, <1>3, <2>1 DEF SessionsInv, RouteInv
<1>10. LiveInv'
  <2>1. ASSUME NEW s \in SessionIds, sessions'[s].state = "live"
        PROVE  \/ sessions'[s].room \in Hosted /\ mapped'[sessions'[s].room] = s
               \/ sessions'[s].room \in Joined /\ routeSession' = s
    <3>1. sessions'[s] = ss[s]
      BY <1>7, <2>1, UnusedFacts
    <3>2. CASE s = candidate
      BY <1>1, <1>2, <1>3, <1>6, <3>1, <3>2 DEF SessionsInv, Pointers
    <3>3. CASE s # candidate
      <4>1. /\ sessions'[s].room = sessions[s].room /\ sessions[s].state = "live" /\ s # mapped[r]
        BY <1>5, <1>6, <2>1, <3>1, <3>3
      <4>2. sessions[s].room \in Hosted => mapped'[sessions[s].room] = mapped[sessions[s].room] \/ sessions[s].room = r
        BY <1>1, <1>3 DEF SessionsInv, Pointers
      <4>3. QED
        BY <1>1, <1>3, <4>1, <4>2 DEF SessionsInv, LiveInv
    <3>4. QED
      BY <3>2, <3>3
  <2>2. QED
    BY <2>1 DEF LiveInv
<1>11. QED
  BY <1>4, <1>8, <1>9, <1>10 DEF WorkspaceInv, SessionsInv

\* Steps that only stop, discard or use sessions, and leave the route alone.
LEMMA AgingInv ==
  ASSUME SessionsInv, NEW ss \in [SessionIds -> Kinds], SetSessions(ss),
         \A s \in SessionIds : Aged(ss, s),
         \A s \in SessionIds : ss[s].state = "live" /\ sessions[s].room \in Hosted =>
            mapped'[sessions[s].room] = mapped[sessions[s].room],
         routeSession # None => /\ ss[routeSession].room = sessions[routeSession].room
                                /\ ss[routeSession].state # "unused",
         UNCHANGED routeVars,
         mapped' \in [Hosted -> SessionIds \union {None}],
         session' \in SessionIds \union {None}, candidate' = None,
         hosting' \in {"idle", "starting", "recovering", "exhausted", "running"},
         listed' \subseteq Hosted, recovered' \subseteq Hosted, shown' \in Hosted \union {NoRoom}
  PROVE  SessionsInv'
<1>1. /\ sessions' \in [SessionIds -> Kinds]
      /\ \A q \in SessionIds : sessions'[q] = ss[q] \/ sessions'[q] = Unused
      /\ \A q \in SessionIds : q \in Reachable \/ ss[q].state = "live" => sessions'[q] = ss[q]
  BY SetSessionsMeans
<1>2. Pointers' /\ CandidateInv'
  BY <1>1 DEF SessionsInv, Pointers, CandidateInv, routeVars
<1>3. RouteInv'
  <2>1. routeSession' \in Reachable /\ route' = route /\ routeSession' = routeSession
    BY DEF Reachable, routeVars
  <2>2. QED
    BY <1>1, <2>1 DEF SessionsInv, Pointers, RouteInv
<1>4. LiveInv'
  <2>1. \A s \in SessionIds : Aged(sessions', s)
    BY <1>1, UnusedFacts DEF Aged
  <2>2. Known
    BY <1>1, UnusedFacts DEF Known, routeVars
  <2>3. QED
    BY <2>1, <2>2, AgedLive DEF SessionsInv
<1>5. QED
  BY <1>2, <1>3, <1>4 DEF SessionsInv

LEMMA RecoverFailsInv ==
  ASSUME WorkspaceInv, NEW r \in Hosted, RecoverFails(r)
  PROVE  WorkspaceInv'
<1> DEFINE ss == [s \in SessionIds |-> IF s = candidate
                                       THEN [Discarded(sessions, {s})[s] EXCEPT !.busy = FALSE]
                                       ELSE sessions[s]]
<1>1. CacheInv /\ SessionsInv /\ sessions \in [SessionIds -> Kinds]
  BY DEF WorkspaceInv, SessionsInv, Pointers
<1>2. CacheInv'
  BY <1>1, SameCache DEF RecoverFails, cacheVars, counted
<1>3. \A s \in SessionIds :
        LET d == Discarded(sessions, {s})[s]
        IN  d \in Kinds /\ d.room = sessions[s].room /\ d.state # "live"
            /\ (d.state = "unused" <=> sessions[s].state = "unused")
  BY <1>1, DiscardedMeans
<1>4. /\ ss \in [SessionIds -> Kinds]
      /\ \A s \in SessionIds : /\ Aged(ss, s) /\ ss[s].room = sessions[s].room
                               /\ ss[s].state = "unused" <=> sessions[s].state = "unused"
  BY <1>1, <1>3 DEF Aged, Kinds
<1>5. /\ SetSessions(ss) /\ UNCHANGED <<mapped, shown, session, route, routeSession, listed, recovered>>
      /\ candidate' = None /\ hosting' \in {"recovering", "exhausted"}
  BY DEF RecoverFails, routeVars
<1> HIDE DEF ss
<1>6. routeSession # None => /\ ss[routeSession].room = sessions[routeSession].room
                             /\ ss[routeSession].state # "unused"
  BY <1>1, <1>4 DEF SessionsInv, Pointers, RouteInv
<1>7. SessionsInv'
  BY <1>1, <1>4, <1>5, <1>6, AgingInv DEF SessionsInv, Pointers, routeVars
<1>8. QED
  BY <1>2, <1>7 DEF WorkspaceInv

\* What is left when the coordinator stops has no session that polls a hosted room.
LEMMA HaltedMeans ==
  ASSUME SessionsInv
  PROVE  /\ Halted \in [SessionIds -> Kinds]
         /\ \A s \in SessionIds :
              /\ Halted[s].room = sessions[s].room
              /\ Halted[s].state = "unused" <=> sessions[s].state = "unused"
              /\ Halted[s].state = "live" =>
                   sessions[s].state = "live" /\ sessions[s].room \notin Hosted
<1> DEFINE M == {mapped[r] : r \in Hosted}
           st == Stopped(sessions, M)
<1>1. sessions \in [SessionIds -> Kinds]
  BY DEF SessionsInv, Pointers
<1>2. /\ st \in [SessionIds -> Kinds]
      /\ \A s \in SessionIds : /\ st[s].room = sessions[s].room
                               /\ st[s].state = "unused" <=> sessions[s].state = "unused"
                               /\ s \in M => st[s].state # "live"
                               /\ st[s].state = "live" => sessions[s].state = "live"
  BY <1>1, StoppedMeans
<1> HIDE DEF st
<1>3. /\ Discarded(st, {candidate}) \in [SessionIds -> Kinds]
      /\ \A s \in SessionIds :
           LET d == Discarded(st, {candidate})[s]
           IN  d.room = st[s].room /\ (d.state = "unused" <=> st[s].state = "unused")
               /\ (d.state = "live" => st[s].state = "live")
  BY <1>2, DiscardedMeans
<1>4. Halted = Discarded(st, {candidate})
  BY DEF Halted, st
<1>5. ASSUME NEW s \in SessionIds, sessions[s].state = "live", sessions[s].room \in Hosted
      PROVE  s \in M
  <2>1. mapped[sessions[s].room] = s \/ sessions[s].room \in Joined
    BY <1>5 DEF SessionsInv, LiveInv
  <2>2. QED
    BY <1>5, <2>1, CacheAssumption
<1>6. QED
  BY <1>2, <1>3, <1>4, <1>5

LEMMA CoordinatorStopInv ==
  ASSUME WorkspaceInv, CoordinatorStop
  PROVE  WorkspaceInv'
<1> DEFINE ss == [s \in SessionIds |-> IF s = candidate THEN [Halted[s] EXCEPT !.busy = FALSE]
                                       ELSE Halted[s]]
<1>1. CacheInv /\ SessionsInv
  BY DEF WorkspaceInv
<1>2. CacheInv'
  BY <1>1, SameCache DEF CoordinatorStop, cacheVars, counted
<1>3. /\ ss \in [SessionIds -> Kinds]
      /\ \A s \in SessionIds :
           /\ ss[s].room = sessions[s].room
           /\ ss[s].state = "unused" <=> sessions[s].state = "unused"
           /\ ss[s].state = "live" =>
                sessions[s].state = "live" /\ sessions[s].room \notin Hosted
  BY <1>1, HaltedMeans DEF Kinds
<1>4. /\ SetSessions(ss) /\ UNCHANGED <<shown, session, route, routeSession>>
      /\ mapped' = [r \in Hosted |-> None]
      /\ candidate' = None /\ hosting' = "idle" /\ listed' = {} /\ recovered' = {}
  BY DEF CoordinatorStop, StopEverything
<1> HIDE DEF ss
<1>5. routeSession # None => /\ ss[routeSession].room = sessions[routeSession].room
                             /\ ss[routeSession].state # "unused"
  BY <1>1, <1>3 DEF SessionsInv, Pointers, RouteInv
<1>6. SessionsInv'
  BY <1>1, <1>3, <1>4, <1>5, AgingInv DEF SessionsInv, Pointers, routeVars, Aged
<1>7. QED
  BY <1>2, <1>6 DEF WorkspaceInv

LEMMA DestroyInv ==
  ASSUME WorkspaceInv, Destroy
  PROVE  WorkspaceInv'
<1> DEFINE gone == {r \in Hosted : current[r] # "absent"}
           G == IF shown \in gone THEN {session} ELSE {}
           D == Discarded(Halted, G)
           ss == [s \in SessionIds |-> [D[s] EXCEPT !.busy = IF s = candidate THEN FALSE ELSE @]]
<1>1. CacheInv /\ SessionsInv
  BY DEF WorkspaceInv
<1>2. /\ RemoveStored(gone) /\ order' = Ordered(<<>>, Active') /\ removed' = {}
      /\ history' = History([r \in Rooms |-> "none"])
      /\ shown' \in {shown, NoRoom} /\ session' \in {session, None}
      /\ SetSessions(ss) /\ UNCHANGED routeVars
      /\ mapped' = [r \in Hosted |-> None]
      /\ candidate' = None /\ hosting' = "idle" /\ listed' = {} /\ recovered' = {}
  BY DEF Destroy, StopEverything
<1>3. CacheInv'
  <2>1. current' \in [Rooms -> Records]
    BY <1>1, <1>2 DEF RemoveStored, CacheInv, Records
  <2>2. <<>> \in Seq(Rooms) /\ Active' \in SUBSET Rooms
    BY DEF Active
  <2>3. order' \in Seq(Rooms) /\ Elements(order') \subseteq Active'
    BY <1>2, <2>2, OrderedRooms
  <2>4. Elements(order)' = Elements(order')
    BY DEF Elements
  <2>5. \A r \in Active' : current'[r] # "absent"
    BY DEF Active
  <2>6. DOMAIN history' = Rooms
    BY <1>2 DEF History
  <2>7. QED
    BY <1>2, <2>1, <2>3, <2>4, <2>5, <2>6 DEF CacheInv, RemovedIsRemembered
<1>4. /\ D \in [SessionIds -> Kinds]
      /\ \A s \in SessionIds :
           /\ D[s].room = Halted[s].room
           /\ D[s].state = "unused" <=> Halted[s].state = "unused"
           /\ D[s].state = "live" => Halted[s].state = "live"
  BY <1>1, HaltedMeans, DiscardedMeans
<1> HIDE DEF D, G
<1>5. /\ ss \in [SessionIds -> Kinds]
      /\ \A s \in SessionIds :
           /\ ss[s].room = D[s].room
           /\ ss[s].state = D[s].state
  BY <1>4 DEF Kinds
<1> HIDE DEF ss
<1>6. \A s \in SessionIds :
           /\ ss[s].room = sessions[s].room
           /\ ss[s].state = "unused" <=> sessions[s].state = "unused"
           /\ ss[s].state = "live" =>
                sessions[s].state = "live" /\ sessions[s].room \notin Hosted
  BY <1>1, <1>4, <1>5, HaltedMeans
<1>7. routeSession # None => /\ ss[routeSession].room = sessions[routeSession].room
                             /\ ss[routeSession].state # "unused"
  BY <1>1, <1>6 DEF SessionsInv, Pointers, RouteInv
<1>8. SessionsInv'
  <2>1. \A s \in SessionIds : Aged(ss, s)
    BY <1>6 DEF Aged
  <2>2. QED
    BY <1>1, <1>2, <1>5, <1>6, <1>7, <2>1, AgingInv DEF SessionsInv, Pointers
<1>9. QED
  BY <1>3, <1>8 DEF WorkspaceInv

-----------------------------------------------------------------------------
(* The operator.                                                           *)

LEMMA OpenHostChatInv ==
  ASSUME SessionsInv, NEW r \in Hosted, NEW s \in SessionIds, OpenHostChat(r, s),
         UNCHANGED <<candidate, routeVars, hosting, listed, recovered>>
  PROVE  SessionsInv'
<1>1. None \notin SessionIds /\ sessions \in [SessionIds -> Kinds] /\ r \in Rooms
  BY WorkspaceAssumption DEF None, SessionIds, SessionsInv, Pointers, Rooms
<1>2. PICK ss \in [SessionIds -> Kinds] :
        /\ SetSessions(ss)
        /\ shown' = r
        /\ \/ ss = sessions /\ mapped' = mapped /\ session' = mapped[r]
           \/ /\ Fresh(s) /\ mapped[r] = None
              /\ mapped' = [mapped EXCEPT ![r] = s] /\ session' = s
              /\ ss[s].room = r /\ \A q \in SessionIds \ {s} : ss[q] = sessions[q]
  <2>1. CASE mapped[r] # None
    BY <1>1, <2>1 DEF OpenHostChat
  <2>2. CASE mapped[r] = None
    <3> DEFINE New(m) == [sessions EXCEPT ![s] = m]
    <3>1. \E m \in Kinds : m.room = r /\ SetSessions(New(m))
      <4>1. Made(r, "live", TRUE, TRUE) \in Kinds /\ Made(r, "live", TRUE, TRUE).room = r
            /\ Made(r, "new", FALSE, FALSE) \in Kinds /\ Made(r, "new", FALSE, FALSE).room = r
        BY <1>1 DEF Made, Kinds
      <4>2. QED
        BY <2>2, <4>1 DEF OpenHostChat
    <3>2. \A m \in Kinds : New(m) \in [SessionIds -> Kinds] /\ New(m)[s] = m
                           /\ \A q \in SessionIds \ {s} : New(m)[q] = sessions[q]
      BY <1>1
    <3>3. Fresh(s) /\ mapped' = [mapped EXCEPT ![r] = s] /\ session' = s /\ shown' = r
      BY <2>2 DEF OpenHostChat
    <3> HIDE DEF New
    <3>4. PICK m \in Kinds : m.room = r /\ SetSessions(New(m))
      BY <3>1
    <3>5. New(m) \in [SessionIds -> Kinds] /\ New(m)[s].room = r
          /\ \A q \in SessionIds \ {s} : New(m)[q] = sessions[q]
      BY <3>2, <3>4
    <3>6. QED
      BY <2>2, <3>3, <3>4, <3>5
  <2>3. QED
    BY <2>1, <2>2
<1>3. /\ sessions' \in [SessionIds -> Kinds]
      /\ \A q \in SessionIds : sessions'[q] = ss[q] \/ sessions'[q] = Unused
      /\ \A q \in SessionIds : q \in Reachable \/ ss[q].state = "live" => sessions'[q] = ss[q]
  BY <1>2, SetSessionsMeans
<1>4. Fresh(s) => s # candidate /\ s # routeSession
  BY FreshMeans
<1>5. mapped' \in [Hosted -> SessionIds \union {None}] /\ session' \in SessionIds \union {None}
  BY <1>2 DEF SessionsInv, Pointers
<1>6. Pointers'
  BY <1>2, <1>3, <1>5 DEF SessionsInv, Pointers, routeVars
<1>7. candidate' \in Reachable /\ routeSession' \in Reachable
  BY DEF Reachable
<1>8. CandidateInv'
  <2>1. ASSUME candidate # None
        PROVE  sessions'[candidate] = sessions[candidate]
    <3>1. candidate \in SessionIds /\ candidate \in Reachable
      BY <1>7, <2>1 DEF SessionsInv, Pointers
    <3>2. ss[candidate] = sessions[candidate]
      BY <1>2, <1>4, <3>1
    <3>3. QED
      BY <1>3, <3>1, <3>2
  <2>2. QED
    BY <2>1 DEF SessionsInv, CandidateInv
<1>9. RouteInv'
  <2>1. ASSUME routeSession # None
        PROVE  sessions'[routeSession] = sessions[routeSession]
    <3>1. routeSession \in SessionIds /\ routeSession \in Reachable
      BY <1>7, <2>1 DEF SessionsInv, Pointers, routeVars
    <3>2. ss[routeSession] = sessions[routeSession]
      BY <1>2, <1>4, <3>1
    <3>3. QED
      BY <1>3, <3>1, <3>2
  <2>2. QED
    BY <2>1 DEF SessionsInv, RouteInv, routeVars
<1>10. LiveInv'
  <2>1. ASSUME NEW q \in SessionIds, sessions'[q].state = "live"
        PROVE  \/ sessions'[q].room \in Hosted /\ mapped'[sessions'[q].room] = q
               \/ sessions'[q].room \in Joined /\ routeSession' = q
    <3>1. sessions'[q] = ss[q]
      BY <1>3, <2>1, UnusedFacts
    <3>2. CASE ss[q] = sessions[q]
      <4>1. \/ sessions[q].room \in Hosted /\ mapped[sessions[q].room] = q
            \/ sessions[q].room \in Joined /\ routeSession = q
        BY <2>1, <3>1, <3>2 DEF SessionsInv, LiveInv
      <4>2. sessions[q].room \in Hosted /\ mapped[sessions[q].room] = q =>
              mapped'[sessions[q].room] = q
        BY <1>1, <1>2 DEF SessionsInv, Pointers
      <4>3. QED
        BY <3>1, <3>2, <4>1, <4>2 DEF routeVars
    <3>3. CASE ss[q] # sessions[q]
      <4>1. q = s /\ ss[q].room = r /\ mapped' = [mapped EXCEPT ![r] = s]
        BY <1>2, <3>3
      <4>2. mapped'[r] = s
        BY <4>1 DEF SessionsInv, Pointers
      <4>3. QED
        BY <3>1, <4>1, <4>2
    <3>4. QED
      BY <3>2, <3>3
  <2>2. QED
    BY <2>1 DEF LiveInv
<1>11. QED
  BY <1>6, <1>8, <1>9, <1>10 DEF SessionsInv

\* The side bar of the home coordinator has hosted rooms that are stored.
LEMMA RailHas ==
  ASSUME CacheInv, NEW r \in ToSet(Rail)
  PROVE  r \in Hosted /\ current[r] # "absent"
<1>1. order \in Seq(Rooms) /\ \A q \in Elements(order) : current[q] # "absent"
  BY DEF CacheInv
<1>2. Rail \in Seq(Rooms) /\ Elements(Rail) = Elements(order) \intersect Hosted
  BY <1>1, OnlyKeeps DEF Rail
<1>3. ToSet(Rail) = Elements(Rail)
  BY <1>2 DEF ToSet, Elements
<1>4. QED
  BY <1>1, <1>2, <1>3

LEMMA OpenInv ==
  ASSUME WorkspaceInv, NEW r \in Hosted, NEW s \in SessionIds, Open(r, s)
  PROVE  WorkspaceInv'
<1>1. CacheInv /\ SessionsInv
  BY DEF WorkspaceInv
<1>2. CacheInv'
  BY <1>1, SameCache DEF Open, counted
<1>3. OpenHostChat(r, s) /\ UNCHANGED <<candidate, routeVars, hosting, listed, recovered>>
  BY DEF Open, routeVars
<1>4. SessionsInv'
  BY <1>1, <1>3, OpenHostChatInv
<1>5. QED
  BY <1>2, <1>4 DEF WorkspaceInv

LEMMA CreateInv ==
  ASSUME WorkspaceInv, NEW r \in Hosted, NEW s \in SessionIds, Create(r, s)
  PROVE  WorkspaceInv'
<1>1. CacheInv /\ SessionsInv
  BY DEF WorkspaceInv
<1>2. r \in Rooms /\ SaveRoom(r) /\ Reconcile(history) /\ removed' \subseteq removed
  BY DEF Create, Rooms
<1>3. CacheInv'
  BY <1>1, <1>2, SavedCache
<1>4. OpenHostChat(r, s) /\ UNCHANGED <<candidate, routeVars, hosting, listed, recovered>>
  BY DEF Create, routeVars
<1>5. SessionsInv'
  BY <1>1, <1>4, OpenHostChatInv
<1>6. QED
  BY <1>3, <1>5 DEF WorkspaceInv

LEMMA OpenFallbackInv ==
  ASSUME WorkspaceInv, NEW s \in SessionIds, OpenFallback(s)
  PROVE  WorkspaceInv'
<1>1. CacheInv /\ SessionsInv
  BY DEF WorkspaceInv
<1>2. CacheInv'
  BY <1>1, SameCache DEF OpenFallback, counted
<1>3. UNCHANGED <<candidate, routeVars, hosting, listed, recovered>>
  BY DEF OpenFallback, routeVars
<1>4. CASE fallback \in ToSet(Rail)
  <2>1. fallback \in Hosted /\ OpenHostChat(fallback, s)
    BY <1>1, <1>4, RailHas DEF OpenFallback
  <2>2. SessionsInv'
    BY <1>1, <1>3, <2>1, OpenHostChatInv
  <2>3. QED
    BY <1>2, <2>2 DEF WorkspaceInv
<1>5. CASE fallback \notin ToSet(Rail)
  <2>1. UNCHANGED <<shown, session, mapped, sessions>>
    BY <1>5 DEF OpenFallback
  <2>2. SessionsInv'
    BY <1>1, <1>3, <2>1, SameSessions DEF SessionsInv, Pointers, CandidateInv, routeVars
  <2>3. QED
    BY <1>2, <2>2 DEF WorkspaceInv
<1>6. QED
  BY <1>4, <1>5

LEMMA RemoveHostedInv ==
  ASSUME WorkspaceInv, NEW r \in Hosted, RemoveHosted(r)
  PROVE  WorkspaceInv'
<1> DEFINE ss == Discarded(sessions, SessionsOf(r))
<1>1. CacheInv /\ SessionsInv /\ r \in Rooms /\ sessions \in [SessionIds -> Kinds]
  BY DEF WorkspaceInv, Rooms, SessionsInv, Pointers
<1>2. /\ current[r] # "absent"
      /\ RemoveStored({r}) /\ Reconcile(Archived({r}, "deleted"))
      /\ removed' = removed \union {r}
  BY <1>1, RailHas DEF RemoveHosted, Removable
<1>3. CacheInv'
  <2>1. "deleted" # "none"
    OBVIOUS
  <2>2. QED
    BY <1>1, <1>2, <2>1, RemovedCache
<1>4. /\ SetSessions(ss) /\ UNCHANGED routeVars
      /\ mapped' = [mapped EXCEPT ![r] = None]
      /\ shown' \in {shown, NoRoom} /\ session' \in {session, None}
      /\ candidate' = candidate /\ hosting \in {"running", "exhausted"}
      /\ hosting' \in {"running", "recovering"} /\ listed' \subseteq listed /\ recovered' = recovered
  BY DEF RemoveHosted
<1>5. candidate = None
  BY <1>1, <1>4 DEF SessionsInv, CandidateInv
<1>6. /\ ss \in [SessionIds -> Kinds]
      /\ \A s \in SessionIds :
           /\ ss[s].room = sessions[s].room
           /\ ss[s].state = "unused" <=> sessions[s].state = "unused"
           /\ s \in SessionsOf(r) => ss[s].state # "live"
           /\ ss[s].state = "live" => sessions[s].state = "live"
  BY <1>1, DiscardedMeans
<1> HIDE DEF ss
<1>7. \A s \in SessionIds : Aged(ss, s)
  BY <1>6 DEF Aged
<1>8. ASSUME NEW s \in SessionIds, ss[s].state = "live", sessions[s].room \in Hosted
      PROVE  mapped'[sessions[s].room] = mapped[sessions[s].room]
  <2>1. sessions[s].state = "live" /\ s # mapped[r]
    BY <1>6, <1>8 DEF SessionsOf
  <2>2. mapped[sessions[s].room] = s
    BY <1>1, <1>8, <2>1, CacheAssumption DEF SessionsInv, LiveInv
  <2>3. sessions[s].room # r
    BY <2>1, <2>2
  <2>4. QED
    BY <1>1, <1>4, <1>8, <2>3 DEF SessionsInv, Pointers
<1>9. routeSession # None => /\ ss[routeSession].room = sessions[routeSession].room
                             /\ ss[routeSession].state # "unused"
  BY <1>1, <1>6 DEF SessionsInv, Pointers, RouteInv
<1>10. /\ mapped' \in [Hosted -> SessionIds \union {None}]
       /\ session' \in SessionIds \union {None} /\ candidate' = None
       /\ hosting' \in {"idle", "starting", "recovering", "exhausted", "running"}
       /\ listed' \subseteq Hosted /\ recovered' \subseteq Hosted
       /\ shown' \in Hosted \union {NoRoom}
  BY <1>1, <1>4, <1>5 DEF SessionsInv, Pointers
<1>11. SessionsInv'
  BY <1>1, <1>4, <1>6, <1>7, <1>8, <1>9, <1>10, AgingInv
<1>12. QED
  BY <1>3, <1>11 DEF WorkspaceInv

LEMMA RetireRoomsInv ==
  ASSUME WorkspaceInv, RetireRooms
  PROVE  WorkspaceInv'
<1> DEFINE ss == Discarded(sessions, {session})
<1>1. CacheInv /\ SessionsInv /\ sessions \in [SessionIds -> Kinds] /\ DOMAIN history = Rooms
  BY DEF WorkspaceInv, SessionsInv, Pointers, CacheInv
<1>2. /\ current' \in [Rooms -> Records]
      /\ \A q \in Rooms : current'[q] = "absent" => current[q] = "absent"
  BY <1>1 DEF RetireRooms, CacheInv, Records
<1>3. /\ {} \in SUBSET Rooms /\ removed' \subseteq removed \union {} /\ Reconcile(history)
      /\ \A q \in {} : history[q] # "none"
      /\ \A q \in Rooms \ {} : history[q] = history[q] /\ (current'[q] = "absent" => current[q] = "absent")
  BY <1>2 DEF RetireRooms, counted
<1>4. CacheInv'
  BY <1>1, <1>2, <1>3, ReconciledCache
<1>5. /\ SetSessions(ss) /\ UNCHANGED <<routeVars, mapped, shown, candidate, recoveryVars>>
      /\ session' = None /\ hosting = "idle"
  BY DEF RetireRooms
<1>6. candidate = None
  BY <1>1, <1>5 DEF SessionsInv, CandidateInv
<1>7. /\ ss \in [SessionIds -> Kinds]
      /\ \A s \in SessionIds :
           /\ ss[s].room = sessions[s].room
           /\ ss[s].state = "unused" <=> sessions[s].state = "unused"
           /\ ss[s].state = "live" => sessions[s].state = "live"
  BY <1>1, DiscardedMeans
<1> HIDE DEF ss
<1>8. \A s \in SessionIds : Aged(ss, s)
  BY <1>7 DEF Aged
<1>9. routeSession # None => /\ ss[routeSession].room = sessions[routeSession].room
                             /\ ss[routeSession].state # "unused"
  BY <1>1, <1>7 DEF SessionsInv, Pointers, RouteInv
<1>10. SessionsInv'
  BY <1>1, <1>5, <1>6, <1>7, <1>8, <1>9, AgingInv DEF SessionsInv, Pointers, recoveryVars
<1>11. QED
  BY <1>4, <1>10 DEF WorkspaceInv

-----------------------------------------------------------------------------
(* Sessions and routes.                                                    *)

\* Steps that leave the hosted rooms alone.
LEMMA HostedStays ==
  ASSUME SessionsInv, NEW ss \in [SessionIds -> Kinds], SetSessions(ss),
         UNCHANGED <<mapped, shown, session, candidate, hosting, listed, recovered>>,
         routeSession' \in SessionIds \union {None},
         candidate # None => /\ ss[candidate].state = "recovering"
                             /\ ss[candidate].room = sessions[candidate].room
  PROVE  Pointers' /\ CandidateInv'
<1>1. /\ sessions' \in [SessionIds -> Kinds]
      /\ \A q \in SessionIds : q \in Reachable \/ ss[q].state = "live" => sessions'[q] = ss[q]
  BY SetSessionsMeans
<1>2. candidate' \in Reachable
  BY DEF Reachable
<1>3. QED
  BY <1>1, <1>2 DEF SessionsInv, Pointers, CandidateInv

\* ... and in which sessions age: the route keeps its session, or lets go of it.
LEMMA RouteAges ==
  ASSUME SessionsInv, NEW ss \in [SessionIds -> Kinds], SetSessions(ss),
         UNCHANGED <<mapped, shown, session, candidate, hosting, listed, recovered>>,
         \A s \in SessionIds : /\ Aged(ss, s) /\ ss[s].room = sessions[s].room
                               /\ ss[s].state = "unused" <=> sessions[s].state = "unused",
         candidate # None => ss[candidate].state = "recovering",
         route' \in [room : Joined \union {NoRoom}, state : RouteStates],
         route'.state # "closed" => route'.room \in Joined,
         \/ routeSession' = routeSession /\ (routeSession # None => route'.state = "attached")
         \/ routeSession' = None /\ (routeSession # None => ss[routeSession].state # "live")
  PROVE  SessionsInv'
<1>1. /\ sessions' \in [SessionIds -> Kinds]
      /\ \A q \in SessionIds : sessions'[q] = ss[q] \/ sessions'[q] = Unused
      /\ \A q \in SessionIds : q \in Reachable \/ ss[q].state = "live" => sessions'[q] = ss[q]
  BY SetSessionsMeans
<1>2. routeSession' \in SessionIds \union {None} /\ candidate \in SessionIds \union {None}
  BY DEF SessionsInv, Pointers
<1>3. Pointers' /\ CandidateInv'
  BY <1>2, HostedStays
<1>4. RouteInv'
  <2>1. routeSession' \in Reachable
    BY DEF Reachable
  <2>2. QED
    BY <1>1, <1>2, <2>1 DEF SessionsInv, RouteInv
<1>5. LiveInv'
  <2>1. ASSUME NEW s \in SessionIds, sessions'[s].state = "live"
        PROVE  \/ sessions'[s].room \in Hosted /\ mapped'[sessions'[s].room] = s
               \/ sessions'[s].room \in Joined /\ routeSession' = s
    <3>1. ss[s].state = "live" /\ sessions'[s].room = sessions[s].room /\ sessions[s].state = "live"
      BY <1>1, <2>1, UnusedFacts DEF Aged
    <3>2. None \notin SessionIds
      BY WorkspaceAssumption DEF None, SessionIds
    <3>3. QED
      BY <3>1, <3>2 DEF SessionsInv, LiveInv
  <2>2. QED
    BY <2>1 DEF LiveInv
<1>6. QED
  BY <1>3, <1>4, <1>5 DEF SessionsInv

LEMMA SyncBeginInv ==
  ASSUME WorkspaceInv, NEW s \in SessionIds, SyncBegin(s)
  PROVE  WorkspaceInv'
<1>1. CacheInv /\ SessionsInv
  BY DEF WorkspaceInv
<1>2. CacheInv'
  BY <1>1, SameCache DEF SyncBegin, cacheVars, counted
<1>3. /\ sessions' \in [SessionIds -> Kinds]
      /\ \A q \in SessionIds : sessions'[q].state = sessions[q].state
                               /\ sessions'[q].room = sessions[q].room
  BY <1>1 DEF SyncBegin, SessionsInv, Pointers, Kinds
<1>4. UNCHANGED <<recoveryVars, shownVars, routeVars>>
  BY DEF SyncBegin
<1>5. UNCHANGED <<mapped, shown, session, candidate, hosting, listed, recovered, route, routeSession>>
  BY <1>4 DEF recoveryVars, shownVars, routeVars
<1>6. Pointers' /\ CandidateInv' /\ RouteInv' /\ LiveInv'
  <2>1. Pointers'
    BY <1>1, <1>3, <1>5 DEF SessionsInv, Pointers
  <2>2. CandidateInv'
    BY <1>1, <1>3, <1>5 DEF SessionsInv, Pointers, CandidateInv
  <2>3. RouteInv'
    BY <1>1, <1>3, <1>5 DEF SessionsInv, Pointers, RouteInv
  <2>4. LiveInv'
    BY <1>1, <1>3, <1>5 DEF SessionsInv, LiveInv
  <2>5. QED
    BY <2>1, <2>2, <2>3, <2>4
<1>7. QED
  BY <1>2, <1>6 DEF WorkspaceInv, SessionsInv

LEMMA SyncEndInv ==
  ASSUME WorkspaceInv, NEW s \in SessionIds, SyncEnd(s)
  PROVE  WorkspaceInv'
<1> DEFINE ss == [sessions EXCEPT ![s].busy = FALSE, ![s].opening = FALSE]
           r == sessions[s].room
<1>1. CacheInv /\ SessionsInv /\ sessions \in [SessionIds -> Kinds]
  BY DEF WorkspaceInv, SessionsInv, Pointers
<1>2. CacheInv'
  <2>1. CASE sessions[s].state # "discarded"
    <3>1. SaveRoom(r) /\ Reconcile(history) /\ removed' = removed /\ sessions[s].busy
      BY <2>1 DEF SyncEnd, counted
    <3>2. r \in Rooms
      BY <1>1, <3>1 DEF Kinds
    <3> HIDE DEF r
    <3>3. QED
      BY <1>1, <3>1, <3>2, SavedCache
  <2>2. CASE sessions[s].state = "discarded"
    BY <1>1, <2>2, SameCache DEF SyncEnd, counted
  <2>3. QED
    BY <2>1, <2>2
<1>3. /\ ss \in [SessionIds -> Kinds]
      /\ \A q \in SessionIds : ss[q].state = sessions[q].state /\ ss[q].room = sessions[q].room
  <2>1. /\ ss = [q \in SessionIds |-> ss[q]]
        /\ \A q \in SessionIds \ {s} : ss[q] = sessions[q]
        /\ ss[s] = [sessions[s] EXCEPT !.busy = FALSE, !.opening = FALSE]
    BY <1>1
  <2> HIDE DEF ss
  <2>2. ss[s] \in Kinds /\ ss[s].state = sessions[s].state /\ ss[s].room = sessions[s].room
    <3>1. sessions[s] \in Kinds
      BY <1>1
    <3>2. QED
      BY <2>1, <3>1 DEF Kinds
  <2>3. QED
    BY <1>1, <2>1, <2>2
<1>4. SetSessions(ss) /\ UNCHANGED <<mapped, shown, session, candidate, hosting, listed, recovered,
                                     route, routeSession>>
  BY DEF SyncEnd, recoveryVars, shownVars, routeVars
<1> HIDE DEF ss
<1>5. \A q \in SessionIds : Aged(ss, q)
  BY <1>3 DEF Aged
<1>6. candidate # None => ss[candidate].state = "recovering"
  BY <1>1, <1>3 DEF SessionsInv, Pointers, CandidateInv
<1>7. SessionsInv'
  BY <1>1, <1>3, <1>4, <1>5, <1>6, RouteAges DEF SessionsInv, RouteInv
<1>8. QED
  BY <1>2, <1>7 DEF WorkspaceInv

LEMMA RouteOpenInv ==
  ASSUME WorkspaceInv, NEW r \in Joined, RouteOpen(r) \/ RouteAsk(r)
  PROVE  WorkspaceInv'
<1>1. CacheInv /\ SessionsInv
  BY DEF WorkspaceInv
<1>2. CacheInv'
  BY <1>1, SameCache DEF RouteOpen, RouteAsk, cacheVars
<1>3. /\ route = Closed /\ route'.room = r /\ route' \in [room : Joined \union {NoRoom}, state : RouteStates]
      /\ UNCHANGED <<sessions, mapped, shown, session, candidate, hosting, listed, recovered, routeSession>>
  BY DEF RouteOpen, RouteAsk, recoveryVars, shownVars, RouteStates
<1>4. routeSession = None
  BY <1>1, <1>3 DEF SessionsInv, RouteInv, Closed
<1>5. SessionsInv'
  BY <1>1, <1>3, <1>4 DEF SessionsInv, Pointers, CandidateInv, RouteInv, LiveInv
<1>6. QED
  BY <1>2, <1>5 DEF WorkspaceInv

LEMMA RouteJoinInv ==
  ASSUME WorkspaceInv, RouteJoin \/ SignerTooLate
  PROVE  WorkspaceInv'
<1>1. CacheInv /\ SessionsInv
  BY DEF WorkspaceInv
<1>2. CacheInv'
  BY <1>1, SameCache DEF RouteJoin, SignerTooLate, cacheVars, counted
<1>3. /\ route.state \in {"signing", "disposed"}
      /\ UNCHANGED <<sessions, mapped, shown, session, candidate, hosting, listed, recovered, routeSession>>
  BY DEF RouteJoin, SignerTooLate, recoveryVars, shownVars
<1>4. /\ route' \in [room : Joined \union {NoRoom}, state : RouteStates]
      /\ route'.state # "closed" => route'.room \in Joined
  BY <1>1 DEF RouteJoin, SignerTooLate, Closed, SessionsInv, RouteInv, RouteStates
<1>5. routeSession = None
  BY <1>1, <1>3 DEF SessionsInv, RouteInv
<1>6. SessionsInv'
  BY <1>1, <1>3, <1>4, <1>5 DEF SessionsInv, Pointers, CandidateInv, RouteInv, LiveInv
<1>7. QED
  BY <1>2, <1>6 DEF WorkspaceInv

LEMMA JoinsInv ==
  ASSUME WorkspaceInv, Joins
  PROVE  WorkspaceInv'
<1> DEFINE r == route.room
<1>1. CacheInv /\ SessionsInv
  BY DEF WorkspaceInv
<1>2. /\ route.state \in {"joining", "abandoned"}
      /\ SaveRoom(r) /\ Reconcile(history) /\ removed' \subseteq removed
      /\ route' \in {[route EXCEPT !.state = "attaching"], Closed}
      /\ UNCHANGED <<sessions, mapped, shown, session, candidate, hosting, listed, recovered, routeSession>>
  BY DEF Joins, recoveryVars, shownVars
<1>3. r \in Joined /\ r \in Rooms
  BY <1>1, <1>2 DEF SessionsInv, RouteInv, Rooms
<1>4. /\ route' \in [room : Joined \union {NoRoom}, state : RouteStates]
      /\ route'.state # "closed" => route'.room \in Joined
  BY <1>1, <1>2, <1>3 DEF Closed, SessionsInv, RouteInv, RouteStates
<1>5. routeSession = None
  BY <1>1, <1>2 DEF SessionsInv, RouteInv
<1>6. SessionsInv'
  BY <1>1, <1>2, <1>4, <1>5 DEF SessionsInv, Pointers, CandidateInv, RouteInv, LiveInv
<1>7. CacheInv'
  <2> HIDE DEF r
  <2>1. QED
    BY <1>1, <1>2, <1>3, SavedCache
<1>8. QED
  BY <1>6, <1>7 DEF WorkspaceInv

LEMMA AttachInv ==
  ASSUME WorkspaceInv, NEW s \in SessionIds, Attach(s)
  PROVE  WorkspaceInv'
<1> DEFINE r == route.room
           ss == [sessions EXCEPT ![s] = Made(r, "live", TRUE, FALSE)]
<1>1. CacheInv /\ SessionsInv /\ sessions \in [SessionIds -> Kinds] /\ None \notin SessionIds
  BY WorkspaceAssumption DEF WorkspaceInv, SessionsInv, Pointers, SessionIds, None
<1>2. CacheInv'
  BY <1>1, SameCache DEF Attach, cacheVars, counted
<1>3. /\ route.state = "attaching" /\ Fresh(s) /\ SetSessions(ss)
      /\ route' = [route EXCEPT !.state = "attached"] /\ routeSession' = s
      /\ UNCHANGED <<mapped, shown, session, candidate, hosting, listed, recovered>>
  BY DEF Attach, recoveryVars, shownVars
<1>4. r \in Joined /\ r \in Rooms
  BY <1>1, <1>3 DEF SessionsInv, RouteInv, Rooms
<1>5. /\ route' \in [room : Joined \union {NoRoom}, state : RouteStates]
      /\ route'.state = "attached" /\ route'.room = r
  BY <1>1, <1>3 DEF SessionsInv, RouteInv, RouteStates
<1>6. routeSession = None /\ s # candidate
  BY <1>1, <1>3, FreshMeans DEF SessionsInv, RouteInv
<1>7. /\ ss \in [SessionIds -> Kinds] /\ ss[s].state = "live" /\ ss[s].room = r
      /\ \A q \in SessionIds \ {s} : ss[q] = sessions[q]
  BY <1>1, <1>4 DEF Made, Kinds
<1> HIDE DEF ss, r
<1>8. /\ sessions' \in [SessionIds -> Kinds]
      /\ \A q \in SessionIds : sessions'[q] = ss[q] \/ sessions'[q] = Unused
      /\ \A q \in SessionIds : q \in Reachable \/ ss[q].state = "live" => sessions'[q] = ss[q]
  BY <1>3, <1>7, SetSessionsMeans
<1>9. candidate # None => /\ ss[candidate].state = "recovering"
                          /\ ss[candidate].room = sessions[candidate].room
  BY <1>1, <1>6, <1>7 DEF SessionsInv, Pointers, CandidateInv
<1>10. Pointers' /\ CandidateInv'
  BY <1>1, <1>3, <1>7, <1>9, HostedStays
<1>11. RouteInv'
  BY <1>3, <1>4, <1>5, <1>7, <1>8 DEF RouteInv
<1>12. LiveInv'
  <2>1. ASSUME NEW q \in SessionIds, sessions'[q].state = "live"
        PROVE  \/ sessions'[q].room \in Hosted /\ mapped'[sessions'[q].room] = q
               \/ sessions'[q].room \in Joined /\ routeSession' = q
    <3>1. sessions'[q] = ss[q]
      BY <1>8, <2>1, UnusedFacts
    <3>2. CASE q = s
      BY <1>3, <1>4, <1>7, <3>1, <3>2
    <3>3. CASE q # s
      <4>1. sessions'[q] = sessions[q] /\ q # routeSession
        BY <1>1, <1>6, <1>7, <3>1, <3>3
      <4>2. QED
        BY <1>1, <1>3, <2>1, <4>1 DEF SessionsInv, LiveInv
    <3>4. QED
      BY <3>2, <3>3
  <2>2. QED
    BY <2>1 DEF LiveInv
<1>13. QED
  BY <1>2, <1>10, <1>11, <1>12 DEF WorkspaceInv, SessionsInv

\* The session of the route is not the candidate.
LEMMA CandidateIsHosted ==
  ASSUME SessionsInv, candidate # None
  PROVE  /\ candidate \in SessionIds /\ candidate # routeSession
         /\ sessions[candidate].state = "recovering"
<1>1. candidate \in SessionIds /\ sessions[candidate].state = "recovering"
      /\ sessions[candidate].room \in Hosted
  BY DEF SessionsInv, Pointers, CandidateInv
<1>2. routeSession # None => sessions[routeSession].room \in Joined
  BY DEF SessionsInv, RouteInv
<1>3. QED
  BY <1>1, <1>2, CacheAssumption

LEMMA RouteCloseInv ==
  ASSUME WorkspaceInv, RouteClose
  PROVE  WorkspaceInv'
<1> DEFINE ss == Stopped(sessions, {routeSession})
<1>1. CacheInv /\ SessionsInv /\ sessions \in [SessionIds -> Kinds]
  BY DEF WorkspaceInv, SessionsInv, Pointers
<1>2. CacheInv'
  BY <1>1, SameCache DEF RouteClose, cacheVars, counted
<1>3. /\ route.state # "closed" /\ SetSessions(ss) /\ routeSession' = None
      /\ \/ route' = Closed
         \/ route' = [route EXCEPT !.state = "abandoned"]
         \/ route' = [route EXCEPT !.state = "disposed"]
      /\ UNCHANGED <<mapped, shown, session, candidate, hosting, listed, recovered>>
  BY DEF RouteClose, recoveryVars, shownVars
<1>4. /\ route' \in [room : Joined \union {NoRoom}, state : RouteStates]
      /\ route'.state # "closed" => route'.room \in Joined
  BY <1>1, <1>3 DEF SessionsInv, RouteInv, RouteStates, Closed
<1>5. /\ ss \in [SessionIds -> Kinds]
      /\ \A s \in SessionIds :
           /\ s # routeSession => ss[s] = sessions[s]
           /\ ss[s].room = sessions[s].room
           /\ ss[s].state = "unused" <=> sessions[s].state = "unused"
           /\ s = routeSession => ss[s].state # "live"
           /\ ss[s].state = "live" => sessions[s].state = "live"
  BY <1>1, StoppedMeans
<1> HIDE DEF ss
<1>6. \A s \in SessionIds : Aged(ss, s)
  BY <1>5 DEF Aged
<1>7. candidate # None => ss[candidate].state = "recovering"
  BY <1>1, <1>5, CandidateIsHosted
<1>8. routeSession # None => ss[routeSession].state # "live"
  BY <1>1, <1>5 DEF SessionsInv, Pointers
<1>9. SessionsInv'
  BY <1>1, <1>3, <1>4, <1>5, <1>6, <1>7, <1>8, RouteAges
<1>10. QED
  BY <1>2, <1>9 DEF WorkspaceInv

LEMMA LeaveInv ==
  ASSUME WorkspaceInv, NEW r \in Joined, Leave(r)
  PROVE  WorkspaceInv'
<1> DEFINE showsIt == route.room = r /\ route.state \in {"attaching", "attached"}
           ss == Discarded(sessions, IF showsIt THEN {routeSession} ELSE {})
<1>1. CacheInv /\ SessionsInv /\ r \in Rooms /\ sessions \in [SessionIds -> Kinds]
  BY DEF WorkspaceInv, Rooms, SessionsInv, Pointers
<1>2. /\ current[r] # "absent"
      /\ RemoveStored({r}) /\ Reconcile(Archived({r}, "left"))
      /\ removed' = removed \union {r}
  BY DEF Leave
<1>3. CacheInv'
  <2>1. "left" # "none"
    OBVIOUS
  <2>2. QED
    BY <1>1, <1>2, <2>1, RemovedCache
<1>4. /\ SetSessions(ss)
      /\ UNCHANGED <<mapped, shown, session, candidate, hosting, listed, recovered>>
  BY DEF Leave, RouteForgets, recoveryVars, shownVars
<1>5. \/ showsIt /\ routeSession' = None /\ route' \in {Closed, [route EXCEPT !.state = "disposed"]}
      \/ ~showsIt /\ routeSession' = routeSession /\ route' = route
  BY DEF Leave, RouteForgets
<1>6. /\ route' \in [room : Joined \union {NoRoom}, state : RouteStates]
      /\ route'.state # "closed" => route'.room \in Joined
  BY <1>1, <1>5 DEF SessionsInv, RouteInv, RouteStates, Closed
<1>7. /\ ss \in [SessionIds -> Kinds]
      /\ \A s \in SessionIds :
           /\ s # routeSession => ss[s] = sessions[s]
           /\ ss[s].room = sessions[s].room
           /\ ss[s].state = "unused" <=> sessions[s].state = "unused"
           /\ showsIt /\ s = routeSession => ss[s].state # "live"
           /\ ss[s].state = "live" => sessions[s].state = "live"
  BY <1>1, DiscardedMeans
<1> HIDE DEF ss, showsIt
<1>8. \A s \in SessionIds : Aged(ss, s)
  BY <1>7 DEF Aged
<1>9. candidate # None => ss[candidate].state = "recovering"
  BY <1>1, <1>7, CandidateIsHosted
<1>10. \/ routeSession' = routeSession /\ (routeSession # None => route'.state = "attached")
       \/ routeSession' = None /\ (routeSession # None => ss[routeSession].state # "live")
  BY <1>1, <1>5, <1>7 DEF SessionsInv, Pointers, RouteInv
<1>11. SessionsInv'
  BY <1>1, <1>4, <1>6, <1>7, <1>8, <1>9, <1>10, RouteAges
<1>12. QED
  BY <1>3, <1>11 DEF WorkspaceInv

-----------------------------------------------------------------------------
(* The theorems.                                                           *)

LEMMA WorkspaceNextInv ==
  ASSUME WorkspaceInv, [WorkspaceNext]_workspaceVars
  PROVE  WorkspaceInv'
<1>1. CASE UNCHANGED workspaceVars
  <2>1. CacheInv /\ SessionsInv
    BY DEF WorkspaceInv
  <2>2. CacheInv'
    BY <1>1, <2>1, SameCache DEF workspaceVars, cacheVars, counted
  <2>3. SessionsInv'
    BY <1>1, <2>1, SameSessions
       DEF workspaceVars, recoveryVars, shownVars, routeVars, SessionsInv, Pointers, CandidateInv
  <2>4. QED
    BY <2>2, <2>3 DEF WorkspaceInv
<1>2. CASE Mount \/ Reload
  BY <1>2, MountInv, ReloadInv
<1>3. CASE CoordinatorNext
  BY <1>3, HostingInv, RecoverBeginInv, RecoverEndInv, RecoverFailsInv, CoordinatorStopInv,
     DestroyInv DEF CoordinatorNext
<1>4. CASE OperatorNext
  BY <1>4, OpenInv, CreateInv, OpenFallbackInv, RemoveHostedInv, RetireRoomsInv DEF OperatorNext
<1>5. CASE RouteNext
  BY <1>5, RouteOpenInv, RouteJoinInv, JoinsInv, AttachInv, RouteCloseInv, LeaveInv DEF RouteNext
<1>6. CASE \E s \in SessionIds : SyncBegin(s) \/ SyncEnd(s)
  BY <1>6, SyncBeginInv, SyncEndInv
<1>7. QED
  BY <1>1, <1>2, <1>3, <1>4, <1>5, <1>6 DEF WorkspaceNext

LEMMA WorkspaceAlways == WorkspaceSpec => []WorkspaceInv
<1>1. WorkspaceInv /\ [WorkspaceNext]_workspaceVars => WorkspaceInv'
  BY WorkspaceNextInv
<1>2. QED
  BY <1>1, WorkspaceInitInv, PTL DEF WorkspaceSpec

\* Sets with at most one element.
LEMMA AtMostOne ==
  ASSUME NEW S, NEW x, S \subseteq {x}
  PROVE  Cardinality(S) <= 1
<1>1. S = {} \/ S = {x}
  OBVIOUS
<1>2. Cardinality({}) = 0 /\ Cardinality({x}) = 1
  BY FS_EmptySet, FS_Singleton
<1>3. QED
  BY <1>1, <1>2

\* No room is ever polled by two sessions at once, whatever is opened, recovered, removed,
\* left or reloaded in whatever order, for any rooms and any number of sessions
\* (hostedRoomSessions, recover, attach): a session that polls is the one that its room, or
\* the route, points to.
THEOREM OneSessionPolls == WorkspaceSpec => []OneLivePerRoom
<1>1. WorkspaceInv => OneLivePerRoom
  <2> SUFFICES ASSUME WorkspaceInv, NEW r \in Rooms
               PROVE  Cardinality(LiveSessions(r)) <= 1
    BY DEF OneLivePerRoom
  <2>1. LiveInv
    BY DEF WorkspaceInv, SessionsInv
  <2>2. LiveSessions(r) \subseteq {mapped[r]} \/ LiveSessions(r) \subseteq {routeSession}
    BY <2>1, CacheAssumption DEF LiveInv, LiveSessions
  <2>3. QED
    BY <2>2, AtMostOne
<1>2. QED
  BY <1>1, WorkspaceAlways, PTL

\* A room that was removed stays in the history of the side bar until it is stored again or
\* the coordinator's identity is destroyed, whatever is saved, recovered or read in between
\* (persistRemovedSidebarRoom, reconcileSidebarLedger).
THEOREM RemovedStaysRemembered == WorkspaceSpec => []RemovedIsRemembered
<1>1. WorkspaceInv => RemovedIsRemembered
  BY DEF WorkspaceInv, CacheInv
<1>2. QED
  BY <1>1, WorkspaceAlways, PTL

-----------------------------------------------------------------------------
(* Reachability.                                                           *)

\* What a step may do to the probe that i is.
Ends(i) == probes[i].confirmed # {} /\ probes'[i] = Servers!Idle => measured' = measured

\* A probe that began before a session was reached is not looked at any more.
Fit(ps) ==
  /\ DOMAIN ps = 1..MaxProbes
  /\ \A i \in 1..MaxProbes :
       /\ DOMAIN ps[i] = {"current", "answers", "confirmed"}
       /\ ps[i].confirmed # {} => ps[i].current = FALSE

\* The probes of before that knew of a session that was reached are there.
Goes(ps, next) ==
  \A i \in 1..MaxProbes : ps[i].confirmed # {} => next[i].confirmed # {}

LEMMA IdleFits ==
  /\ Servers!Idle.confirmed = {}
  /\ DOMAIN Servers!Idle = {"current", "answers", "confirmed"}
BY DEF Servers!Idle

LEMMA ProbeFits ==
  \A targets : /\ Servers!Probe(targets).confirmed = {}
               /\ DOMAIN Servers!Probe(targets) = {"current", "answers", "confirmed"}
BY DEF Servers!Probe

LEMMA OutdatedFits ==
  ASSUME NEW ps, DOMAIN ps = 1..MaxProbes,
         \A i \in 1..MaxProbes : DOMAIN ps[i] = {"current", "answers", "confirmed"}
  PROVE  /\ Fit(Servers!Outdated(ps)) /\ Goes(ps, Servers!Outdated(ps))
         /\ \A i \in 1..MaxProbes : Servers!Outdated(ps)[i].confirmed = ps[i].confirmed
<1>1. /\ DOMAIN Servers!Outdated(ps) = 1..MaxProbes
      /\ \A i \in 1..MaxProbes :
           Servers!Outdated(ps)[i] = [ps[i] EXCEPT !.current = FALSE, !.answers = <<>>]
  BY DEF Servers!Outdated
<1>2. ASSUME NEW i \in 1..MaxProbes
      PROVE  /\ DOMAIN Servers!Outdated(ps)[i] = {"current", "answers", "confirmed"}
             /\ Servers!Outdated(ps)[i].current = FALSE
             /\ Servers!Outdated(ps)[i].confirmed = ps[i].confirmed
  BY <1>1
<1>3. QED
  BY <1>1, <1>2 DEF Fit, Goes

LEMMA NewProbeFits ==
  ASSUME NEW m, NEW ps, NEW targets, NEW online, Fit(ps), Servers!ProbesFrom(m, ps, targets, online)
  PROVE  Fit(probes') /\ Goes(ps, probes')
<1>1. Fit(Servers!Outdated(ps)) /\ Goes(ps, Servers!Outdated(ps))
  BY OutdatedFits DEF Fit
<1>2. CASE probes' = Servers!Outdated(ps)
  BY <1>1, <1>2
<1>3. ASSUME NEW i \in DOMAIN ps, ~Servers!Waiting(ps[i]),
             probes' = [Servers!Outdated(ps) EXCEPT ![i] = Servers!Probe(targets)]
      PROVE  Fit(probes') /\ Goes(ps, probes')
  <2>1. ps[i].confirmed = {}
    BY <1>3, IdleFits DEF Servers!Waiting
  <2>2. QED
    BY <1>1, <1>3, <2>1, ProbeFits DEF Fit, Goes
<1>4. QED
  BY <1>2, <1>3 DEF Servers!ProbesFrom

\* A session is reached.
LEMMA ConfirmedFits ==
  ASSUME NEW ps, NEW c, Fit(ps)
  PROVE  LET next == Servers!Superseded(Servers!Confirmed(ps, c)) IN Fit(next) /\ Goes(ps, next)
<1> DEFINE cs == Servers!Confirmed(ps, c)
<1>1. /\ DOMAIN cs = 1..MaxProbes
      /\ \A i \in 1..MaxProbes :
           cs[i] = IF Servers!Waiting(ps[i]) THEN [ps[i] EXCEPT !.confirmed = @ \union {c}] ELSE ps[i]
  BY DEF Servers!Confirmed, Fit
<1>2. ASSUME NEW i \in 1..MaxProbes
      PROVE  /\ DOMAIN cs[i] = {"current", "answers", "confirmed"}
             /\ ps[i].confirmed # {} => cs[i].confirmed # {}
  BY <1>1 DEF Fit
<1> HIDE DEF cs
<1>3. /\ Fit(Servers!Outdated(cs))
      /\ \A i \in 1..MaxProbes : Servers!Outdated(cs)[i].confirmed = cs[i].confirmed
  BY <1>1, <1>2, OutdatedFits
<1>4. Goes(ps, Servers!Outdated(cs))
  BY <1>2, <1>3 DEF Goes
<1>5. QED
  BY <1>3, <1>4 DEF Servers!Superseded, cs

LEMMA GoesOnAsItMay ==
  ASSUME Fit(probes'), Goes(probes, probes')
  PROVE  Fit(probes') /\ \A i \in 1..MaxProbes : Ends(i)
BY IdleFits DEF Goes, Ends

LEMMA ReachStep ==
  ASSUME Fit(probes), [Servers!Next]_Servers!reachVars
  PROVE  Fit(probes') /\ \A i \in 1..MaxProbes : Ends(i)
<1> DEFINE Good == Fit(probes') /\ Goes(probes, probes')
<1>0. Goes(probes, probes) /\ Fit(Servers!Outdated(probes)) /\ Goes(probes, Servers!Outdated(probes))
  BY OutdatedFits DEF Fit, Goes
<1>1. CASE UNCHANGED probes
  BY <1>0, <1>1, GoesOnAsItMay
<1>2. CASE Servers!Tick \/ Servers!VisibleAgain \/ Servers!GoesOnline
  <2>1. UNCHANGED probes \/ \E online : Servers!ProbesFrom(measured, probes, Servers!Targets, online)
    BY <1>2 DEF Servers!Tick, Servers!VisibleAgain, Servers!GoesOnline
  <2>2. QED
    BY <1>1, <2>1, NewProbeFits, GoesOnAsItMay
<1>3. ASSUME NEW targets, Servers!IfTargetsChanged(targets)
      PROVE  Fit(probes') /\ \A i \in 1..MaxProbes : Ends(i)
  <2>1. UNCHANGED probes \/ Servers!ProbesFrom(measured, probes, targets, onLine)
    BY <1>3 DEF Servers!IfTargetsChanged
  <2>2. QED
    BY <1>1, <2>1, NewProbeFits, GoesOnAsItMay
<1>4. CASE Servers!Mount \/ Servers!OpenChat \/ Servers!CloseChat
  BY <1>3, <1>4 DEF Servers!Mount, Servers!OpenChat, Servers!CloseChat
<1>5. CASE Servers!Unmount
  BY <1>0, <1>5, GoesOnAsItMay DEF Servers!Unmount
<1>6. CASE Servers!GoesOffline
  BY <1>0, <1>1, <1>6, GoesOnAsItMay DEF Servers!GoesOffline
<1>7. CASE Servers!SyncBegins \/ Servers!SyncAnswered
  BY <1>1, <1>7 DEF Servers!SyncBegins, Servers!SyncAnswered, Servers!page
<1>8. CASE Servers!SyncEnds
  <2>1. \/ UNCHANGED probes
        \/ probes' = Servers!Superseded(Servers!Confirmed(probes, Chat))
        \/ \E m : Servers!ProbesFrom(m, probes, Servers!Targets, onLine)
    BY <1>8 DEF Servers!SyncEnds, Servers!MarkServerOnline, Servers!MarkServerOffline,
                Servers!HearsOnline, Servers!HearsOffline
  <2>2. QED
    BY <1>1, <2>1, ConfirmedFits, NewProbeFits, GoesOnAsItMay
<1>9. ASSUME NEW i \in 1..MaxProbes, NEW c \in Coordinators, Servers!RelaysAnswer(i, c)
      PROVE  Fit(probes') /\ \A j \in 1..MaxProbes : Ends(j)
  <2>1. \E s : probes' = [probes EXCEPT ![i].answers[c] = s]
    BY <1>9 DEF Servers!RelaysAnswer
  <2>2. QED
    BY <2>1, GoesOnAsItMay DEF Fit, Goes
<1>10. ASSUME NEW i \in 1..MaxProbes, Servers!ProbeEnds(i)
       PROVE  Fit(probes') /\ \A j \in 1..MaxProbes : Ends(j)
  <2> DEFINE rest == [probes EXCEPT ![i] = Servers!Idle]
  <2>1. /\ Fit(rest) /\ rest[i] = Servers!Idle
        /\ \A j \in 1..MaxProbes \ {i} : rest[j] = probes[j]
    BY IdleFits DEF Fit
  <2>2. \A j \in 1..MaxProbes : Servers!Superseded(rest)[j].confirmed = rest[j].confirmed
    BY <2>1, OutdatedFits DEF Fit, Servers!Superseded
  <2>3. Fit(Servers!Superseded(rest))
    BY <2>1, OutdatedFits DEF Fit, Servers!Superseded
  <2>4. /\ probes' \in {rest, Servers!Superseded(rest)}
        /\ probes[i].current = FALSE => UNCHANGED measured
    BY <1>10 DEF Servers!ProbeEnds
  <2> HIDE DEF rest
  <2>5. Fit(probes')
    BY <2>1, <2>3, <2>4
  <2>6. Ends(i)
    BY <2>4 DEF Fit, Ends
  <2>7. ASSUME NEW j \in 1..MaxProbes \ {i}
        PROVE  Ends(j)
    BY <2>1, <2>2, <2>4, IdleFits DEF Ends
  <2>8. QED
    BY <2>5, <2>6, <2>7
<1>11. ASSUME NEW c \in Coordinators, Servers!RoomsChange(c)
       PROVE  Fit(probes') /\ \A i \in 1..MaxProbes : Ends(i)
  BY <1>1, <1>3, <1>11 DEF Servers!RoomsChange
<1>12. ASSUME NEW c \in Coordinators,
              Servers!Starts(c) \/ Servers!Stops(c) \/ Servers!HeartbeatExpires(c)
       PROVE  Fit(probes') /\ \A i \in 1..MaxProbes : Ends(i)
  BY <1>1, <1>12 DEF Servers!Starts, Servers!Stops, Servers!HeartbeatExpires, Servers!page
<1>13. CASE UNCHANGED Servers!reachVars
  BY <1>1, <1>13 DEF Servers!reachVars, Servers!page
<1>14. QED
  BY <1>2, <1>4, <1>5, <1>6, <1>7, <1>8, <1>9, <1>10, <1>11, <1>12, <1>13 DEF Servers!Next

\* What the workspace lists for a coordinator that a session has reached is not changed by
\* the end of a probe that was started before, for any number of probes and coordinators.
THEOREM FreshEvidenceStands == Servers!Spec => FresherEvidenceStands
<1>1. Servers!Init => Fit(probes)
  BY IdleFits DEF Servers!Init, Fit
<1>2. Fit(probes) /\ [Servers!Next]_Servers!reachVars => Fit(probes)'
  BY ReachStep
<1>3. Fit(probes) /\ [Servers!Next]_Servers!reachVars =>
        [\A i \in 1..MaxProbes, c \in Coordinators :
           c \in probes[i].confirmed /\ probes'[i] = Servers!Idle
             => measured'[c] = measured[c]]_Servers!reachVars
  BY ReachStep DEF Ends
<1>4. QED
  BY <1>1, <1>2, <1>3, PTL DEF Servers!Spec, FresherEvidenceStands, Servers!FresherEvidenceStands
===============================================================================
