------------------------------ MODULE PendingQueues ------------------------------
(***************************************************************************)
(* The two queues in which the coordinator keeps what somebody has yet to  *)
(* fetch: the join requests of a room, for its host, and the welcomes of   *)
(* an identity, for its devices.  Nothing is handed over for good: fetching*)
(* marks as read, a later fetch names what it has dealt with (by identity  *)
(* or key package, and the millisecond it was stored in), and a timer      *)
(* deletes what was read an hour ago or stored thirty days ago.            *)
(*                                                                         *)
(* The guests' key packages are last-resort ones, one for all their rooms. *)
(* Calls that the rate limiter or a failure turns away are not taken; an   *)
(* answer may be lost.                                                     *)
(***************************************************************************)
EXTENDS Integers, Sequences, FiniteSets

CONSTANTS Rooms,      \* of hosts that share the coordinator
          Guests,
          MaxPending, \* MAX_PENDING_JOIN_REQUESTS_PER_GROUP
          MaxWelcomes,\* bound: welcomes in the queue of a guest
          ReadTtl,    \* welcomeTtlMs, and the period of the timer
          UnreadTtl,  \* welcomeMaxAgeMs
          MaxRequests,\* bound: requests that are made
          MaxTime     \* bound: the clock

VARIABLES
  now,       \* the clock; any number of calls are handled between two ticks
  requests,  \* [Rooms -> set of [pk, at, readAt, again]]: joinRequestsByGroup, whose
             \* order nobody looks at
  welcomes,  \* [Guests -> Seq of [room, at, readAt]]: welcomesByIdentity
  deleted,   \* deletedGroups
  admitting, \* [Rooms -> the requests its host has fetched and deals with]
  admitted,  \* [Rooms -> those whose welcome it has stored and will acknowledge]
  joining,   \* [Guests -> the room and time of the welcome it has opened, or nothing]
  joined,    \* [Guests -> the rooms it is in]
  made       \* requests made so far

hostVars == <<admitting, admitted>>
guestVars == <<joining, joined>>
vars == <<now, requests, welcomes, deleted, hostVars, guestVars, made>>

Never == 0   \* null; the clock starts at 1
Nothing == [room |-> "none", at |-> Never]

Init ==
  /\ now = 1
  /\ requests = [g \in Rooms |-> {}]
  /\ welcomes = [p \in Guests |-> <<>>]
  /\ deleted = {}
  /\ admitting = [g \in Rooms |-> {}]
  /\ admitted = admitting
  /\ joining = [p \in Guests |-> Nothing]
  /\ joined = [p \in Guests |-> {}]
  /\ made = 0

-------------------------------------------------------------------------------
(* The storage. *)

\* Fetching marks what it returns; the time of the first reading stays.
Read(q) == [q EXCEPT !.readAt = IF @ = Never THEN now ELSE @]
AllRead(queue) == [i \in DOMAIN queue |-> Read(queue[i])]

\* What the timer leaves at a time.
IsKept(q, time) ==
  IF q.readAt = Never THEN q.at >= time - UnreadTtl ELSE q.readAt >= time - ReadTtl

\* Mutant: a repeated request keeps the time at which it was first made.
Reopened(q) == [q EXCEPT !.readAt = Never]

\* A request of an identity that has one in the queue is the same request, made now.
Refreshed(q) == [q EXCEPT !.at = now, !.readAt = Never, !.again = q.at = now]

\* fetchPendingJoinRequests: the requests that its consumed list does not name.
Name(q) == [pk |-> q.pk, at |-> q.at]
Unanswered(queue, consumed) == {q \in queue : Name(q) \notin consumed}

\* fetchPendingWelcomes: the key package is the same for all of the guest.
UnopenedWelcomes(queue, at) == SelectSeq(queue, LAMBDA q : q.at # at)

-------------------------------------------------------------------------------
(* The calls, and the timer. *)

\* A guest asks to be let in, once or again.
StoreJoinRequest(g, p) ==
  /\ made < MaxRequests
  /\ made' = made + 1
  /\ g \notin joined[p]
  /\ g \notin deleted
  /\ \/ \E q \in requests[g] :
          /\ q.pk = p
          /\ requests' = [requests EXCEPT ![g] = (@ \ {q}) \union {Refreshed(q)}]
     \/ /\ \A q \in requests[g] : q.pk # p
        /\ Cardinality(requests[g]) < MaxPending
        /\ requests' = [requests EXCEPT
             ![g] = @ \union {[pk |-> p, at |-> now, readAt |-> Never, again |-> FALSE]}]
  /\ UNCHANGED <<now, welcomes, deleted, hostVars, guestVars>>

\* A sync of the host begins with the requests of its room; another one waits for it.
FetchJoinRequests(g) ==
  /\ requests[g] # {}
  /\ admitting[g] = {} /\ admitted[g] = {}
  /\ requests' = [requests EXCEPT ![g] = {Read(q) : q \in @}]
  /\ admitting' = [admitting EXCEPT ![g] = {Name(q) : q \in requests[g]}]
  /\ UNCHANGED <<now, welcomes, deleted, admitted, guestVars, made>>

\* The guest of a request is added to the group, and its welcome stored.
StoreWelcome(g, r) ==
  /\ r \in admitting[g]
  /\ Len(welcomes[r.pk]) < MaxWelcomes
  /\ admitting' = [admitting EXCEPT ![g] = @ \ {r}]
  /\ admitted' = [admitted EXCEPT ![g] = @ \union {r}]
  /\ welcomes' = [welcomes EXCEPT
       ![r.pk] = Append(@, [room |-> g, at |-> now, readAt |-> Never])]
  /\ UNCHANGED <<now, requests, deleted, guestVars, made>>

\* The sync ends with a call that names the requests that were answered, if there are
\* any and it arrives; the others are left for the next.  What the call returns is not
\* looked at.
AckRequests(g, arrives) ==
  /\ admitting[g] # {} \/ admitted[g] # {}
  /\ admitting' = [admitting EXCEPT ![g] = {}]
  /\ admitted' = [admitted EXCEPT ![g] = {}]
  /\ requests' = IF arrives /\ admitted[g] # {}
                 THEN [requests EXCEPT ![g] = {Read(q) : q \in Unanswered(@, admitted[g])}]
                 ELSE requests
  /\ UNCHANGED <<now, welcomes, deleted, guestVars, made>>

\* The session of a room that its guest waits for fetches all welcomes of the guest,
\* and opens the first one for its room.
FetchWelcomes(p, g) ==
  /\ joining[p] = Nothing
  /\ g \notin joined[p]
  /\ welcomes' = [welcomes EXCEPT ![p] = AllRead(@)]
  /\ LET its == SelectSeq(welcomes[p], LAMBDA w : w.room = g) IN
       IF its = <<>> THEN UNCHANGED guestVars
       ELSE /\ joining' = [joining EXCEPT ![p] = [room |-> g, at |-> Head(its).at]]
            /\ joined' = [joined EXCEPT ![p] = @ \union {g}]
  /\ UNCHANGED <<now, requests, deleted, hostVars, made>>

\* ...and acknowledges it, if the call arrives.
AckWelcome(p, arrives) ==
  /\ joining[p] # Nothing
  /\ joining' = [joining EXCEPT ![p] = Nothing]
  /\ IF arrives
     THEN welcomes' = [welcomes EXCEPT ![p] = AllRead(UnopenedWelcomes(@, joining[p].at))]
     ELSE UNCHANGED welcomes
  /\ UNCHANGED <<now, requests, deleted, hostVars, joined, made>>

\* The host deletes its room: the log and the requests go, the welcomes do not.
DeleteGroup(g) ==
  /\ g \notin deleted
  /\ deleted' = deleted \union {g}
  /\ requests' = [requests EXCEPT ![g] = {}]
  /\ UNCHANGED <<now, welcomes, hostVars, guestVars, made>>

\* The clock ticks, and the timer runs when its period is over.
Tick ==
  /\ now < MaxTime
  /\ now' = now + 1
  /\ IF now' % ReadTtl = 0
     THEN /\ requests' = [g \in Rooms |-> {q \in requests[g] : IsKept(q, now')}]
          /\ welcomes' = [p \in Guests |-> SelectSeq(welcomes[p], LAMBDA w : IsKept(w, now'))]
     ELSE UNCHANGED <<requests, welcomes>>
  /\ UNCHANGED <<deleted, hostVars, guestVars, made>>

Next ==
  \/ \E g \in Rooms :
       \/ \E p \in Guests : StoreJoinRequest(g, p) \/ FetchWelcomes(p, g)
       \/ FetchJoinRequests(g)
       \/ \E r \in admitting[g] : StoreWelcome(g, r)
       \/ \E arrives \in BOOLEAN : AckRequests(g, arrives)
       \/ DeleteGroup(g)
  \/ \E p \in Guests, arrives \in BOOLEAN : AckWelcome(p, arrives)
  \/ Tick

Spec == Init /\ [][Next]_vars

-------------------------------------------------------------------------------
\* A host that acknowledges requests late, after the guest has asked again, does not
\* discard what it has not seen: a request nobody has read leaves the queue only with
\* its room, after its time, or if it was made twice within the same millisecond.
RetriedRequestIsKept ==
  [][\A g \in Rooms \ deleted' : \A q \in requests[g] :
       q.readAt = Never /\ ~q.again /\ q.at >= now' - UnreadTtl
         => \E r \in requests'[g] : r.pk = q.pk /\ r.at >= q.at]_vars
===============================================================================
