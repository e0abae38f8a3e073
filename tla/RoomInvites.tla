------------------------------- MODULE RoomInvites -------------------------------
(***************************************************************************)
(* A room and the links that invite to it: the host replaces its link and  *)
(* admits those who ask with one (room-store.ts, HostWorkspace.svelte),    *)
(* and a guest opens links, now one and now another, while its browser     *)
(* keeps what the earlier ones led to (invite.ts, ChatRoute.svelte).  What *)
(* a link says of the host is shown until the group itself proves or       *)
(* refutes it.                                                             *)
(*                                                                         *)
(* One room and one guest at a time: when the guest's identity is replaced *)
(* its request is a stranger's, and is left out.  Left out as well are two *)
(* pages that join the room at once, and what KeyPackages and PendingQueues*)
(* have of the coordinator; here a call is heard or not.                   *)
(***************************************************************************)
EXTENDS Integers

CONSTANTS MaxLinks  \* bound: invite tokens made for the room

VARIABLES
  token,     \* room.inviteToken of the host: the last of 1..token
  auto,      \* room.autoApprove
  waiting,   \* pendingJoinRequests of the host's session
  admitting, \* the request that acceptJoinRequests deals with
  request,   \* the guest's join request at the coordinator: the token it came with
  welcome,   \* a welcome for the guest is at the coordinator
  route,     \* the page of the room: closed, open, or in createJoiningRoom, before and
             \* after the request is stored, or after it failed
  link,      \* the link it was opened with
  attached,  \* it has a session
  room,      \* the guest's stored room
  seen,      \* history: tokens with which a request came before they were replaced
  admittedBy \* history: tokens of requests the host has admitted

hostVars == <<token, auto, waiting, admitting>>
guestVars == <<route, link, attached, room>>
vars == <<hostVars, request, welcome, guestVars, seen, admittedBy>>

None == 0       \* no token: a link of another client; no request
NoRequest == -1

\* What is said of the host: nothing, its key and name, its key and a new name, a key
\* that is not the creator's; and what is shown when nothing is known.
Claims == {"nothing", "creator", "renamed", "other"}
OfCreator == {"creator", "renamed"}

NoRoom == [status |-> "none", token |-> None, host |-> "nothing"]
NoLink == [token |-> None, host |-> "nothing"]

Init ==
  /\ token = 1
  /\ auto \in BOOLEAN
  /\ waiting = NoRequest
  /\ admitting = NoRequest
  /\ request = NoRequest
  /\ welcome = FALSE
  /\ route = "closed"
  /\ link = NoLink
  /\ attached = FALSE
  /\ room = NoRoom
  /\ seen = {}
  /\ admittedBy = {}

-------------------------------------------------------------------------------
(* The host. *)

\* Mutant: any request for the room will do.
AnyRequest(r) == r # NoRequest

\* isCurrentInviteRequest; links without a token are not told apart.
IsCurrent(r) == r # NoRequest /\ r \in {None, token}

Fetched == IF IsCurrent(request) THEN request ELSE NoRequest

\* "Refresh invite link", whatever the session does at the time.
RotateRoomInvite ==
  /\ token < MaxLinks
  /\ token' = token + 1
  /\ UNCHANGED <<auto, waiting, admitting, request, welcome, guestVars, seen, admittedBy>>

SetAutoApprove ==
  /\ auto' = ~auto
  /\ UNCHANGED <<token, waiting, admitting, request, welcome, guestVars, seen, admittedBy>>

Saw == seen' = seen \union (IF request = token THEN {request} ELSE {})

\* syncOnce: requests are admitted, or listed until the host approves.
SyncRequests ==
  /\ admitting = NoRequest
  /\ IF auto THEN admitting' = Fetched /\ waiting' = NoRequest
     ELSE waiting' = Fetched /\ admitting' = NoRequest
  /\ Saw
  /\ UNCHANGED <<token, auto, request, welcome, guestVars, admittedBy>>

\* approveJoinRequests: those that are listed, as they were then; or those there are.
ApproveJoinRequests ==
  /\ admitting = NoRequest
  /\ IF waiting # NoRequest
     THEN admitting' = waiting /\ UNCHANGED seen
     ELSE admitting' = Fetched /\ Saw
  /\ waiting' = NoRequest
  /\ UNCHANGED <<token, auto, request, welcome, guestVars, admittedBy>>

\* acceptJoinRequests, which does not look at the link again.  The acknowledgement
\* removes the request unless the guest has asked again since.
AcceptJoinRequests(done) ==
  /\ admitting # NoRequest
  /\ admitting' = NoRequest
  /\ IF done
     THEN /\ welcome' = TRUE
          /\ admittedBy' = admittedBy \union {admitting}
          /\ request' \in {request, NoRequest}
          /\ UNCHANGED waiting
     ELSE /\ waiting' = admitting
          /\ UNCHANGED <<welcome, admittedBy, request>>
  /\ UNCHANGED <<token, auto, guestVars, seen>>

-------------------------------------------------------------------------------
(* What the guest is shown. *)

\* reconcileRoomHostIdentity: a claim stands if the group was created with its key.
Reconciled(host) == IF host \in OfCreator THEN host ELSE "nothing"

\* hostIdentityForRoom: an admitted room has the group to prove it, a waiting one only
\* the claim, and a retired one neither.
Shown(r) ==
  CASE r.status = "member" -> Reconciled(r.host)
    [] r.status = "waiting" -> r.host
    [] OTHER -> "nothing"

\* mergeFreshInviteMetadata, of which a retired room has nothing to check it by.
MergedHost(r, host) ==
  IF host = "nothing" THEN r.host
  ELSE IF r.status = "waiting" THEN host
  ELSE IF r.status = "member" /\ (host \in OfCreator \/ Shown(r) = "nothing")
       THEN Reconciled(host)
  ELSE IF Shown(r) # "nothing" THEN r.host ELSE "nothing"

\* parseInviteUrl: of a damaged link the coordinator must be there, what it says of the
\* host need not.
Parsed(l, damage) ==
  CASE damage = "none" -> l
    [] damage = "metadata" -> [l EXCEPT !.host = "nothing"]

-------------------------------------------------------------------------------
(* The guest. *)

\* initializeRoute: a stored room is shown, brought up to date, and attached to if its
\* identity is the one in use; a room that is not stored is joined.
OpenLink(l, damage) ==
  /\ route = "closed"
  /\ link' = Parsed(l, damage)
  /\ IF room.status = "none"
     THEN route' = "joining" /\ UNCHANGED <<attached, room>>
     ELSE /\ route' = "open"
          /\ room' = [room EXCEPT !.host = MergedHost(room, link'.host)]
          /\ attached' = (room.status # "retired")
  /\ UNCHANGED <<hostVars, request, welcome, seen, admittedBy>>

\* createJoiningRoom: the request is stored, and the room when that is heard.  A
\* request that is not heard is made again.
StoreJoinRequest(heard) ==
  /\ route = "joining"
  /\ request' = link.token
  /\ route' = IF heard THEN "asked" ELSE route
  /\ UNCHANGED <<hostVars, welcome, link, attached, room, seen, admittedBy>>

\* Mutant: the room is saved before the request is made.
SavedFirst == route = "joining"

\* The request was stored.
Asked == route = "asked"

\* The page may have been left meanwhile, which keeps it from attaching but not from
\* saving the room.
SaveJoiningRoom(left) ==
  /\ Asked
  /\ room' = [status |-> "waiting", token |-> link.token, host |-> link.host]
  /\ route' = IF left THEN "closed" ELSE "open"
  /\ link' = IF left THEN NoLink ELSE link
  /\ attached' = ~left
  /\ UNCHANGED <<hostVars, request, welcome, seen, admittedBy>>

\* join() fails, and may be tried again.
JoinFails ==
  /\ route = "joining"
  /\ route' = "failed"
  /\ UNCHANGED <<hostVars, request, welcome, link, attached, room, seen, admittedBy>>

RetryEstablishedIdentity ==
  /\ route = "failed"
  /\ route' = "joining"
  /\ UNCHANGED <<hostVars, request, welcome, link, attached, room, seen, admittedBy>>

\* The session opens its welcome, and checks the claim against the group.
AcceptWelcome ==
  /\ attached /\ welcome
  /\ room.status = "waiting"
  /\ welcome' = FALSE
  /\ room' = [room EXCEPT !.status = "member", !.host = Reconciled(@)]
  /\ UNCHANGED <<hostVars, request, route, link, attached, seen, admittedBy>>

CloseRoute ==
  /\ route # "closed"
  /\ route \notin {"joining", "asked"}
  /\ route' = "closed" /\ link' = NoLink /\ attached' = FALSE
  /\ UNCHANGED <<hostVars, request, welcome, room, seen, admittedBy>>

\* The guest leaves the room: what the coordinator has stays.
RemoveStoredRoom ==
  /\ room.status # "none"
  /\ route \notin {"joining", "asked"}
  /\ room' = NoRoom
  /\ route' = "closed" /\ link' = NoLink /\ attached' = FALSE
  /\ UNCHANGED <<hostVars, request, welcome, seen, admittedBy>>

\* The guest's anonymous identity is replaced (retireAnonymousMemberships).
RetireMembership ==
  /\ room.status \in {"waiting", "member"}
  /\ route \notin {"joining", "asked"}
  /\ room' = [room EXCEPT !.status = "retired", !.token = None]
  /\ attached' = FALSE
  /\ request' = NoRequest /\ welcome' = FALSE
  /\ waiting' = NoRequest /\ admitting' = NoRequest
  /\ UNCHANGED <<token, auto, route, link, seen, admittedBy>>

Links == [token : None..token, host : Claims]

Next ==
  \/ RotateRoomInvite \/ SetAutoApprove
  \/ SyncRequests \/ ApproveJoinRequests
  \/ \E done \in BOOLEAN : AcceptJoinRequests(done)
  \/ \E l \in Links, damage \in {"none", "metadata"} : OpenLink(l, damage)
  \/ \E heard \in BOOLEAN : StoreJoinRequest(heard)
  \/ \E left \in BOOLEAN : SaveJoiningRoom(left)
  \/ JoinFails \/ RetryEstablishedIdentity
  \/ AcceptWelcome
  \/ CloseRoute \/ RemoveStoredRoom \/ RetireMembership

Spec == Init /\ [][Next]_vars

-------------------------------------------------------------------------------
\* "New invite ready. Previous links are closed."  Who asks with a link that was
\* replaced before the host ever saw a request with it is not admitted, however syncs,
\* approvals and replacements overlap.  (A request the host has listed, or is dealing
\* with, is still admitted afterwards.)
PreviousLinksAreClosed == admittedBy \subseteq seen \union {None}

\* A room that waits for admission has been asked for: the request is in the queue or
\* on its way through the host, or the welcome is there; no page that is left, retried
\* or opened again in between makes it wait for nothing.
WaitingRoomsAsked ==
  room.status = "waiting" => request # NoRequest \/ admitting # NoRequest \/ welcome
                               \/ waiting # NoRequest
===============================================================================
