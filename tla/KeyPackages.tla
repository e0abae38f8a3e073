------------------------------- MODULE KeyPackages -------------------------------
(***************************************************************************)
(* The key packages the coordinator keeps for one identity, and admission  *)
(* by them: devices of the identity publish packages (kp_publish) and ask  *)
(* to join rooms with them (join_request_store); the host of a room takes  *)
(* a package for the request (kp_take) and makes a welcome that only the   *)
(* device that has the package can open.  What becomes of the room then is *)
(* RoomSync's.                                                             *)
(*                                                                         *)
(* The client sends a publication again when it hears nothing or an error  *)
(* (callIdempotentWrite); what it sent before may still arrive, at any     *)
(* time (a join request arrives at once or never).  A package is the number of its making.  Last-resort packages are *)
(* handed out any number of times and ordinary ones once; this client      *)
(* publishes last-resort packages, other and older clients both kinds.     *)
(* Identities share nothing, and one is modelled.                          *)
(***************************************************************************)
EXTENDS Integers, Sublists

CONSTANTS Devices,      \* those of the identity
          MaxPackages,  \* bound: packages made
          Quotas,       \* values of the setting maxUsers, the quota of an identity
          MaxTries,     \* IDEMPOTENT_WRITE_RETRY_DELAYS_MS: tries of a call; and
                        \* bound: publications of a package on their way
          MaxRestarts   \* bound: restarts of the coordinator

ASSUME KeyPackageAssumption ==
  /\ {MaxPackages, MaxRestarts} \subseteq Nat
  /\ Quotas \subseteq Nat \ {0} /\ Quotas # {}
  /\ MaxTries \in Nat \ {0}

VARIABLES
  records,   \* the packages of the identity, in the order they were published
  quota,     \* maxPerIdentity
  request,   \* its join request: the package it names, and whether it was read
  packages,  \* Seq of [device, last]: the packages made so far
  calls,     \* [package -> publications of it that are on their way]
  phase,     \* [Devices -> idle, publishing, requesting]
  current,   \* [Devices -> the package of the join under way]
  stored,    \* [Devices -> the package of the rooms it has stored]
  tries,     \* [Devices -> tries of the call under way]
  taking,    \* the package of the request the host is admitting
  restarts,
  unspent    \* history: [package -> publications accepted less times handed out],
             \* of the ordinary ones

coordinatorVars == <<records, quota, request>>
deviceVars == <<packages, phase, current, stored, tries>>
vars == <<coordinatorVars, deviceVars, calls, taking, restarts, unspent>>

Refs == 1..MaxPackages
None == 0
NoRequest == [ref |-> None, read |-> FALSE]

Init ==
  /\ records = <<>>
  /\ quota \in Quotas
  /\ request = NoRequest
  /\ packages = <<>>
  /\ calls = [r \in Refs |-> 0]
  /\ phase = [d \in Devices |-> "idle"]
  /\ current = [d \in Devices |-> None]
  /\ stored = current
  /\ tries = [d \in Devices |-> 0]
  /\ taking = None
  /\ restarts = 0
  /\ unspent = calls

IsLast(r) == packages[r].last
IsOrdinary(r) == ~IsLast(r)

\* Accepting the publication of an ordinary package entitles to hand it out once.
Entitle(r, n) == unspent' = IF IsLast(r) THEN unspent ELSE [unspent EXCEPT ![r] = @ + n]

-------------------------------------------------------------------------------
(* The directory. *)

Ordinary == Only(records, {r \in DOMAIN packages : IsOrdinary(r)})

\* enforceKeyPackageQuota first makes room for a last-resort package...
MadeRoom(r) == IF IsLast(r) THEN Ordinary ELSE records

\* ...and then counts with the number of ordinary packages, from which it has taken
\* the one it replaces twice: listKeyPackagesForIdentity is the list itself.
IsWithinQuota(r) ==
  IF IsLast(r) THEN Len(MadeRoom(r)) + 1 <= quota + (Len(records) - Len(MadeRoom(r)))
  ELSE Len(records) < quota

Published(r) == Append(MadeRoom(r), r)

\* publishKeyPackage: the records it leaves, whether it accepts or throws.
Publish(r, accepted) ==
  /\ accepted = IsWithinQuota(r)
  /\ records' = IF accepted THEN Published(r) ELSE MadeRoom(r)
  /\ Entitle(r, IF accepted THEN 1 ELSE 0)

\* kp_take with the reference, and if that is not there with the identity: an
\* ordinary package before the newest last-resort one.
Consumed(r) ==
  IF r \in Elements(records) THEN r
  ELSE IF Ordinary # <<>> THEN Head(Ordinary) ELSE records[Len(records)]

\* Mutant: a package that was handed out stays.
AsBefore(r) == records

AfterConsuming(r) == IF IsLast(r) THEN records ELSE WithoutFirst(records, r)

-------------------------------------------------------------------------------
(* The devices. *)

\* A call on its way: those above the bound are lost.
Sent(r) == IF calls[r] < MaxTries THEN [calls EXCEPT ![r] = @ + 1] ELSE calls

\* A join begins with the package of a stored room of the same coordinator, if there
\* is one, or with a package made for it; and publishes it.
Call(d, r) ==
  /\ phase' = [phase EXCEPT ![d] = "publishing"]
  /\ current' = [current EXCEPT ![d] = r]
  /\ tries' = [tries EXCEPT ![d] = 1]
  /\ calls' = Sent(r)

Join(d, last) ==
  /\ phase[d] = "idle"
  /\ stored[d] = None
  /\ Len(packages) < MaxPackages
  /\ packages' = Append(packages, [device |-> d, last |-> last])
  /\ Call(d, Len(packages'))
  /\ UNCHANGED <<coordinatorVars, stored, taking, restarts, unspent>>

JoinAgain(d) ==
  /\ phase[d] = "idle"
  /\ stored[d] # None
  /\ Call(d, stored[d])
  /\ UNCHANGED <<coordinatorVars, packages, stored, taking, restarts, unspent>>

\* A publication arrives, and its answer reaches the device if it still waits.
HandlePublish(r, heard) ==
  /\ calls[r] > 0
  /\ calls' = [calls EXCEPT ![r] = @ - 1]
  /\ \E accepted \in BOOLEAN :
       /\ Publish(r, accepted)
       /\ LET d == packages[r].device IN
            IF heard /\ accepted /\ phase[d] = "publishing" /\ current[d] = r
            THEN /\ phase' = [phase EXCEPT ![d] = "requesting"]
                 /\ tries' = [tries EXCEPT ![d] = 1]
            ELSE UNCHANGED <<phase, tries>>
  /\ UNCHANGED <<quota, request, packages, current, stored, taking, restarts>>

\* The room is stored, and its package serves further rooms if it is a last-resort one.
KeptForRooms(d) == IF IsLast(current[d]) THEN current[d] ELSE stored[d]

\* A request arrives: it replaces one of the same identity.
HandleRequest(d, heard) ==
  /\ phase[d] = "requesting"
  /\ current[d] \in Elements(records)
  /\ request' = [ref |-> current[d], read |-> FALSE]
  /\ IF heard
     THEN /\ phase' = [phase EXCEPT ![d] = "idle"]
          /\ stored' = [stored EXCEPT ![d] = KeptForRooms(d)]
     ELSE UNCHANGED <<phase, stored>>
  /\ UNCHANGED <<records, quota, packages, calls, current, tries, taking, restarts,
                 unspent>>

\* No answer, or an error: the call is made again, until the join fails.
Retry(d) ==
  /\ phase[d] \in {"publishing", "requesting"}
  /\ IF tries[d] < MaxTries
     THEN /\ tries' = [tries EXCEPT ![d] = @ + 1]
          /\ calls' = IF phase[d] = "publishing" THEN Sent(current[d]) ELSE calls
          /\ UNCHANGED phase
     ELSE /\ phase' = [phase EXCEPT ![d] = "idle"]
          /\ UNCHANGED <<tries, calls>>
  /\ UNCHANGED <<coordinatorVars, packages, current, stored, taking, restarts,
                 unspent>>

\* kp_remove, which other clients of the identity call.
RemoveKeyPackage(r) ==
  /\ r \in Elements(records)
  /\ records' = WithoutFirst(records, r)
  /\ UNCHANGED <<quota, request, deviceVars, calls, taking, restarts, unspent>>

-------------------------------------------------------------------------------
(* The host, and the coordinator's restarts. *)

\* fetchJoinRequests marks what it hands out as read.
FetchRequest ==
  /\ taking = None
  /\ request.ref # None
  /\ taking' = request.ref
  /\ request' = [request EXCEPT !.read = TRUE]
  /\ UNCHANGED <<records, quota, deviceVars, calls, restarts, unspent>>

\* acceptJoinRequests takes a package.  If there is none, or the answer is lost, the
\* request is left for later; else it is acknowledged, which removes it unless it was
\* made again meanwhile.
Admit(heard) ==
  /\ taking # None
  /\ taking' = None
  /\ IF records = <<>> THEN UNCHANGED <<records, request, unspent>>
     ELSE LET r == Consumed(taking) IN
       /\ records' = AfterConsuming(r)
       /\ Entitle(r, -1)
       /\ request' = IF heard /\ request.read THEN NoRequest ELSE request
  /\ UNCHANGED <<quota, deviceVars, calls, restarts>>

\* The coordinator is started again, perhaps with another quota and without what it
\* had stored.  Calls to the one that stopped are lost.
Restart(q, keeps) ==
  /\ restarts < MaxRestarts
  /\ restarts' = restarts + 1
  /\ quota' = q
  /\ IF keeps THEN UNCHANGED <<records, request>>
     ELSE records' = <<>> /\ request' = NoRequest
  /\ calls' = [r \in Refs |-> 0]
  /\ UNCHANGED <<deviceVars, taking, unspent>>

Next ==
  \/ \E d \in Devices :
       \/ \E last \in BOOLEAN : Join(d, last)
       \/ JoinAgain(d)
       \/ \E heard \in BOOLEAN : HandleRequest(d, heard)
       \/ Retry(d)
  \/ \E r \in Refs :
       \/ \E heard \in BOOLEAN : HandlePublish(r, heard)
       \/ RemoveKeyPackage(r)
  \/ FetchRequest
  \/ \E heard \in BOOLEAN : Admit(heard)
  \/ \E q \in Quotas, keeps \in BOOLEAN : Restart(q, keeps)

Spec == Init /\ [][Next]_vars

-------------------------------------------------------------------------------
\* Every variable has the shape the code gives it; and the package a device keeps for
\* the rooms to come is one that can be handed out again.
TypeOK ==
  /\ packages \in Seq([device : Devices, last : BOOLEAN])
  /\ Len(packages) <= MaxPackages
  /\ records \in Seq(DOMAIN packages)
  /\ quota \in Quotas
  /\ request \in [ref : {None} \union DOMAIN packages, read : BOOLEAN]
  /\ calls \in [Refs -> 0..MaxTries]
  /\ phase \in [Devices -> {"idle", "publishing", "requesting"}]
  /\ current \in [Devices -> {None} \union DOMAIN packages]
  /\ stored \in [Devices -> {None} \union DOMAIN packages]
  /\ \A d \in Devices : stored[d] # None => IsLast(stored[d])
  /\ tries \in [Devices -> 0..MaxTries]
  /\ taking \in {None} \union DOMAIN packages
  /\ restarts \in 0..MaxRestarts
  /\ unspent \in [Refs -> Int]

\* An ordinary package is handed out once for each time it was published, whoever asks
\* for it: by its reference, or by the identity.
HandedOutOnce == \A r \in DOMAIN packages : unspent[r] >= 0
===============================================================================
