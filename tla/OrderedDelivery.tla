--------------------------- MODULE OrderedDelivery ---------------------------
(***************************************************************************)
(* What the coordinator promises the peer that opens a group message       *)
(* stream, with no queue, no backlog and no registration: every group has  *)
(* a log that only grows until the group is deleted for good, and a stream *)
(* hands out, for each of its groups, the records behind the position it   *)
(* was opened at, in order, one at a time, until it ends.  It may pass     *)
(* over a record only if the poster was told that the post has failed.     *)
(* CoordinatorStreams implements this specification.                       *)
(***************************************************************************)
EXTENDS Naturals

CONSTANTS Groups,       \* the room group identifiers
          Streams,      \* the msg_sub and msg_sub_many calls
          MaxMessages   \* bound on the records of one group

VARIABLES length,       \* [Groups -> Nat]: how many records there are
          failed,       \* [Groups -> SUBSET Nat]: those whose poster got an error
          deleted,      \* the groups with a tombstone
          phase,        \* [Streams -> {"idle", "open", "ended"}]
          legs,         \* [Streams -> SUBSET Groups]: the groups of a stream
          position,     \* [Streams -> [Groups -> Nat]]: the last cursor passed
          ending        \* the streams that were told to end

logVars == <<length, failed, deleted>>
streamVars == <<phase, legs, position, ending>>
vars == <<logVars, streamVars>>

Init ==
  /\ length = [g \in Groups |-> 0]
  /\ failed = [g \in Groups |-> {}]
  /\ deleted = {}
  /\ phase = [s \in Streams |-> "idle"]
  /\ legs = [s \in Streams |-> {}]
  /\ position = [s \in Streams |-> [g \in Groups |-> 0]]
  /\ ending = {}

\* A post, which may fail after its record was stored.
Accept(g) ==
  /\ g \notin deleted
  /\ length[g] < MaxMessages
  /\ length' = [length EXCEPT ![g] = @ + 1]
  /\ failed' \in {failed, [failed EXCEPT ![g] = @ \union {length'[g]}]}
  /\ UNCHANGED <<deleted, streamVars>>

\* A deletion ends the streams of its group, unless it fails after the tombstone was
\* stored; then the next attempt does.
Delete(g) ==
  /\ deleted' = deleted \union {g}
  /\ \/ ending' = ending \union {s \in Streams : phase[s] = "open" /\ g \in legs[s]}
     \/ g \notin deleted /\ UNCHANGED ending
  /\ UNCHANGED <<length, failed, phase, legs, position>>

\* A stream opens on live groups only, at any position, even one ahead of the log.
Open(s) ==
  /\ phase[s] = "idle"
  /\ phase' = [phase EXCEPT ![s] = "open"]
  /\ legs'[s] \subseteq Groups \ deleted
  /\ legs' = [legs EXCEPT ![s] = legs'[s]]
  /\ position'[s] \in [Groups -> Nat]
  /\ position' = [position EXCEPT ![s] = position'[s]]
  /\ UNCHANGED <<logVars, ending>>

\* The next record, or one behind failed ones.
Deliver(s, g) ==
  /\ phase[s] = "open"
  /\ g \in legs[s]
  /\ \E c \in (position[s][g] + 1)..length[g] :
       /\ (position[s][g] + 1)..(c - 1) \subseteq failed[g]
       /\ position' = [position EXCEPT ![s][g] = c]
  /\ UNCHANGED <<logVars, phase, legs, ending>>

\* The peer leaves.
Abort(s) ==
  /\ phase[s] = "open"
  /\ ending' = ending \union {s}
  /\ UNCHANGED <<logVars, phase, legs, position>>

End(s) ==
  /\ phase[s] = "open"
  /\ phase' = [phase EXCEPT ![s] = "ended"]
  /\ ending' = ending \union {s}
  /\ UNCHANGED <<logVars, legs, position>>

Next ==
  \/ \E g \in Groups : Accept(g) \/ Delete(g)
  \/ \E s \in Streams : Open(s) \/ Abort(s) \/ End(s)
  \/ \E s \in Streams, g \in Groups : Deliver(s, g)

Spec == Init /\ [][Next]_vars

\* A record that was posted and that the stream has not passed.
Owes(s, g) == \E c \in (position[s][g] + 1)..length[g] : c \notin failed[g]

\* A record that a stream owes is eventually handed out, or the stream ends; a stream
\* whose group was deleted or whose peer has left ends.
FairSpec ==
  /\ Spec
  /\ \A s \in Streams, g \in Groups : WF_vars(Deliver(s, g) /\ Owes(s, g))
  /\ \A s \in Streams : WF_vars(End(s) /\ s \in ending)
==============================================================================
