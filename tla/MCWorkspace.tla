------------------------------ MODULE MCWorkspace ------------------------------
(***************************************************************************)
(* The workspace of a browser: its room sessions (Workspace), and what it  *)
(* shows of the coordinators of others (Reachability).  They share no      *)
(* state, and one is explored at a time.  What the sessions do is safety   *)
(* only; the other ends by showing what is the case.                       *)
(***************************************************************************)
EXTENDS Workspace

CONSTANTS Coordinators, Chat, MaxProbes, MaxEvents, MaxMisses

VARIABLES focus,
          state, deleted, onLine, rooms, reachMounted, open, measured, signature, probes,
          connection, wasOnline, sync, stopped, events, misses

Servers == INSTANCE Reachability WITH mounted <- reachMounted

railVars == <<state, deleted, onLine, rooms, reachMounted, open, measured, signature, probes,
              connection, wasOnline, sync, stopped, events, misses>>
allVars == <<focus, workspaceVars, railVars>>

MCInit ==
  /\ WorkspaceInit
  /\ \/ /\ focus = "rooms"
        /\ state = <<>> /\ deleted = FALSE /\ onLine = TRUE /\ rooms = {}
        /\ reachMounted = FALSE /\ open = FALSE /\ measured = <<>> /\ signature = {}
        /\ probes = [i \in 1..MaxProbes |-> Servers!Idle]
        /\ connection = "connecting" /\ wasOnline = FALSE
        /\ sync = "idle" /\ stopped = TRUE /\ events = 0 /\ misses = 0
     \/ /\ focus = "rail" /\ Servers!Init /\ Coordinators \ {Chat} \subseteq rooms
        /\ current = [r \in Rooms |-> "absent"] /\ alias = NoRoom /\ lastOpen = NoRoom

OnRail(A) == focus = "rail" /\ A /\ UNCHANGED <<focus, workspaceVars>>
MCNext ==
  \/ focus = "rooms" /\ WorkspaceNext /\ UNCHANGED <<focus, railVars>>
  \/ OnRail(Servers!Next)

\* The timers of the page, and answers or the end of the wait for them.  Nothing is
\* assumed of the user, the network or the coordinators, but that a heartbeat expires.
MCFairness ==
  /\ WF_allVars(OnRail(Servers!Tick)) /\ WF_allVars(OnRail(Servers!SyncBegins))
  /\ WF_allVars(OnRail(Servers!SyncAnswered)) /\ WF_allVars(OnRail(Servers!SyncEnds))
  /\ \A i \in 1..MaxProbes :
       /\ WF_allVars(OnRail(Servers!ProbeEnds(i)))
       /\ \A c \in Coordinators : WF_allVars(OnRail(Servers!RelaysAnswer(i, c)))
  /\ \A c \in Coordinators : WF_allVars(OnRail(Servers!HeartbeatExpires(c)))

MCSpec == MCInit /\ [][MCNext]_allVars /\ MCFairness

\* A probe does not undo what a session has found since it began (Reachability).
FresherEvidenceStands == Servers!FresherEvidenceStands

\* What is shown of the coordinators of others ends as it is (Reachability).
ReachabilitySettles == Servers!ReachabilitySettles
===============================================================================
