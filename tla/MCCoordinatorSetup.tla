-------------------------- MODULE MCCoordinatorSetup --------------------------
(***************************************************************************)
(* One run for the setup of the coordinator and for the relay pool.  They  *)
(* share no variable and no action of one reads the other, so each is      *)
(* explored from the initial states of both while the other one rests      *)
(* (focus): their interleavings show nothing that this does not.           *)
(***************************************************************************)
EXTENDS CoordinatorSetup, RelayPool

VARIABLE focus

allVars == <<focus, vars, poolVars>>

MCInit ==
  /\ Init /\ PoolInit
  /\ focus = "setup" \/ (focus = "relays" /\ key = 1 /\ stored = NoConfig)

SetupNext == focus = "setup" /\ Next /\ UNCHANGED <<focus, poolVars>>
OnRelays(A) == focus = "relays" /\ A /\ UNCHANGED <<focus, vars>>
MCNext == SetupNext \/ OnRelays(PoolNext)

\* The fairness of RelayPool.
MCFairness ==
  \A c \in Calls : /\ WF_allVars(OnRelays(AttemptTimer(c)))
                   /\ WF_allVars(OnRelays(AttemptEnds(c)))
                   /\ WF_allVars(OnRelays(DelayEnds(c)))

MCSpec == MCInit /\ [][MCNext]_allVars /\ MCFairness
===============================================================================
