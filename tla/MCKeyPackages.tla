---------------------------- MODULE MCKeyPackages ----------------------------
(***************************************************************************)
(* What stands between a guest and its admission: the directory of key     *)
(* packages, the queues of requests and welcomes, the signals to a host in *)
(* the same tab, and the rate limiter.  They share no state but the calls, *)
(* which each may turn away, and one is explored at a time while the       *)
(* others rest.                                                            *)
(***************************************************************************)
EXTENDS KeyPackages, RateLimit, TLC

CONSTANTS Rooms, Guests, MaxPending, MaxWelcomes, MaxRequests, ReadTtl, UnreadTtl, MaxTime,
          Askers, MaxCalls, MaxOthers

VARIABLES focus,
          now, requests, welcomes, deleted, admitting, admitted, joining, joined, made,
          held, welcomed, call, subscribed, pendingSync, running, fetched, disturbed, asked,
          others

Queues == INSTANCE PendingQueues
Signals == INSTANCE JoinSignals

queueVars == <<now, requests, welcomes, deleted, admitting, admitted, joining, joined, made>>
signalVars == <<held, welcomed, call, subscribed, pendingSync, running, fetched, disturbed,
                asked, others>>
mcVars == <<vars, queueVars, signalVars, limitVars, focus>>

MCInit ==
  /\ Init
  /\ Queues!Init
  /\ Signals!Init
  /\ LimitInit
  /\ focus \in {"packages", "queues", "signals", "limits"}

MCNext ==
  \/ focus = "packages" /\ Next /\ UNCHANGED <<queueVars, signalVars, limitVars, focus>>
  \/ focus = "queues" /\ Queues!Next /\ UNCHANGED <<vars, signalVars, limitVars, focus>>
  \/ focus = "signals" /\ Signals!Next /\ UNCHANGED <<vars, queueVars, limitVars, focus>>
  \/ focus = "limits" /\ LimitNext /\ UNCHANGED <<vars, queueVars, signalVars, focus>>

MCSpec == MCInit /\ [][MCNext]_mcVars

RetriedRequestIsKept == Queues!RetriedRequestIsKept
AnswerBringsWelcome == Signals!AnswerBringsWelcome

\* Devices, rooms, guests and callers are interchangeable.
Symmetry == Permutations(Devices) \union Permutations(Rooms)
              \union Permutations(Guests) \union Permutations(Callers)
===============================================================================
