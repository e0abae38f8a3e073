------------------------------- MODULE RelayPool -------------------------------
(***************************************************************************)
(* The relay pool of the coordinator and of the guests (relay-pool.ts):    *)
(* the relays that were configured, the primary path, and the relay on     *)
(* localhost, the optional path, which is tried when it turns out to be    *)
(* there and must never delay or fail the primary one.                     *)
(*                                                                         *)
(* Both paths have tasks that wait for relays, for timers and for aborts.  *)
(* An abort is seen when the task goes on, which may be after the relay's  *)
(* answer: what waits is a record [at, cut], cut once its controller is    *)
(* aborted.  Left out: diagnostics, and what the relays do with the event. *)
(***************************************************************************)
EXTENDS Naturals

CONSTANTS
  Calls,      \* calls of publish()
  Subs,       \* calls of subscribe()
  MaxAttempts \* primaryMaxAttempts, at least 1

VARIABLES
  pool,      \* "up", "disconnecting" or "disconnected"
  primary,   \* [Calls -> the primary publication]
  tries,     \* [Calls -> attempts begun]
  aborted,   \* [Calls -> the caller's signal is aborted]
  optional,  \* [Calls -> the publication to localhost]
  ready,     \* localReadyUntil is in the future
  sub,       \* [Subs -> the subscription as its caller sees it]
  localSub   \* [Subs -> the subscription on localhost]

calls == <<primary, tries, aborted, optional>>
subs == <<sub, localSub>>
poolVars == <<pool, calls, ready, subs>>

Task(at) == [at |-> at, cut |-> FALSE]
Tasks(ats) == [at : ats, cut : BOOLEAN]
Settled == {"accepted", "aborted", "failed"}

PoolTypeOK ==
  /\ pool \in {"up", "disconnecting", "disconnected"}
  /\ primary \in [Calls -> Tasks({"none", "attempt", "yes", "no", "delay"} \union Settled)]
  /\ tries \in [Calls -> 0..MaxAttempts] /\ aborted \in [Calls -> BOOLEAN]
  /\ optional \in [Calls -> Tasks({"none", "probe", "up", "down", "attempt", "yes", "no", "done"})]
  /\ ready \in BOOLEAN
  /\ sub \in [Subs -> {"none", "subscribing", "open", "closed"}]
  /\ localSub \in [Subs -> Tasks({"none", "probe", "up", "down", "subscribing", "on", "off"})]

PoolInit ==
  /\ pool = "up" /\ ready = FALSE
  /\ primary = [c \in Calls |-> Task("none")] /\ tries = [c \in Calls |-> 0]
  /\ aborted = [c \in Calls |-> FALSE] /\ optional = [c \in Calls |-> Task("none")]
  /\ sub = [s \in Subs |-> "none"] /\ localSub = [s \in Subs |-> Task("none")]

Down == pool # "up"
PublicationStopped(c) == Down \/ aborted[c]
Cut(task) == IF task.at \in {"attempt", "yes", "no", "delay", "probe", "up", "down"}
             THEN [task EXCEPT !.cut = TRUE] ELSE task

-----------------------------------------------------------------------------
(* Publishing. *)

\* The optional task begins first; a readiness that is remembered saves the probe.
PublishToRelays(c) ==
  /\ primary[c].at = "none"
  /\ optional' = [optional EXCEPT ![c] =
       Task(IF PublicationStopped(c) THEN "done" ELSE IF ready THEN "attempt" ELSE "probe")]
  /\ IF PublicationStopped(c)
     THEN primary' = [primary EXCEPT ![c] = Task("aborted")] /\ UNCHANGED tries
     ELSE primary' = [primary EXCEPT ![c] = Task("attempt")] /\ tries' = [tries EXCEPT ![c] = 1]
  /\ UNCHANGED <<pool, aborted, ready, subs>>

\* The relays answer an attempt; a late answer to an earlier one is ignored.
Answer(c) ==
  /\ primary[c].at = "attempt"
  /\ \E answer \in {"yes", "no"} : primary' = [primary EXCEPT ![c].at = answer]
  /\ UNCHANGED <<pool, tries, aborted, optional, ready, subs>>

AttemptTimer(c) ==
  /\ primary[c].at = "attempt" /\ ~primary[c].cut
  /\ primary' = [primary EXCEPT ![c] = Cut(@)]
  /\ UNCHANGED <<pool, tries, aborted, optional, ready, subs>>

Outcome(task) == IF task.cut THEN "aborted" ELSE IF task.at = "yes" THEN "accepted" ELSE "failed"

\* Mutant: the first attempt that fails is repeated until the pool is stopped.
NoBudget(c) == PublicationStopped(c)

\* Whether an attempt that was not accepted was the last one.
LastAttempt(c) == PublicationStopped(c) \/ tries[c] >= MaxAttempts

\* The attempt is over: publishPrimary returns, gives up or waits to retry.
AttemptEnds(c) ==
  /\ primary[c].at \in {"yes", "no"} \/ (primary[c].at = "attempt" /\ primary[c].cut)
  /\ LET outcome == Outcome(primary[c])
     IN  primary' = [primary EXCEPT ![c] =
           Task(IF outcome = "accepted" \/ LastAttempt(c) THEN outcome ELSE "delay")]
  /\ UNCHANGED <<pool, tries, aborted, optional, ready, subs>>

DelayEnds(c) ==
  /\ primary[c].at = "delay"
  /\ IF primary[c].cut \/ PublicationStopped(c)
     THEN primary' = [primary EXCEPT ![c] = Task("aborted")] /\ UNCHANGED tries
     ELSE /\ primary' = [primary EXCEPT ![c] = Task("attempt")]
          /\ tries' = [tries EXCEPT ![c] = IF @ < MaxAttempts THEN @ + 1 ELSE @]
  /\ UNCHANGED <<pool, aborted, optional, ready, subs>>

CallerAborts(c) ==
  /\ ~aborted[c] /\ aborted' = [aborted EXCEPT ![c] = TRUE]
  /\ primary' = [primary EXCEPT ![c] = Cut(@)] /\ optional' = [optional EXCEPT ![c] = Cut(@)]
  /\ UNCHANGED <<pool, tries, ready, subs>>

-----------------------------------------------------------------------------
(* The optional path. *)

LocalAnswers(c) ==
  /\ \/ optional[c].at = "probe" /\ \E r \in {"up", "down"} : optional' = [optional EXCEPT ![c].at = r]
     \/ optional[c].at = "attempt" /\ \E r \in {"yes", "no"} : optional' = [optional EXCEPT ![c].at = r]
  /\ UNCHANGED <<pool, primary, tries, aborted, ready, subs>>

LocalTimer(c) ==
  /\ optional[c].at \in {"probe", "attempt"} /\ ~optional[c].cut
  /\ optional' = [optional EXCEPT ![c] = Cut(@)]
  /\ UNCHANGED <<pool, primary, tries, aborted, ready, subs>>

\* A probe that an abort has overtaken counts as failed.
ProbeEnds(c) ==
  /\ optional[c].at \in {"up", "down"} \/ (optional[c].at = "probe" /\ optional[c].cut)
  /\ IF optional[c] = Task("up")
     THEN ready' = TRUE /\ optional' = [optional EXCEPT ![c] = Task("attempt")]
     ELSE optional' = [optional EXCEPT ![c] = Task("done")] /\ UNCHANGED ready
  /\ UNCHANGED <<pool, primary, tries, aborted, subs>>

LocalEnds(c) ==
  /\ optional[c].at \in {"yes", "no"} \/ (optional[c].at = "attempt" /\ optional[c].cut)
  /\ ready' = (ready /\ optional[c] = Task("yes"))
  /\ optional' = [optional EXCEPT ![c] = Task("done")]
  /\ UNCHANGED <<pool, primary, tries, aborted, subs>>

ReadyExpires ==
  /\ ready /\ ready' = FALSE
  /\ UNCHANGED <<pool, calls, subs>>

-----------------------------------------------------------------------------
(* Subscribing. *)

Subscribe(s) ==
  /\ sub[s] = "none" /\ ~Down /\ sub' = [sub EXCEPT ![s] = "subscribing"]
  /\ UNCHANGED <<pool, calls, ready, localSub>>

\* The probe of localhost, which is aborted with the pool.
Probe == [at |-> "probe", cut |-> Down]

\* The primary subscription stands: the caller has it, and localhost is probed.
Subscribed(s) ==
  /\ sub[s] = "subscribing" /\ sub' = [sub EXCEPT ![s] = "open"]
  /\ localSub' = [localSub EXCEPT ![s] = Probe]
  /\ UNCHANGED <<pool, calls, ready>>

LocalProbed(s) ==
  /\ localSub[s].at = "probe"
  /\ \/ \E r \in {"up", "down"} : localSub' = [localSub EXCEPT ![s].at = r]
     \/ ~localSub[s].cut /\ localSub' = [localSub EXCEPT ![s] = Cut(@)]
  /\ UNCHANGED <<pool, calls, ready, sub>>

LocalSubscribes(s) ==
  /\ localSub[s].at \in {"up", "down"} \/ (localSub[s].at = "probe" /\ localSub[s].cut)
  /\ localSub' = [localSub EXCEPT ![s] =
       Task(IF @ = Task("up") /\ sub[s] = "open" THEN "subscribing" ELSE "off")]
  /\ UNCHANGED <<pool, calls, ready, sub>>

\* Mutant: the caller's close is not looked at again.
StaysOn(s) == "on"

\* What becomes of the local subscription that stands now.
LocalStands(s) == IF sub[s] = "closed" THEN "off" ELSE "on"

LocalSubscribed(s) ==
  /\ localSub[s].at = "subscribing"
  /\ localSub' = [localSub EXCEPT ![s] = Task(LocalStands(s))]
  /\ UNCHANGED <<pool, calls, ready, sub>>

Close(s) ==
  /\ sub[s] = "open" /\ sub' = [sub EXCEPT ![s] = "closed"]
  /\ localSub' = [localSub EXCEPT ![s] = IF @.at = "on" THEN Task("off") ELSE @]
  /\ UNCHANGED <<pool, calls, ready>>

-----------------------------------------------------------------------------
(* The end of the pool. *)

Disconnect ==
  /\ pool = "up" /\ pool' = "disconnecting"
  /\ primary' = [c \in Calls |-> Cut(primary[c])] /\ optional' = [c \in Calls |-> Cut(optional[c])]
  /\ localSub' = [s \in Subs |-> Cut(localSub[s])]
  /\ UNCHANGED <<tries, aborted, ready, sub>>

\* localTasks: the publications and subscriptions to localhost.
LocalTask == \/ \E c \in Calls : optional[c].at \notin {"none", "done"}
             \/ \E s \in Subs : localSub[s].at \notin {"none", "on", "off"}

Disconnected ==
  /\ pool = "disconnecting" /\ ~LocalTask /\ pool' = "disconnected"
  /\ UNCHANGED <<calls, ready, subs>>

CallStep(c) ==
  \/ PublishToRelays(c) \/ Answer(c) \/ AttemptTimer(c) \/ AttemptEnds(c)
  \/ DelayEnds(c) \/ CallerAborts(c)
  \/ LocalAnswers(c) \/ LocalTimer(c) \/ ProbeEnds(c) \/ LocalEnds(c)
SubStep(s) ==
  Subscribe(s) \/ Subscribed(s) \/ LocalProbed(s) \/ LocalSubscribes(s) \/ LocalSubscribed(s) \/ Close(s)
PoolNext ==
  \/ ReadyExpires \/ Disconnect \/ Disconnected
  \/ \E c \in Calls : CallStep(c)
  \/ \E s \in Subs : SubStep(s)

\* Timers fire and tasks go on.  No relay needs to answer, and localhost need
\* not get anywhere.
PoolFairness ==
  \A c \in Calls : /\ WF_poolVars(AttemptTimer(c))
                   /\ WF_poolVars(AttemptEnds(c))
                   /\ WF_poolVars(DelayEnds(c))

PoolSpec == PoolInit /\ [][PoolNext]_poolVars /\ PoolFairness

-----------------------------------------------------------------------------
\* publish() settles, whatever relays do not do: each attempt has its timer,
\* there is a budget of attempts, and localhost is not waited for.
PublishSettles ==
  \A c \in Calls : primary[c].at = "attempt" ~> primary[c].at \in Settled

\* A subscription that was closed is not heard on localhost either, however
\* late the local relay was found and subscribed to.
ClosedIsClosed == \A s \in Subs : sub[s] = "closed" => localSub[s].at # "on"
===============================================================================
