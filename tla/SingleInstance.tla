---------------------------- MODULE SingleInstance ----------------------------
(***************************************************************************)
(* SingleInstanceGuard: how a tab makes sure that no other tab, here or on *)
(* another device, runs the coordinator of the same public key.  In order: *)
(* a web lock, a broadcast probe, a lease in the browser's storage, and a  *)
(* look at the relays for a fresh heartbeat.                               *)
(*                                                                         *)
(* A probe and its answer are two messages, and a tab that has heard one   *)
(* may act on it when the other tab is gone; what the relays answer is     *)
(* judged with the stopped tokens of the moment the tab asked.             *)
(*                                                                         *)
(* Time is counted in ticks.  At a tick every tab that is not frozen       *)
(* renews its lease (a browser stops the timers of a frozen tab, and a     *)
(* frozen tab answers a probe when it resumes).  The relays are one store  *)
(* that keeps, of a replaceable heartbeat, the event with the latest       *)
(* created_at; events may overtake each other, and one that is lost is     *)
(* never delivered.  Stopped tokens are remembered for longer than a       *)
(* heartbeat is fresh, so they are never forgotten here.                   *)
(***************************************************************************)
EXTENDS Integers, FiniteSets

CONSTANTS Tabs,           \* the pages that may run the coordinator
          Browsers,       \* the browser profiles they belong to
          None,           \* no tab, no lease, no heartbeat
          MaxStarts,      \* bound: how often a tab starts the coordinator
          MaxClock,       \* bound: ticks
          LeaseDuration,  \* DEFAULT_LEASE_DURATION_MS, in ticks
          FreshTicks      \* HEARTBEAT_FRESH_SECONDS, in ticks

ASSUME InstanceAssumption ==
  /\ None \notin Tabs
  /\ None \notin [token : Tabs \X Nat, status : {"running", "stopped"}, at : Nat]
  /\ None \notin [token : Tabs \X Nat, expiresAt : Nat]
  /\ {MaxStarts, MaxClock, LeaseDuration, FreshTicks} \subseteq Nat
  /\ LeaseDuration > 1

VARIABLES
  browserOf, \* [Tabs -> Browsers]: the profile each page belongs to
  hasLocks,  \* the browsers that offer the Web Locks API
  clock,     \* wall-clock time
  starts,    \* [Tabs -> Nat]: guards made; the latest names the current token
  pc,        \* [Tabs -> ...]: the await of acquire, or running, or idle
  frozen,    \* tabs whose timers and channels the browser has stopped
  lock,      \* [Browsers -> Tabs or None]: the web lock
  lease,     \* [Browsers -> StoredLease or None]
  stopped,   \* [Browsers -> tokens]: stopped-instance records
  created,   \* [Tabs -> Nat]: latestHeartbeatCreatedAtByPubkey of the page
  sent,      \* heartbeat events on their way to the relays
  relay,     \* the heartbeat the relays keep
  probes,    \* running tabs with a broadcast probe to answer
  heard,     \* probing tabs with a "running" message to act on
  ignored,   \* [Tabs -> tokens]: the stopped tokens a tab asks the relays with
  answer,    \* [Tabs -> Event or None]: what the relays have answered to it
  crashed,   \* history: tokens of pages that died without a release
  notified,  \* history: tokens whose "stopped" heartbeat reached the relays
  over,      \* history: [Tabs -> tokens]: notified, when the tab asked the relays
  met        \* history: tabs that are up and so was another since their start

pageVars == <<starts, pc, frozen>>
browserVars == <<lock, lease, stopped>>
nostrVars == <<created, sent, relay, notified>>
probeVars == <<probes, heard, ignored, answer, over>>
settingVars == <<browserOf, hasLocks>>
vars == <<settingVars, clock, pageVars, browserVars, nostrVars, probeVars, crashed, met>>

Token(t) == <<t, starts[t]>>
Tokens == Tabs \X (0..MaxStarts)
\* acquireStorageLease has no await: no time passes, and no freeze.
Synchronous == {"writing", "rereading"}

Init ==
  /\ browserOf \in [Tabs -> Browsers]
  /\ hasLocks \in SUBSET {browserOf[t] : t \in Tabs}
  /\ clock = 0
  /\ starts = [t \in Tabs |-> 0]
  /\ pc = [t \in Tabs |-> "idle"]
  /\ frozen = {}
  /\ lock = [b \in Browsers |-> None]
  /\ lease = [b \in Browsers |-> None]
  /\ stopped = [b \in Browsers |-> {}]
  /\ created = [t \in Tabs |-> 0]
  /\ sent = {}
  /\ relay = None
  /\ probes = {} /\ heard = {}
  /\ ignored = [t \in Tabs |-> {}] /\ over = [t \in Tabs |-> {}]
  /\ answer = [t \in Tabs |-> None]
  /\ crashed = {} /\ notified = {} /\ met = {}

Awake(t, label) == pc[t] = label /\ t \notin frozen
Goto(t, label) == pc' = [pc EXCEPT ![t] = label]
Active(t) == pc[t] # "idle"

\* A channel or a query is closed, with what was to be acted on.
EndProbes(t) ==
  /\ probes' = probes \ {t} /\ heard' = heard \ {t}
  /\ ignored' = [ignored EXCEPT ![t] = {}] /\ over' = [over EXCEPT ![t] = {}]
  /\ answer' = [answer EXCEPT ![t] = None]

-------------------------------------------------------------------------------
(* Heartbeats. *)

\* Mutant: a stop in the second of the last heartbeat carries the same time.
CreatedAtClock(t) == clock

Larger(a, b) == IF a < b THEN b ELSE a
CreatedAt(t) == Larger(clock, created[t] + 1)

Publish(t, status) ==
  /\ created' = [created EXCEPT ![t] = CreatedAt(t)]
  /\ sent' = sent \union {[token |-> Token(t), status |-> status, at |-> CreatedAt(t)]}

\* Replaceable events: the later one is kept, of two with one time either.
Delivered(e) ==
  /\ e \in sent
  /\ sent' = sent \ {e}
  /\ notified' = IF e.status = "stopped" THEN notified \union {e.token} ELSE notified
  /\ relay' \in IF relay = None THEN {e}
               ELSE {f \in {e, relay} : f.at = Larger(e.at, relay.at)}
  /\ UNCHANGED <<clock, pageVars, browserVars, created, probeVars, crashed>>

\* The interval publishes once a second at most.
Heartbeat(t) ==
  /\ Awake(t, "running")
  /\ created[t] < clock
  /\ Publish(t, "running")
  /\ UNCHANGED <<clock, pageVars, browserVars, relay, probeVars, crashed, notified>>

-------------------------------------------------------------------------------
(* Releasing what was acquired, in one go. *)

Unlock(t) ==
  lock' = [lock EXCEPT ![browserOf[t]] = IF @ = t THEN None ELSE @]

Mine(t) == lease[browserOf[t]] # None /\ lease[browserOf[t]].token = Token(t)

\* Mutant: the token of a stopped instance is not remembered.
ReleaseLeaseForgotten(t) ==
  /\ lease' = [lease EXCEPT ![browserOf[t]] = IF Mine(t) THEN None ELSE @]
  /\ UNCHANGED stopped

ReleaseLease(t) ==
  /\ stopped' = [stopped EXCEPT ![browserOf[t]] = @ \union {Token(t)}]
  /\ lease' = [lease EXCEPT ![browserOf[t]] = IF Mine(t) THEN None ELSE @]

\* acquire throws CordnAlreadyRunningError: what it holds is released.  The
\* storage lease has a release only once it was read back.
Refuse(t) ==
  /\ Goto(t, "idle")
  /\ Unlock(t)
  /\ EndProbes(t)
  /\ IF pc[t] = "asking" THEN ReleaseLease(t) ELSE UNCHANGED <<lease, stopped>>

Release(t) ==
  /\ Awake(t, "running")
  /\ Goto(t, "idle")
  /\ Unlock(t)
  /\ ReleaseLease(t)
  /\ EndProbes(t)
  /\ Publish(t, "stopped")
  /\ UNCHANGED <<clock, starts, frozen, relay, crashed, notified>>

\* The page dies without a pagehide: the browser frees the web lock only.
Crash(t) ==
  /\ pc[t] # "idle"
  /\ Goto(t, "idle")
  /\ Unlock(t)
  /\ EndProbes(t)
  /\ frozen' = frozen \ {t}
  /\ crashed' = crashed \union {Token(t)}
  /\ created' = [created EXCEPT ![t] = 0]
  /\ UNCHANGED <<clock, starts, lease, stopped, sent, relay, notified>>

-------------------------------------------------------------------------------
(* acquire. *)

\* Mutant: the lock is asked for in shared mode.
LockIsShared(t) == TRUE

LockIsFree(t) == browserOf[t] \notin hasLocks \/ lock[browserOf[t]] = None

\* The tabs of the browser that have their responder open.
Responders(t) == {u \in Tabs \ {t} : browserOf[u] = browserOf[t] /\ pc[u] = "running"}

\* The lock is granted, and probeBroadcast posts its probe.
AcquireWebLock(t) ==
  /\ pc[t] = "idle"
  /\ starts[t] < MaxStarts
  /\ starts' = [starts EXCEPT ![t] = @ + 1]
  /\ IF LockIsFree(t)
     THEN /\ Goto(t, "probing")
          /\ lock' = [lock EXCEPT ![browserOf[t]] = IF browserOf[t] \in hasLocks THEN t ELSE @]
          /\ probes' = probes \union Responders(t)
     ELSE UNCHANGED <<pc, lock, probes>>
  /\ UNCHANGED <<clock, frozen, lease, stopped, nostrVars, heard, ignored, answer, over, crashed>>

\* A running tab answers what it was asked; whoever probes in its browser hears it.
AnswerProbe(u) ==
  /\ Awake(u, "running")
  /\ u \in probes
  /\ probes' = probes \ {u}
  /\ heard' = heard \union {t \in Tabs : browserOf[t] = browserOf[u] /\ pc[t] = "probing"}
  /\ UNCHANGED <<clock, pageVars, browserVars, nostrVars, ignored, answer, over, crashed>>

LeaseInForce(t) ==
  LET l == lease[browserOf[t]] IN
    l # None /\ l.token # Token(t) /\ l.expiresAt > clock

\* The tab acts on an answer, or its probe has timed out, even with an answer to act on,
\* and it reads the stored lease.
ProbeBroadcast(t) ==
  /\ Awake(t, "probing")
  /\ \/ (t \in heard \/ LeaseInForce(t)) /\ Refuse(t)
     \/ ~LeaseInForce(t) /\ Goto(t, "writing") /\ EndProbes(t) /\ UNCHANGED <<lock, lease, stopped>>
  /\ UNCHANGED <<clock, starts, frozen, nostrVars, crashed>>

WriteLease(t) ==
  lease' = [lease EXCEPT ![browserOf[t]] =
              [token |-> Token(t), expiresAt |-> clock + LeaseDuration]]

\* Tabs run in processes of their own: another may write between the read, the
\* write and the read that follows it.
AcquireStorageLease(t) ==
  /\ Awake(t, "writing")
  /\ WriteLease(t)
  /\ Goto(t, "rereading")
  /\ UNCHANGED <<clock, starts, frozen, lock, stopped, nostrVars, probeVars, crashed>>

\* With its lease, the tab asks the relays; it reads the stopped tokens before it waits.
RereadLease(t) ==
  /\ Awake(t, "rereading")
  /\ IF Mine(t)
     THEN /\ Goto(t, "asking")
          /\ ignored' = [ignored EXCEPT ![t] = stopped[browserOf[t]]]
          /\ over' = [over EXCEPT ![t] = notified]
          /\ UNCHANGED <<lock, lease, stopped, probes, heard, answer>>
     ELSE Refuse(t)
  /\ UNCHANGED <<clock, starts, frozen, nostrVars, crashed>>

\* The answer is on its way, whatever becomes of the tab and of the other meanwhile.
RelaysAnswer(t) ==
  /\ pc[t] = "asking" /\ answer[t] = None
  /\ relay # None
  /\ answer' = [answer EXCEPT ![t] = relay]
  /\ UNCHANGED <<clock, pageVars, browserVars, nostrVars, probes, heard, ignored, over, crashed>>

\* The answer is a running heartbeat, fresh by now, of a token that is not ignored.
SeesRunning(t) ==
  /\ answer[t] # None
  /\ answer[t].token \notin ignored[t]
  /\ answer[t].status = "running"
  /\ answer[t].at >= clock - FreshTicks

\* The query ends, with an answer or without, which counts as "not running".  An
\* acquired guard answers probes and sends its first heartbeat at once.
ProbeNostr(t) ==
  /\ Awake(t, "asking")
  /\ \/ /\ SeesRunning(t)
        /\ Refuse(t)
        /\ UNCHANGED <<created, sent>>
     \/ /\ ~SeesRunning(t)
        /\ Goto(t, "running")
        /\ EndProbes(t)
        /\ Publish(t, "running")
        /\ UNCHANGED browserVars
  /\ UNCHANGED <<clock, starts, frozen, relay, crashed, notified>>

-------------------------------------------------------------------------------
(* Time and the browser. *)

\* The tabs whose lease timer runs.  A renewal does not look who holds it.
Renewing(b) == {t \in Tabs : browserOf[t] = b /\ t \notin frozen /\ pc[t] \in {"asking", "running"}}

\* The last of the timers to fire wins.
Renewals(b) ==
  IF Renewing(b) = {} THEN {lease[b]}
  ELSE {[token |-> Token(t), expiresAt |-> clock + 1 + LeaseDuration] : t \in Renewing(b)}

Tick ==
  /\ clock < MaxClock
  /\ \A t \in Tabs : pc[t] \notin Synchronous
  /\ clock' = clock + 1
  /\ \E f \in [Browsers -> UNION {Renewals(b) : b \in Browsers}] :
       /\ \A b \in Browsers : f[b] \in Renewals(b)
       /\ lease' = f
  /\ UNCHANGED <<pageVars, lock, stopped, nostrVars, probeVars, crashed>>

Freeze(t) ==
  /\ pc[t] \in {"probing", "asking", "running"}
  /\ t \notin frozen
  /\ frozen' = frozen \union {t}
  /\ UNCHANGED <<clock, starts, pc, browserVars, nostrVars, probeVars, crashed>>

\* The overdue timer of the lease fires first.
Thaw(t) ==
  /\ t \in frozen
  /\ frozen' = frozen \ {t}
  /\ IF pc[t] \in {"asking", "running"} THEN WriteLease(t) ELSE UNCHANGED lease
  /\ UNCHANGED <<clock, starts, pc, lock, stopped, nostrVars, probeVars, crashed>>

Step ==
  \/ \E t \in Tabs :
       \/ AcquireWebLock(t)
       \/ AnswerProbe(t)
       \/ ProbeBroadcast(t)
       \/ AcquireStorageLease(t)
       \/ RereadLease(t)
       \/ RelaysAnswer(t)
       \/ ProbeNostr(t)
       \/ Heartbeat(t)
       \/ Release(t)
       \/ Crash(t)
       \/ Freeze(t)
       \/ Thaw(t)
  \/ \E e \in sent : Delivered(e)
  \/ Tick

\* The tabs that are up, with another or after they met one.
Met == {t \in Tabs : Active(t) /\ \E u \in Tabs \ {t} : Active(u)}

\* Pages do not change browsers, nor browsers what they offer.
Next == Step /\ UNCHANGED settingVars /\ met' = Met' \union {t \in met : Active(t)'}

Spec == Init /\ [][Next]_vars

-------------------------------------------------------------------------------
Event == [token : Tokens, status : {"running", "stopped"}, at : Nat]

\* Every variable has the shape the code gives it, and no lease reaches further
\* than its duration.
TypeOK ==
  /\ browserOf \in [Tabs -> Browsers]
  /\ hasLocks \subseteq Browsers
  /\ clock \in 0..MaxClock
  /\ starts \in [Tabs -> 0..MaxStarts]
  /\ pc \in [Tabs -> {"idle", "probing", "asking", "running"} \union Synchronous]
  /\ frozen \subseteq Tabs
  /\ lock \in [Browsers -> Tabs \union {None}]
  /\ \A b \in Browsers : lease[b] # None =>
       lease[b] \in [token : Tokens, expiresAt : 0..(clock + LeaseDuration)]
  /\ stopped \in [Browsers -> SUBSET Tokens]
  /\ created \in [Tabs -> Nat]
  /\ sent \subseteq Event
  /\ \A e \in {relay} \union {answer[t] : t \in Tabs} : e # None => e \in Event
  /\ {ignored, over} \subseteq [Tabs -> SUBSET Tokens]
  /\ probes \union heard \union met \subseteq Tabs
  /\ crashed \subseteq Tokens
  /\ notified \subseteq Tokens

\* Tabs of one browser exclude each other while the browser offers web locks,
\* however long one of them is frozen and however often one crashes.
OnePerBrowser ==
  \A t, u \in Tabs :
    (t # u /\ browserOf[t] = browserOf[u] /\ browserOf[t] \in hasLocks /\ pc[t] = "running") =>
       pc[u] = "idle"

\* What is left of an instance that could not stop properly: a lease in force of a crashed
\* page, or a heartbeat of one or of a page of another browser, whose stop this browser
\* did not know of, and the relays had not had, when the tab asked them.
LeftOver(t) ==
  \/ LeaseInForce(t) /\ lease[browserOf[t]].token \in crashed
  \/ /\ SeesRunning(t)
     /\ answer[t].token \notin over[t]
     /\ \/ answer[t].token \in crashed
        \/ browserOf[answer[t].token[1]] # browserOf[t]

\* acquire rejects: neither a release nor a crash takes the tab to idle.
Refused(t) ==
  /\ pc'[t] = "idle"
  /\ \/ starts'[t] > starts[t]
     \/ pc[t] \notin {"idle", "running"} /\ crashed' = crashed

\* A start is refused for another tab that was up at some time since it began, or for what
\* is left of one that did not stop properly; never for an instance that had stopped
\* before, even when the relays never heard of it.  Answers may be acted on late: that the
\* other tab is up still is not promised.
RefusalIsJustified ==
  [][\A t \in Tabs :
       Refused(t) => LeftOver(t) \/ t \in met \/ \E u \in Tabs \ {t} : Active(u)]_vars

\* "Guarantee that a stop sent in the same wall-clock second as the last running
\* heartbeat wins": once the relays have the stop, they do not report it running.
StopWins ==
  relay # None /\ relay.status = "running" => relay.token \notin notified
===============================================================================
