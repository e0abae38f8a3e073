-------------------------- MODULE CoordinatorTabProofs --------------------------
(***************************************************************************)
(* Theorems about SingleInstance, for any number of tabs and browsers, any *)
(* bounds and any durations, and about SnapshotStorage, for any set of     *)
(* rooms and any bounds on records and keys, and whether or not writes may *)
(* throw.  MCCoordinatorTab checks the two together; they share no         *)
(* variable.                                                               *)
(*                                                                         *)
(* That tabs exclude each other rests on the web lock alone (LockIsHeld):  *)
(* leases and probes are for browsers without it.  That a stop wins rests  *)
(* on the order in which a token's events are made: a token is used by one *)
(* run of a page, its stop is made last, and the time of each of its       *)
(* events is after the one before (OneRunAToken, StopIsLast).  What the    *)
(* relays keep only gets later, so once they have had the stop, every      *)
(* running heartbeat of the token is earlier than what they keep           *)
(* (StopPrevails).                                                         *)
(*                                                                         *)
(* That a refusal is justified rests on an account of everything a probe   *)
(* can find: a web lock is held by a tab that is up (LockIsLive), a lease  *)
(* is of a tab that is up or has crashed (LeasesAreAccounted), and a       *)
(* heartbeat that says running, in an answer of the relays too, is of a    *)
(* tab that runs, that has crashed, or that its browser knows to have      *)
(* stopped (HeartbeatsAreAccounted).  What a tab acts on late it got from  *)
(* a tab it has met, or judges with what it knew when it asked (ProbeInv). *)
(*                                                                         *)
(* The properties of the storage compare what is in its stores with what   *)
(* was promised.  A store is overwritten from the memory of an instance,   *)
(* so what was promised of it must be in that memory too (MemoryRemembers, *)
(* MemoryKeeps); and a storage that is loaded leaves out the rooms in the  *)
(* registry of its key, of which no store may promise anything             *)
(* (DeletedIsNotKept).                                                     *)
(***************************************************************************)
EXTENDS SingleInstance, SnapshotStorage, TLAPS

-----------------------------------------------------------------------------
(* SingleInstance. *)

Places == {"idle", "probing", "asking", "running"} \union Synchronous
Events == [token : Tabs \X Nat, status : {"running", "stopped"}, at : Nat]

\* The heartbeats that are on their way or kept.
Known == sent \union (IF relay = None THEN {} ELSE {relay})

\* What the arguments need of the shapes.
Shapes ==
  /\ browserOf \in [Tabs -> Browsers]
  /\ lock \in [Browsers -> Tabs \union {None}]
  /\ pc \in [Tabs -> Places]
  /\ clock \in Nat
  /\ starts \in [Tabs -> Nat]
  /\ created \in [Tabs -> Nat]
  /\ Known \subseteq Events
  /\ notified \subseteq Tabs \X Nat

\* A tab that runs or starts in a browser with web locks holds that browser's.
LockIsHeld ==
  \A t \in Tabs : browserOf[t] \in hasLocks /\ pc[t] # "idle" => lock[browserOf[t]] = t

\* The events of a page's current token are those of its current run.
OneRunAToken ==
  \A e \in Known, t \in Tabs :
    e.token[1] = t =>
      /\ e.token[2] <= starts[t]
      /\ e.token[2] = starts[t] => pc[t] \in {"idle", "running"}
      /\ e.token[2] = starts[t] /\ pc[t] = "running" => e.status = "running" /\ e.at <= created[t]

StopIsLast ==
  \A e, f \in Known :
    e.token = f.token /\ e.status = "stopped" /\ f.status = "running" => f.at < e.at

\* A token whose stop the relays have had is out of use, and its heartbeats are late.
StopPrevails ==
  \A k \in notified :
    /\ k[2] <= starts[k[1]]
    /\ k[2] = starts[k[1]] => pc[k[1]] = "idle"
    /\ relay # None
    /\ \A f \in Known : f.token = k /\ f.status = "running" => f.at < relay.at

\* The inductive invariant.
GuardInv == Shapes /\ LockIsHeld /\ OneRunAToken /\ StopIsLast /\ StopPrevails

-----------------------------------------------------------------------------
(* The web lock. *)

\* A tab that goes to idle gives its own lock back, and no other.
LEMMA UnlockKeepsOthers ==
  ASSUME Shapes, NEW t \in Tabs, Unlock(t)
  PROVE  /\ lock' \in [Browsers -> Tabs \union {None}]
         /\ \A u \in Tabs : u # t /\ lock[browserOf[u]] = u => lock'[browserOf[u]] = u
BY DEF Shapes, Unlock

\* Whoever leaves idle has taken the lock.
LEMMA LockPreserved ==
  ASSUME Shapes, LockIsHeld, [Next]_vars
  PROVE  lock' \in [Browsers -> Tabs \union {None}] /\ LockIsHeld'
<1>1. ASSUME UNCHANGED <<browserOf, hasLocks, lock>>,
             \A u \in Tabs : pc'[u] # "idle" => pc[u] # "idle"
      PROVE  lock' \in [Browsers -> Tabs \union {None}] /\ LockIsHeld'
  BY <1>1 DEF Shapes, LockIsHeld
<1>2. ASSUME NEW t \in Tabs, UNCHANGED <<browserOf, hasLocks>>, Unlock(t), Goto(t, "idle")
      PROVE  lock' \in [Browsers -> Tabs \union {None}] /\ LockIsHeld'
  <2>1. \A u \in Tabs : pc'[u] = IF u = t THEN "idle" ELSE pc[u]
    BY <1>2 DEF Goto, Shapes
  <2> QED BY <1>2, <2>1, UnlockKeepsOthers DEF LockIsHeld
<1>3. ASSUME NEW t \in Tabs, UNCHANGED <<browserOf, hasLocks>>, AcquireWebLock(t)
      PROVE  lock' \in [Browsers -> Tabs \union {None}] /\ LockIsHeld'
  <2>1. CASE LockIsFree(t)
    <3>1. /\ lock' = [lock EXCEPT ![browserOf[t]] = IF browserOf[t] \in hasLocks THEN t ELSE @]
          /\ \A u \in Tabs : u # t => pc'[u] = pc[u]
      BY <1>3, <2>1 DEF AcquireWebLock, Goto, Shapes
    <3>2. \A u \in Tabs : browserOf[u] \in hasLocks /\ pc[u] # "idle" => browserOf[u] # browserOf[t] \/ lock[browserOf[t]] = u
      BY DEF LockIsHeld
    <3>3. browserOf[t] \in hasLocks => lock[browserOf[t]] = None
      BY <2>1 DEF LockIsFree
    <3> QED BY <1>3, <3>1, <3>2, <3>3, InstanceAssumption DEF LockIsHeld, Shapes
  <2>2. CASE ~LockIsFree(t)
    BY <1>1, <1>3, <2>2 DEF AcquireWebLock
  <2> QED BY <2>1, <2>2
<1>4. ASSUME NEW t \in Tabs, UNCHANGED <<browserOf, hasLocks>>,
             \/ ProbeBroadcast(t) \/ AcquireStorageLease(t) \/ RereadLease(t) \/ ProbeNostr(t)
             \/ Release(t) \/ Crash(t)
      PROVE  lock' \in [Browsers -> Tabs \union {None}] /\ LockIsHeld'
  <2>1. \/ Unlock(t) /\ Goto(t, "idle")
        \/ /\ UNCHANGED lock
           /\ pc[t] # "idle"
           /\ \E label \in Places : Goto(t, label)
    BY <1>4 DEF ProbeBroadcast, AcquireStorageLease, RereadLease, ProbeNostr, Release, Crash, Refuse,
                Awake, Places, Synchronous, browserVars
  <2>2. ASSUME NEW label, Goto(t, label)
        PROVE  \A u \in Tabs : u # t => pc'[u] = pc[u]
    BY <2>2 DEF Goto, Shapes
  <2> QED BY <1>1, <1>2, <1>4, <2>1, <2>2
<1>5. ASSUME NEW t \in Tabs, UNCHANGED <<browserOf, hasLocks>>,
             \/ Heartbeat(t) \/ Freeze(t) \/ Thaw(t)
             \/ AnswerProbe(t) \/ RelaysAnswer(t)
      PROVE  lock' \in [Browsers -> Tabs \union {None}] /\ LockIsHeld'
  BY <1>1, <1>5 DEF Heartbeat, Freeze, Thaw, AnswerProbe, RelaysAnswer, pageVars, browserVars
<1>6. ASSUME NEW e \in sent, UNCHANGED <<browserOf, hasLocks>>, Delivered(e)
      PROVE  lock' \in [Browsers -> Tabs \union {None}] /\ LockIsHeld'
  BY <1>1, <1>6 DEF Delivered, pageVars, browserVars
<1>7. ASSUME UNCHANGED <<browserOf, hasLocks>>, Tick
      PROVE  lock' \in [Browsers -> Tabs \union {None}] /\ LockIsHeld'
  BY <1>1, <1>7 DEF Tick, pageVars
<1>8. CASE UNCHANGED vars
  BY <1>1, <1>8 DEF vars, settingVars, pageVars, browserVars
<1> QED BY <1>3, <1>4, <1>5, <1>6, <1>7, <1>8 DEF Next, Step, settingVars

-----------------------------------------------------------------------------
(* The heartbeats. *)

EventInv == OneRunAToken /\ StopIsLast /\ StopPrevails

\* The time of a page's next event is after its last one.
LEMMA LaterEachTime ==
  ASSUME Shapes, NEW t \in Tabs
  PROVE  CreatedAt(t) \in Nat /\ created[t] < CreatedAt(t)
<1>1. clock \in Nat /\ created[t] \in Nat
  BY DEF Shapes
<1>2. CASE clock < created[t] + 1
  BY <1>1, <1>2 DEF CreatedAt, Larger
<1>3. CASE ~(clock < created[t] + 1)
  BY <1>1, <1>3 DEF CreatedAt, Larger
<1> QED BY <1>2, <1>3

\* Pages that only start, go on or end leave the order of events as it is.
LEMMA QuietInv ==
  ASSUME GuardInv, UNCHANGED <<sent, relay, notified>>,
         starts' \in [Tabs -> Nat], created' \in [Tabs -> Nat], pc' \in [Tabs -> Places],
         \A t \in Tabs :
           \/ starts'[t] > starts[t]
           \/ /\ starts'[t] = starts[t]
              /\ \/ pc'[t] = "idle"
                 \/ pc'[t] = pc[t] /\ created'[t] = created[t]
                 \/ pc[t] \notin {"idle", "running"}
  PROVE  EventInv'
<1>1. Known' = Known
  BY DEF Known
<1>2. /\ starts \in [Tabs -> Nat] /\ Known \subseteq Events /\ notified \subseteq Tabs \X Nat
  BY DEF GuardInv, Shapes
<1>3. OneRunAToken'
  <2> SUFFICES ASSUME NEW e \in Known, NEW t \in Tabs, e.token[1] = t
               PROVE  /\ e.token[2] <= starts'[t]
                      /\ e.token[2] = starts'[t] => pc'[t] \in {"idle", "running"}
                      /\ e.token[2] = starts'[t] /\ pc'[t] = "running"
                           => e.status = "running" /\ e.at <= created'[t]
    BY <1>1 DEF OneRunAToken
  <2>1. /\ e.token[2] \in Nat /\ starts[t] \in Nat /\ starts'[t] \in Nat
        /\ e.token[2] <= starts[t]
    BY <1>2 DEF GuardInv, OneRunAToken, Events
  <2>2. CASE starts'[t] > starts[t]
    BY <2>1, <2>2
  <2>3. CASE starts'[t] = starts[t]
    BY <2>1, <2>3 DEF GuardInv, OneRunAToken
  <2> QED BY <2>2, <2>3
<1>4. StopIsLast'
  BY <1>1 DEF GuardInv, StopIsLast
<1>5. StopPrevails'
  <2> SUFFICES ASSUME NEW k \in notified
               PROVE  k[2] <= starts'[k[1]] /\ (k[2] = starts'[k[1]] => pc'[k[1]] = "idle")
    BY <1>1 DEF GuardInv, StopPrevails
  <2>1. /\ k[1] \in Tabs /\ k[2] \in Nat /\ starts[k[1]] \in Nat /\ starts'[k[1]] \in Nat
        /\ k[2] <= starts[k[1]]
        /\ k[2] = starts[k[1]] => pc[k[1]] = "idle"
    BY <1>2 DEF GuardInv, StopPrevails
  <2>2. CASE starts'[k[1]] > starts[k[1]]
    BY <2>1, <2>2
  <2>3. CASE starts'[k[1]] = starts[k[1]]
    BY <2>1, <2>3
  <2> QED BY <2>1, <2>2, <2>3
<1> QED BY <1>3, <1>4, <1>5 DEF EventInv

\* A page that is about to run or runs makes another event, its stop as it ends.
LEMMA PublishInv ==
  ASSUME GuardInv, NEW t \in Tabs, NEW status \in {"running", "stopped"}, Publish(t, status),
         UNCHANGED <<starts, relay, notified>>,
         pc[t] \in {"asking", "running"},
         pc' = [pc EXCEPT ![t] = IF status = "running" THEN "running" ELSE "idle"]
  PROVE  EventInv' /\ Known' \subseteq Events /\ created' \in [Tabs -> Nat]
<1> DEFINE new == [token |-> Token(t), status |-> status, at |-> CreatedAt(t)]
<1>1. CreatedAt(t) \in Nat /\ created[t] < CreatedAt(t) /\ created[t] \in Nat
  BY LaterEachTime DEF GuardInv, Shapes
<1>2. /\ starts \in [Tabs -> Nat] /\ created \in [Tabs -> Nat] /\ pc \in [Tabs -> Places]
      /\ Known \subseteq Events /\ notified \subseteq Tabs \X Nat
  BY DEF GuardInv, Shapes
<1>3. /\ new \in Events /\ new.token = <<t, starts[t]>> /\ new.token[1] = t /\ new.token[2] = starts[t]
      /\ new.status = status /\ new.at = CreatedAt(t)
  BY <1>1, <1>2 DEF Events, Token
<1>4. Known' = Known \union {new}
  BY DEF Known, Publish
<1>5. /\ created' = [created EXCEPT ![t] = CreatedAt(t)]
      /\ created' \in [Tabs -> Nat] /\ created'[t] = CreatedAt(t)
  BY <1>1, <1>2 DEF Publish
<1> HIDE DEF new
\* What there was of the current token is from this run, and earlier.
<1>6. \A f \in Known : f.token = new.token => f.status = "running" /\ f.at < CreatedAt(t)
  <2> SUFFICES ASSUME NEW f \in Known, f.token = new.token
               PROVE  f.status = "running" /\ f.at < CreatedAt(t)
    OBVIOUS
  <2>1. f.token[1] = t /\ f.token[2] = starts[t] /\ f.at \in Nat
    BY <1>2, <1>3 DEF Events
  <2>2. pc[t] = "running" /\ f.status = "running" /\ f.at <= created[t]
    BY <2>1 DEF GuardInv, OneRunAToken
  <2> QED BY <1>1, <2>1, <2>2
<1>7. OneRunAToken'
  <2> SUFFICES ASSUME NEW e \in Known', NEW u \in Tabs, e.token[1] = u
               PROVE  /\ e.token[2] <= starts[u]
                      /\ e.token[2] = starts[u] => pc'[u] \in {"idle", "running"}
                      /\ e.token[2] = starts[u] /\ pc'[u] = "running"
                           => e.status = "running" /\ e.at <= created'[u]
    BY DEF OneRunAToken
  <2>1. CASE e = new
    <3>1. u = t /\ e.token[2] = starts[t] /\ starts[t] \in Nat /\ e.at = CreatedAt(t)
      BY <1>2, <1>3, <2>1
    <3>2. pc'[t] = IF status = "running" THEN "running" ELSE "idle"
      BY <1>2
    <3>3. e.at <= created'[u]
      BY <1>1, <1>5, <3>1
    <3>4. e.token[2] <= starts[u]
      BY <3>1
    <3> QED BY <1>3, <2>1, <3>1, <3>2, <3>3, <3>4
  <2>2. CASE e \in Known /\ u # t
    <3>1. pc'[u] = pc[u] /\ created'[u] = created[u]
      BY <1>2, <1>5, <2>2
    <3> QED BY <2>2, <3>1 DEF GuardInv, OneRunAToken
  <2>3. CASE e \in Known /\ u = t
    <3>1. e.token[2] <= starts[t]
      BY <2>3 DEF GuardInv, OneRunAToken
    <3>2. pc'[t] = IF status = "running" THEN "running" ELSE "idle"
      BY <1>2
    <3>3. ASSUME e.token[2] = starts[t]
          PROVE  e.status = "running" /\ e.at <= created'[t]
      <4>1. e.token = new.token
        BY <1>2, <1>3, <2>3, <3>3 DEF Events
      <4>2. e.at \in Nat
        BY <1>2, <2>3 DEF Events
      <4> QED BY <1>1, <1>5, <1>6, <2>3, <4>1, <4>2
    <3> QED BY <2>3, <3>1, <3>2, <3>3
  <2> QED BY <1>4, <2>1, <2>2, <2>3
<1>8. StopIsLast'
  <2> SUFFICES ASSUME NEW e \in Known', NEW f \in Known',
                      e.token = f.token, e.status = "stopped", f.status = "running"
               PROVE  f.at < e.at
    BY DEF StopIsLast
  <2>1. CASE e \in Known /\ f \in Known
    BY <2>1 DEF GuardInv, StopIsLast
  <2>2. CASE e \in Known /\ f = new
    BY <1>6, <2>2
  <2>3. CASE e = new /\ f \in Known
    BY <1>3, <1>6, <2>3
  <2>4. CASE e = new /\ f = new
    BY <2>4
  <2> QED BY <1>4, <2>1, <2>2, <2>3, <2>4
<1>9. StopPrevails'
  <2> SUFFICES ASSUME NEW k \in notified
               PROVE  /\ k[2] <= starts[k[1]]
                      /\ k[2] = starts[k[1]] => pc'[k[1]] = "idle"
                      /\ relay # None
                      /\ \A f \in Known' : f.token = k /\ f.status = "running" => f.at < relay.at
    BY DEF StopPrevails
  <2>1. /\ k[1] \in Tabs
        /\ k[2] <= starts[k[1]]
        /\ k[2] = starts[k[1]] => pc[k[1]] = "idle"
        /\ relay # None
        /\ \A f \in Known : f.token = k /\ f.status = "running" => f.at < relay.at
    BY <1>2 DEF GuardInv, StopPrevails
  <2>2. new.token # k
    BY <1>3, <2>1
  <2>3. k[2] = starts[k[1]] => k[1] # t
    BY <2>1
  <2>4. k[2] = starts[k[1]] => pc'[k[1]] = "idle"
    BY <1>2, <2>1, <2>3
  <2> QED BY <1>4, <2>1, <2>2, <2>4
<1> QED BY <1>2, <1>3, <1>4, <1>5, <1>7, <1>8, <1>9 DEF EventInv

\* The relays keep the later of two events.
LEMMA DeliveredInv ==
  ASSUME GuardInv, NEW e \in sent, Delivered(e)
  PROVE  EventInv' /\ Known' \subseteq Events /\ notified' \subseteq Tabs \X Nat
<1>1. /\ Known \subseteq Events /\ notified \subseteq Tabs \X Nat
      /\ e \in Known /\ e \in Events /\ (relay # None => relay \in Known /\ relay \in Events)
  BY DEF GuardInv, Shapes, Known
<1>2. UNCHANGED <<pc, starts, created>>
  BY DEF Delivered, pageVars
<1>3. /\ relay' = e \/ (relay # None /\ relay' = relay)
      /\ sent' \subseteq sent
      /\ relay # None => relay'.at = Larger(e.at, relay.at)
  <2>1. CASE relay = None
    BY <2>1 DEF Delivered
  <2>2. CASE relay # None
    BY <2>2 DEF Delivered
  <2> QED BY <2>1, <2>2 DEF Delivered
<1>4. Known' \subseteq Known
  BY <1>1, <1>3 DEF Known
<1>5. /\ e.at \in Nat
      /\ relay # None => relay.at \in Nat /\ relay'.at \in Nat
                         /\ e.at <= relay'.at /\ relay.at <= relay'.at
  <2>1. e.at \in Nat
    BY <1>1 DEF Events
  <2>2. ASSUME relay # None
        PROVE  relay.at \in Nat /\ relay'.at \in Nat /\ e.at <= relay'.at /\ relay.at <= relay'.at
    <3>1. relay.at \in Nat
      BY <1>1, <2>2 DEF Events
    <3>2. CASE e.at < relay.at
      BY <1>3, <2>1, <2>2, <3>1, <3>2 DEF Larger
    <3>3. CASE ~(e.at < relay.at)
      BY <1>3, <2>1, <2>2, <3>1, <3>3 DEF Larger
    <3> QED BY <3>2, <3>3
  <2> QED BY <2>1, <2>2
<1>6. OneRunAToken' /\ StopIsLast'
  BY <1>2, <1>4 DEF GuardInv, OneRunAToken, StopIsLast
<1>7. notified' = notified \/ (e.status = "stopped" /\ notified' = notified \union {e.token})
  BY DEF Delivered
<1>8. notified' \subseteq Tabs \X Nat
  BY <1>1, <1>7 DEF Events
<1>9. relay' # None
  BY <1>1, <1>3, InstanceAssumption DEF Events
<1>10. StopPrevails'
  <2> SUFFICES ASSUME NEW k \in notified'
               PROVE  /\ k[2] <= starts[k[1]]
                      /\ k[2] = starts[k[1]] => pc[k[1]] = "idle"
                      /\ \A f \in Known' : f.token = k /\ f.status = "running" => f.at < relay'.at
    BY <1>2, <1>9 DEF StopPrevails
  <2>1. CASE k \in notified
    <3>1. /\ k[2] <= starts[k[1]]
          /\ k[2] = starts[k[1]] => pc[k[1]] = "idle"
          /\ relay # None
          /\ \A f \in Known : f.token = k /\ f.status = "running" => f.at < relay.at
      BY <2>1 DEF GuardInv, StopPrevails
    <3>2. ASSUME NEW f \in Known', f.token = k, f.status = "running"
          PROVE  f.at < relay'.at
      <4>1. f.at < relay.at /\ f.at \in Nat
        BY <1>1, <1>4, <3>1, <3>2 DEF Events
      <4> QED BY <1>5, <3>1, <4>1
    <3> QED BY <3>1, <3>2
  <2>2. CASE k \notin notified
    <3>1. e.status = "stopped" /\ k = e.token
      BY <1>7, <2>2
    <3>2. k[1] \in Tabs /\ k[2] <= starts[k[1]] /\ (k[2] = starts[k[1]] => pc[k[1]] = "idle")
      BY <1>1, <3>1 DEF GuardInv, OneRunAToken, Events
    <3>3. ASSUME NEW f \in Known', f.token = k, f.status = "running"
          PROVE  f.at < relay'.at
      <4>1. f.at < e.at /\ f.at \in Nat
        BY <1>1, <1>4, <3>1, <3>3 DEF GuardInv, StopIsLast, Events
      <4>2. CASE relay = None
        BY <1>3, <4>1, <4>2
      <4>3. CASE relay # None
        BY <1>5, <4>1, <4>3
      <4> QED BY <4>2, <4>3
    <3> QED BY <3>2, <3>3
  <2> QED BY <2>1, <2>2
<1> QED BY <1>1, <1>4, <1>6, <1>8, <1>10 DEF EventInv

-----------------------------------------------------------------------------
(* One step of the system. *)

\* Every step is one in which pages move quietly, one publishes, or an event arrives.
LEMMA GuardStep ==
  ASSUME GuardInv, [Next]_vars
  PROVE  GuardInv'
<1>0. /\ pc \in [Tabs -> Places] /\ starts \in [Tabs -> Nat] /\ created \in [Tabs -> Nat]
      /\ clock \in Nat /\ Known \subseteq Events /\ notified \subseteq Tabs \X Nat
  BY DEF GuardInv, Shapes
<1>1. browserOf' = browserOf
  BY DEF Next, settingVars, vars
<1>2. lock' \in [Browsers -> Tabs \union {None}] /\ LockIsHeld'
  BY LockPreserved DEF GuardInv
<1>3. clock' \in Nat
  BY <1>0 DEF Next, Step, Delivered, Heartbeat, Release, Crash, AcquireWebLock, ProbeBroadcast,
              AcquireStorageLease, RereadLease, ProbeNostr, AnswerProbe, RelaysAnswer, Tick, Freeze,
              Thaw, vars
<1>q. ASSUME UNCHANGED <<sent, relay, notified>>,
             starts' \in [Tabs -> Nat], created' \in [Tabs -> Nat], pc' \in [Tabs -> Places],
             \A t \in Tabs :
               \/ starts'[t] > starts[t]
               \/ /\ starts'[t] = starts[t]
                  /\ \/ pc'[t] = "idle"
                     \/ pc'[t] = pc[t] /\ created'[t] = created[t]
                     \/ pc[t] \notin {"idle", "running"}
      PROVE  GuardInv'
  <2>1. EventInv'
    BY <1>q, QuietInv
  <2>2. Known' = Known
    BY <1>q DEF Known
  <2> QED BY <1>0, <1>1, <1>2, <1>3, <1>q, <2>1, <2>2 DEF GuardInv, EventInv, Shapes
<1>p. ASSUME NEW t \in Tabs, NEW status \in {"running", "stopped"}, Publish(t, status),
             UNCHANGED <<starts, relay, notified>>,
             pc[t] \in {"asking", "running"},
             pc' = [pc EXCEPT ![t] = IF status = "running" THEN "running" ELSE "idle"]
      PROVE  GuardInv'
  <2>1. EventInv' /\ Known' \subseteq Events /\ created' \in [Tabs -> Nat]
    BY <1>p, PublishInv
  <2>2. pc' \in [Tabs -> Places]
    BY <1>0, <1>p DEF Places
  <2> QED BY <1>0, <1>1, <1>2, <1>3, <1>p, <2>1, <2>2 DEF GuardInv, EventInv, Shapes
<1>4. ASSUME NEW t \in Tabs, AcquireWebLock(t)
      PROVE  GuardInv'
  <2>1. /\ starts' = [starts EXCEPT ![t] = @ + 1]
        /\ pc' \in [Tabs -> Places] /\ \A u \in Tabs : u # t => pc'[u] = pc[u]
        /\ UNCHANGED <<sent, relay, notified, created>>
    BY <1>0, <1>4 DEF AcquireWebLock, Goto, Places, nostrVars
  <2>2. starts' \in [Tabs -> Nat] /\ starts'[t] > starts[t]
    BY <1>0, <2>1
  <2> QED BY <1>0, <1>q, <2>1, <2>2
<1>5. ASSUME NEW t \in Tabs,
             \/ ProbeBroadcast(t) \/ AcquireStorageLease(t) \/ RereadLease(t)
             \/ (ProbeNostr(t) /\ UNCHANGED <<created, sent>>)
             \/ Crash(t)
      PROVE  GuardInv'
  <2>1. /\ UNCHANGED <<sent, relay, notified, starts>>
        /\ \E label \in Places : pc' = [pc EXCEPT ![t] = label]
        /\ pc[t] \notin {"idle", "running"} \/ pc' = [pc EXCEPT ![t] = "idle"]
        /\ created' = created \/ created' = [created EXCEPT ![t] = 0]
    <3>1. CASE Crash(t)
      BY <3>1 DEF Crash, Goto, Places
    <3>2. CASE ProbeNostr(t) /\ UNCHANGED <<created, sent>>
      BY <3>2 DEF ProbeNostr, Refuse, Goto, Places, Awake
    <3>3. CASE ProbeBroadcast(t) \/ AcquireStorageLease(t) \/ RereadLease(t)
      BY <3>3 DEF ProbeBroadcast, AcquireStorageLease, RereadLease, Refuse, Goto, Places, Synchronous,
                  Awake, nostrVars
    <3> QED BY <1>5, <3>1, <3>2, <3>3
  <2>2. /\ pc' \in [Tabs -> Places] /\ created' \in [Tabs -> Nat]
        /\ \A u \in Tabs : u # t => pc'[u] = pc[u] /\ created'[u] = created[u]
        /\ pc[t] \notin {"idle", "running"} \/ pc'[t] = "idle"
    BY <1>0, <2>1
  <2> QED BY <1>0, <1>q, <2>1, <2>2
<1>6. ASSUME NEW t \in Tabs, ProbeNostr(t), ~UNCHANGED <<created, sent>>
      PROVE  GuardInv'
  BY <1>6, <1>p DEF ProbeNostr, Goto, Awake
<1>7. ASSUME NEW t \in Tabs, Heartbeat(t)
      PROVE  GuardInv'
  <2>1. pc[t] = "running" /\ Publish(t, "running") /\ UNCHANGED <<pc, starts, relay, notified>>
    BY <1>7 DEF Heartbeat, Awake, pageVars
  <2>2. pc' = [pc EXCEPT ![t] = "running"]
    BY <1>0, <2>1
  <2> QED BY <1>p, <2>1, <2>2
<1>8. ASSUME NEW t \in Tabs, Release(t)
      PROVE  GuardInv'
  BY <1>8, <1>p DEF Release, Goto, Awake
<1>9. ASSUME NEW t \in Tabs, Freeze(t) \/ Thaw(t) \/ AnswerProbe(t) \/ RelaysAnswer(t)
      PROVE  GuardInv'
  <2>1. UNCHANGED <<starts, pc, created, sent, relay, notified>>
    BY <1>9 DEF Freeze, Thaw, AnswerProbe, RelaysAnswer, nostrVars, pageVars
  <2> QED BY <1>0, <2>1, <1>q
<1>10. ASSUME NEW e \in sent, Delivered(e)
       PROVE  GuardInv'
  <2>1. UNCHANGED <<pc, starts, created>>
    BY <1>10 DEF Delivered, pageVars
  <2>2. EventInv' /\ Known' \subseteq Events /\ notified' \subseteq Tabs \X Nat
    BY <1>10, DeliveredInv
  <2> QED BY <1>0, <1>1, <1>2, <1>3, <2>1, <2>2 DEF GuardInv, EventInv, Shapes
<1>11. CASE Tick
  BY <1>0, <1>11, <1>q DEF Tick, pageVars, nostrVars
<1>12. CASE UNCHANGED vars
  BY <1>0, <1>12, <1>q DEF vars, pageVars, nostrVars
<1> QED BY <1>4, <1>5, <1>6, <1>7, <1>8, <1>9, <1>10, <1>11, <1>12 DEF Next, Step

LEMMA GuardInit == Init => GuardInv
<1> SUFFICES ASSUME Init PROVE GuardInv
  OBVIOUS
<1>1. Known = {}
  BY DEF Init, Known
<1> QED BY <1>1 DEF Init, GuardInv, Shapes, Places, LockIsHeld, OneRunAToken, StopIsLast, StopPrevails

-----------------------------------------------------------------------------
(* The theorems. *)

\* In a browser with web locks, a tab that runs the coordinator is alone: every other
\* tab is idle (acquireWebLock).
THEOREM TabsExcludeEachOther == Spec => []OnePerBrowser
<1>1. GuardInv => OnePerBrowser
  <2> SUFFICES ASSUME GuardInv, NEW t \in Tabs, NEW u \in Tabs, t # u, browserOf[t] = browserOf[u],
                      browserOf[t] \in hasLocks, pc[t] = "running"
               PROVE  pc[u] = "idle"
    BY DEF OnePerBrowser
  <2> QED BY DEF GuardInv, LockIsHeld
<1> QED BY <1>1, GuardInit, GuardStep, PTL DEF Spec

\* Relays that have had the stop of an instance do not report it as running, whichever
\* of its heartbeats arrives when (publishHeartbeat).
THEOREM StopsWin == Spec => []StopWins
<1>1. GuardInv => StopWins
  <2> SUFFICES ASSUME GuardInv, relay # None, relay.status = "running", relay.token \in notified
               PROVE  FALSE
    BY DEF StopWins
  <2>1. relay \in Known /\ relay \in Events
    BY DEF Known, GuardInv, Shapes
  <2>2. relay.at < relay.at /\ relay.at \in Nat
    BY <2>1 DEF GuardInv, StopPrevails, Events
  <2> QED BY <2>2
<1> QED BY <1>1, GuardInit, GuardStep, PTL DEF Spec

-----------------------------------------------------------------------------
(* Why a start is refused. *)

\* Where a tab may hold the lease of its browser.
Holding == {"rereading", "asking", "running"}

\* A web lock is held by a tab that is up.
LockIsLive ==
  \A b \in Browsers : lock[b] # None => browserOf[lock[b]] = b /\ pc[lock[b]] # "idle"

\* A lease is that of a crashed page or of a tab of the browser that is up.
LeasesAreAccounted ==
  \A b \in Browsers : lease[b] # None =>
    \/ lease[b].token \in crashed
    \/ \E t \in Tabs : browserOf[t] = b /\ pc[t] \in Holding /\ lease[b].token = Token(t)

\* The heartbeats that are on their way, kept, or in an answer of the relays.
Reported == Known \union ({answer[t] : t \in Tabs} \ {None})

\* A running heartbeat is that of a page that has crashed, that its browser knows to
\* have stopped, or that runs.
HeartbeatsAreAccounted ==
  \A e \in Reported : e.status = "running" =>
    \/ e.token \in crashed
    \/ e.token \in stopped[browserOf[e.token[1]]]
    \/ pc[e.token[1]] = "running" /\ e.token = Token(e.token[1])

\* No page that is up has crashed, in its present run.
CrashesArePast ==
  \A k \in crashed :
    /\ k \in Tabs \X Nat
    /\ k[2] <= starts[k[1]]
    /\ k[2] = starts[k[1]] => pc[k[1]] = "idle"

\* Of the tabs that are up with another, none is taken for one that was alone.
MeetingsAreKnown ==
  \A t \in Tabs : Active(t) /\ (\E u \in Tabs \ {t} : Active(u)) => t \in met

\* Whoever has heard an answer has met the tab that gave it.
HeardIsMet == \A t \in Tabs \cap heard : pc[t] = "probing" /\ t \in met

\* A tab that met nobody has its lease still, and all of the stopped tokens.
AloneIsUndisturbed ==
  \A t \in Tabs : t \notin met =>
    /\ pc[t] = "rereading" => Mine(t)
    /\ pc[t] = "asking" => stopped[browserOf[t]] \subseteq ignored[t]

\* An answer is to a tab that asks, and was true when it was given.
AnswersAreHonest ==
  \A t \in Tabs :
    /\ over[t] \subseteq notified
    /\ answer[t] # None =>
         pc[t] = "asking" /\ (answer[t].status = "running" => answer[t].token \notin over[t])

ProbeInv ==
  /\ over = [t \in Tabs |-> over[t]]
  /\ ignored = [t \in Tabs |-> ignored[t]]
  /\ answer = [t \in Tabs |-> answer[t]]
  /\ Reported \subseteq Events
  /\ MeetingsAreKnown
  /\ HeardIsMet
  /\ AloneIsUndisturbed
  /\ AnswersAreHonest

\* The inductive invariant.
RefusalInv ==
  /\ GuardInv
  /\ lease = [b \in Browsers |-> lease[b]]
  /\ stopped = [b \in Browsers |-> stopped[b]]
  /\ LockIsLive
  /\ LeasesAreAccounted
  /\ HeartbeatsAreAccounted
  /\ CrashesArePast
  /\ ProbeInv

\* What a step may do to locks, leases, heartbeats and crashed pages.
LockMoves ==
  /\ \A b \in Browsers :
       \/ lock'[b] \in {lock[b], None}
       \/ lock'[b] \in Tabs /\ browserOf[lock'[b]] = b /\ pc'[lock'[b]] # "idle"
  /\ \A t \in Tabs : pc[t] # "idle" => pc'[t] # "idle" \/ lock'[browserOf[t]] # t

LeaseMoves ==
  /\ \A b \in Browsers :
       \/ lease'[b] \in {lease[b], None}
       \/ \E t \in Tabs : browserOf[t] = b /\ pc'[t] \in Holding
                          /\ lease'[b].token = <<t, starts'[t]>>
  /\ \A t \in Tabs : pc[t] \in Holding =>
       \/ pc'[t] \in Holding /\ starts'[t] = starts[t]
       \/ Token(t) \in crashed'
       \/ lease'[browserOf[t]] # None => lease'[browserOf[t]].token # Token(t)

HeartbeatMoves ==
  /\ \A e \in Reported' :
       \/ e \in Reported
       \/ e.status = "running" => pc'[e.token[1]] = "running"
                                  /\ e.token = <<e.token[1], starts'[e.token[1]]>>
  /\ \A t \in Tabs : pc[t] = "running" =>
       \/ pc'[t] = "running" /\ starts'[t] = starts[t]
       \/ Token(t) \in crashed'
       \/ Token(t) \in stopped'[browserOf[t]]

CrashMoves ==
  /\ \A k \in crashed' : k \in crashed \/ (k[1] \in Tabs /\ k = Token(k[1]) /\ pc'[k[1]] = "idle"
                                           /\ starts'[k[1]] = starts[k[1]])
  /\ \A t \in Tabs : \/ starts'[t] = starts[t] /\ (pc[t] = "idle" => pc'[t] = "idle")
                     \/ starts'[t] = starts[t] + 1

Moves ==
  /\ browserOf' = browserOf
  /\ crashed \subseteq crashed'
  /\ \A b \in Browsers : stopped[b] \subseteq stopped'[b]
  /\ lease' = [b \in Browsers |-> lease'[b]]
  /\ stopped' = [b \in Browsers |-> stopped'[b]]
  /\ LockMoves /\ LeaseMoves /\ HeartbeatMoves /\ CrashMoves

LEMMA MovesKeep ==
  ASSUME RefusalInv, GuardInv', Moves, ProbeInv'
  PROVE  RefusalInv'
<1>0. /\ browserOf \in [Tabs -> Browsers] /\ starts \in [Tabs -> Nat] /\ starts' \in [Tabs -> Nat]
      /\ lock' \in [Browsers -> Tabs \union {None}] /\ Reported' \subseteq Events
      /\ lock \in [Browsers -> Tabs \union {None}]
  BY DEF RefusalInv, GuardInv, Shapes, ProbeInv
<1>1. LockIsLive'
  <2> SUFFICES ASSUME NEW b \in Browsers, lock'[b] # None
               PROVE  browserOf[lock'[b]] = b /\ pc'[lock'[b]] # "idle"
    BY DEF LockIsLive, Moves
  <2>1. CASE lock'[b] = lock[b]
    <3>1. lock[b] \in Tabs /\ browserOf[lock[b]] = b /\ pc[lock[b]] # "idle"
      BY <1>0, <2>1 DEF RefusalInv, LockIsLive
    <3>2. QED
      BY <2>1, <3>1 DEF Moves, LockMoves
  <2>2. CASE lock'[b] # lock[b]
    BY <2>2 DEF Moves, LockMoves
  <2>3. QED
    BY <2>1, <2>2
<1>2. LeasesAreAccounted'
  <2> SUFFICES ASSUME NEW b \in Browsers, lease'[b] # None
               PROVE  \/ lease'[b].token \in crashed'
                      \/ \E t \in Tabs : browserOf[t] = b /\ pc'[t] \in Holding
                                         /\ lease'[b].token = <<t, starts'[t]>>
    BY DEF LeasesAreAccounted, Moves, Token
  <2>1. CASE lease'[b] = lease[b]
    <3>1. CASE lease[b].token \in crashed
      BY <2>1, <3>1 DEF Moves
    <3>2. CASE \E t \in Tabs : browserOf[t] = b /\ pc[t] \in Holding /\ lease[b].token = Token(t)
      <4>1. PICK t \in Tabs : browserOf[t] = b /\ pc[t] \in Holding /\ lease[b].token = Token(t)
        BY <3>2
      <4>2. \/ pc'[t] \in Holding /\ starts'[t] = starts[t]
            \/ Token(t) \in crashed'
        BY <2>1, <4>1 DEF Moves, LeaseMoves
      <4>3. QED
        BY <2>1, <4>1, <4>2 DEF Token
    <3>3. QED
      BY <2>1, <3>1, <3>2 DEF RefusalInv, LeasesAreAccounted
  <2>2. CASE lease'[b] # lease[b]
    BY <2>2 DEF Moves, LeaseMoves
  <2>3. QED
    BY <2>1, <2>2
<1>3. HeartbeatsAreAccounted'
  <2> SUFFICES ASSUME NEW e \in Reported', e.status = "running"
               PROVE  \/ e.token \in crashed'
                      \/ e.token \in stopped'[browserOf[e.token[1]]]
                      \/ pc'[e.token[1]] = "running" /\ e.token = <<e.token[1], starts'[e.token[1]]>>
    BY DEF HeartbeatsAreAccounted, Moves, Token
  <2>1. e.token[1] \in Tabs /\ browserOf[e.token[1]] \in Browsers
    BY <1>0 DEF Events
  <2>2. CASE e \in Reported
    <3>1. CASE e.token \in crashed
      BY <3>1 DEF Moves
    <3>2. CASE e.token \in stopped[browserOf[e.token[1]]]
      BY <2>1, <3>2 DEF Moves
    <3>3. CASE pc[e.token[1]] = "running" /\ e.token = Token(e.token[1])
      BY <2>1, <3>3 DEF Moves, HeartbeatMoves, Token
    <3>4. QED
      BY <2>2, <3>1, <3>2, <3>3 DEF RefusalInv, HeartbeatsAreAccounted
  <2>3. CASE e \notin Reported
    BY <2>3 DEF Moves, HeartbeatMoves
  <2>4. QED
    BY <2>2, <2>3
<1>4. CrashesArePast'
  <2> SUFFICES ASSUME NEW k \in crashed'
               PROVE  /\ k \in Tabs \X Nat
                      /\ k[2] <= starts'[k[1]]
                      /\ k[2] = starts'[k[1]] => pc'[k[1]] = "idle"
    BY DEF CrashesArePast
  <2>1. CASE k \in crashed
    <3>1. k \in Tabs \X Nat /\ k[2] <= starts[k[1]] /\ (k[2] = starts[k[1]] => pc[k[1]] = "idle")
      BY <2>1 DEF RefusalInv, CrashesArePast
    <3>2. k[1] \in Tabs /\ k[2] \in Nat /\ starts[k[1]] \in Nat
      BY <1>0, <3>1
    <3>3. \/ starts'[k[1]] = starts[k[1]] /\ (pc[k[1]] = "idle" => pc'[k[1]] = "idle")
          \/ starts'[k[1]] = starts[k[1]] + 1
      BY <3>2 DEF Moves, CrashMoves
    <3>4. QED
      BY <3>1, <3>2, <3>3
  <2>2. CASE k \notin crashed
    <3>1. k[1] \in Tabs /\ k = <<k[1], starts[k[1]]>> /\ pc'[k[1]] = "idle"
          /\ starts'[k[1]] = starts[k[1]]
      BY <2>2 DEF Moves, CrashMoves, Token
    <3>2. starts[k[1]] \in Nat
      BY <1>0, <3>1
    <3>3. k \in Tabs \X Nat /\ k[2] = starts[k[1]]
      BY <3>1, <3>2
    <3>4. QED
      BY <3>1, <3>2, <3>3
  <2>3. QED
    BY <2>1, <2>2
<1>5. QED
  BY <1>1, <1>2, <1>3, <1>4 DEF RefusalInv, Moves

\* A tab that is refused or stops gives back its own lock and lease.
LEMMA UnlockMoves ==
  ASSUME RefusalInv, NEW t \in Tabs, Unlock(t), browserOf' = browserOf
  PROVE  \A b \in Browsers : lock'[b] \in {lock[b], None} /\ lock'[b] # t
<1>1. lock \in [Browsers -> Tabs \union {None}] /\ browserOf \in [Tabs -> Browsers]
  BY DEF RefusalInv, GuardInv, Shapes
<1>2. \A b \in Browsers : lock'[b] = IF b = browserOf[t] /\ lock[b] = t THEN None ELSE lock[b]
  BY <1>1 DEF Unlock
<1>3. \A b \in Browsers : lock[b] = t => b = browserOf[t]
  BY InstanceAssumption DEF RefusalInv, LockIsLive
<1>4. QED
  BY <1>2, <1>3, InstanceAssumption

LEMMA ReleaseMoves ==
  ASSUME RefusalInv, NEW t \in Tabs, ReleaseLease(t), browserOf' = browserOf
  PROVE  /\ \A b \in Browsers : lease'[b] \in {lease[b], None}
         /\ lease'[browserOf[t]] # None => lease'[browserOf[t]].token # Token(t)
         /\ \A b \in Browsers : stopped[b] \subseteq stopped'[b]
         /\ Token(t) \in stopped'[browserOf[t]]
         /\ lease' = [b \in Browsers |-> lease'[b]]
         /\ stopped' = [b \in Browsers |-> stopped'[b]]
<1>1. browserOf[t] \in Browsers
      /\ lease = [b \in Browsers |-> lease[b]] /\ stopped = [b \in Browsers |-> stopped[b]]
  BY DEF RefusalInv, GuardInv, Shapes
<1>2. \A b \in Browsers : lease'[b] = IF b = browserOf[t] /\ Mine(t) THEN None ELSE lease[b]
  BY <1>1 DEF ReleaseLease
<1>3. \A b \in Browsers : stopped'[b] = IF b = browserOf[t] THEN stopped[b] \union {Token(t)}
                                        ELSE stopped[b]
  BY <1>1 DEF ReleaseLease
<1>4. lease' = [b \in Browsers |-> lease'[b]] /\ stopped' = [b \in Browsers |-> stopped'[b]]
  BY <1>1 DEF ReleaseLease
<1>5. QED
  BY <1>1, <1>2, <1>3, <1>4 DEF Mine

\* Steps in which the tab t goes from one place to another, in the same run.
LEMMA TabMoves ==
  ASSUME RefusalInv, NEW t \in Tabs, NEW label, Goto(t, label), UNCHANGED starts
  PROVE  /\ pc'[t] = label
         /\ \A u \in Tabs : u # t => pc'[u] = pc[u]
         /\ \A u \in Tabs : starts'[u] = starts[u]
BY DEF RefusalInv, GuardInv, Shapes, Goto

LEMMA SameReported ==
  ASSUME UNCHANGED <<sent, relay>>, \A t \in Tabs : answer'[t] \in {answer[t], None}
  PROVE  Reported' \subseteq Reported
BY DEF Reported, Known

\* Whose probes end has no answer any more.
LEMMA EndedReports ==
  ASSUME RefusalInv, NEW t \in Tabs, EndProbes(t)
  PROVE  /\ \A u \in Tabs : u # t => answer'[u] = answer[u] /\ over'[u] = over[u] /\ ignored'[u] = ignored[u]
         /\ answer'[t] = None /\ over'[t] = {} /\ heard' = heard \ {t}
         /\ answer' = [u \in Tabs |-> answer'[u]]
         /\ over' = [u \in Tabs |-> over'[u]]
         /\ ignored' = [u \in Tabs |-> ignored'[u]]
BY DEF EndProbes, RefusalInv, ProbeInv

LEMMA RefuseMoves ==
  ASSUME RefusalInv, NEW t \in Tabs, Refuse(t), UNCHANGED <<browserOf, starts, sent, relay, crashed>>,
         \/ pc[t] \in {"probing", "asking"}
         \/ pc[t] = "rereading" /\ ~Mine(t)
  PROVE  Moves
<1>1. /\ pc'[t] = "idle"
      /\ \A u \in Tabs : u # t => pc'[u] = pc[u]
      /\ \A u \in Tabs : starts'[u] = starts[u]
  BY TabMoves DEF Refuse
<1>2. Reported' \subseteq Reported
  BY EndedReports, SameReported DEF Refuse
<1>3. LockMoves
  <2>1. \A b \in Browsers : lock'[b] \in {lock[b], None} /\ lock'[b] # t
    BY UnlockMoves DEF Refuse
  <2>2. browserOf \in [Tabs -> Browsers]
    BY DEF RefusalInv, GuardInv, Shapes
  <2>3. QED
    BY <1>1, <2>1, <2>2 DEF LockMoves
<1>4. /\ \A b \in Browsers : lease'[b] \in {lease[b], None}
      /\ pc[t] \in Holding /\ lease'[browserOf[t]] # None => lease'[browserOf[t]].token # Token(t)
      /\ \A b \in Browsers : stopped[b] \subseteq stopped'[b]
      /\ lease' = [b \in Browsers |-> lease'[b]]
      /\ stopped' = [b \in Browsers |-> stopped'[b]]
  <2>1. CASE pc[t] = "asking"
    BY <2>1, ReleaseMoves DEF Refuse
  <2>2. CASE pc[t] # "asking"
    BY <2>2 DEF Refuse, RefusalInv, Holding, Mine
  <2>3. QED
    BY <2>1, <2>2
<1>5. LeaseMoves
  BY <1>1, <1>4 DEF LeaseMoves
<1>6. HeartbeatMoves
  BY <1>1, <1>2 DEF HeartbeatMoves
<1>7. CrashMoves
  BY <1>1 DEF CrashMoves
<1>8. QED
  BY <1>3, <1>4, <1>5, <1>6, <1>7 DEF Moves

\* Steps that leave locks, leases and stopped tokens alone, and no tab goes back.
LEMMA OnwardMoves ==
  ASSUME RefusalInv, UNCHANGED <<browserOf, starts, lock, lease, stopped, crashed>>,
         \A u \in Tabs : /\ pc[u] # "idle" <=> pc'[u] # "idle"
                         /\ pc[u] \in Holding => pc'[u] \in Holding
                         /\ pc[u] = "running" => pc'[u] = "running",
         \A e \in Reported' : e \in Reported \/ (e.status = "running" => pc'[e.token[1]] = "running"
                                           /\ e.token = <<e.token[1], starts'[e.token[1]]>>)
  PROVE  Moves
<1>1. LockMoves /\ LeaseMoves
  BY DEF LockMoves, LeaseMoves
<1>2. HeartbeatMoves /\ CrashMoves
  BY DEF HeartbeatMoves, CrashMoves
<1>3. QED
  BY <1>1, <1>2 DEF Moves, RefusalInv

\* A tab that writes the lease of its browser.
LEMMA WriteMoves ==
  ASSUME RefusalInv, UNCHANGED <<browserOf, starts, lock, stopped, crashed, sent, relay, answer>>,
         NEW t \in Tabs, WriteLease(t), pc'[t] \in Holding,
         \A u \in Tabs : /\ pc[u] # "idle" <=> pc'[u] # "idle"
                         /\ pc[u] \in Holding => pc'[u] \in Holding
                         /\ pc[u] = "running" => pc'[u] = "running"
  PROVE  Moves
<1>1. /\ browserOf[t] \in Browsers
      /\ lease = [b \in Browsers |-> lease[b]] /\ stopped = [b \in Browsers |-> stopped[b]]
  BY DEF RefusalInv, GuardInv, Shapes
<1>2. /\ lease'[browserOf[t]].token = Token(t)
      /\ \A b \in Browsers : b # browserOf[t] => lease'[b] = lease[b]
      /\ lease' = [b \in Browsers |-> lease'[b]]
  BY <1>1 DEF WriteLease
<1>3. LockMoves
  BY DEF LockMoves
<1>4. LeaseMoves
  BY <1>2 DEF LeaseMoves, Token
<1>5. HeartbeatMoves /\ CrashMoves
  BY SameReported DEF HeartbeatMoves, CrashMoves
<1>6. QED
  BY <1>1, <1>2, <1>3, <1>4, <1>5 DEF Moves

LEMMA StepMoves ==
  ASSUME RefusalInv, Next
  PROVE  Moves
<1>0. /\ browserOf \in [Tabs -> Browsers] /\ starts \in [Tabs -> Nat] /\ pc \in [Tabs -> Places]
      /\ lock \in [Browsers -> Tabs \union {None}]
      /\ lease = [b \in Browsers |-> lease[b]] /\ stopped = [b \in Browsers |-> stopped[b]]
  BY DEF RefusalInv, GuardInv, Shapes
<1>b. browserOf' = browserOf
  BY DEF Next, settingVars
<1>1. ASSUME NEW t \in Tabs, AcquireWebLock(t)
      PROVE  Moves
  <2>1. /\ pc[t] = "idle" /\ starts'[t] = starts[t] + 1
        /\ \A u \in Tabs : u # t => starts'[u] = starts[u] /\ pc'[u] = pc[u]
        /\ pc'[t] \in {"idle", "probing"}
    BY <1>0, <1>1 DEF AcquireWebLock, Goto
  <2>2. /\ UNCHANGED <<lease, stopped, crashed, sent, relay, answer>>
        /\ \A b \in Browsers : lock'[b] = lock[b] \/ (b = browserOf[t] /\ lock'[b] = t
                                                      /\ pc'[t] = "probing")
        /\ \A b \in Browsers : lock[b] # None => lock'[b] = lock[b] \/ b \notin hasLocks
    BY <1>0, <1>1 DEF AcquireWebLock, nostrVars, Goto, LockIsFree
  <2>3. Reported' \subseteq Reported
    BY <2>2, SameReported
  <2>4. LockMoves
    BY <1>0, <2>1, <2>2 DEF LockMoves
  <2>5. LeaseMoves
    BY <2>1, <2>2 DEF LeaseMoves, Holding
  <2>6. HeartbeatMoves
    BY <2>1, <2>2, <2>3 DEF HeartbeatMoves
  <2>7. CrashMoves
    BY <2>1, <2>2 DEF CrashMoves
  <2>8. QED
    BY <1>b, <1>0, <2>2, <2>4, <2>5, <2>6, <2>7 DEF Moves
<1>2. ASSUME NEW t \in Tabs, ProbeBroadcast(t)
      PROVE  Moves
  <2>1. pc[t] = "probing" /\ UNCHANGED <<browserOf, starts, sent, relay, crashed>>
    BY <1>2, <1>b DEF ProbeBroadcast, Awake, nostrVars
  <2>2. CASE Refuse(t)
    BY <2>1, <2>2, RefuseMoves
  <2>3. CASE Goto(t, "writing") /\ EndProbes(t) /\ UNCHANGED <<lock, lease, stopped>>
    <3>1. pc'[t] = "writing" /\ \A u \in Tabs : u # t => pc'[u] = pc[u]
      BY <2>1, <2>3, TabMoves
    <3>2. \A u \in Tabs : /\ pc[u] # "idle" <=> pc'[u] # "idle"
                          /\ pc[u] \in Holding => pc'[u] \in Holding
                          /\ pc[u] = "running" => pc'[u] = "running"
      BY <2>1, <3>1 DEF Holding
    <3>3. QED
      BY <2>1, <2>3, <3>2, OnwardMoves, SameReported, EndedReports
  <2>4. QED
    BY <1>2, <2>2, <2>3 DEF ProbeBroadcast
<1>3. ASSUME NEW t \in Tabs, AcquireStorageLease(t)
      PROVE  Moves
  <2>1. /\ pc[t] = "writing"
        /\ UNCHANGED <<browserOf, starts, sent, relay, crashed, lock, stopped, answer>>
        /\ WriteLease(t)
    BY <1>3, <1>b DEF AcquireStorageLease, Awake, nostrVars, probeVars
  <2>2. pc'[t] = "rereading" /\ \A u \in Tabs : u # t => pc'[u] = pc[u]
    BY <1>3, <2>1, TabMoves DEF AcquireStorageLease
  <2>3. \A u \in Tabs : /\ pc[u] # "idle" <=> pc'[u] # "idle"
                        /\ pc[u] \in Holding => pc'[u] \in Holding
                        /\ pc[u] = "running" => pc'[u] = "running"
    BY <2>1, <2>2 DEF Holding
  <2>4. pc'[t] \in Holding
    BY <2>2 DEF Holding
  <2>5. QED
    BY <2>1, <2>3, <2>4, WriteMoves
<1>4. ASSUME NEW t \in Tabs, RereadLease(t)
      PROVE  Moves
  <2>1. pc[t] = "rereading" /\ UNCHANGED <<browserOf, starts, sent, relay, crashed>>
    BY <1>4, <1>b DEF RereadLease, Awake, nostrVars
  <2>2. CASE Refuse(t) /\ ~Mine(t)
    BY <2>1, <2>2, RefuseMoves
  <2>3. CASE Goto(t, "asking") /\ UNCHANGED <<lock, lease, stopped, answer>>
    <3>1. pc'[t] = "asking" /\ \A u \in Tabs : u # t => pc'[u] = pc[u]
      BY <2>1, <2>3, TabMoves
    <3>2. \A u \in Tabs : /\ pc[u] # "idle" <=> pc'[u] # "idle"
                          /\ pc[u] \in Holding => pc'[u] \in Holding
                          /\ pc[u] = "running" => pc'[u] = "running"
      BY <2>1, <3>1 DEF Holding
    <3>3. QED
      BY <2>1, <2>3, <3>2, OnwardMoves, SameReported, EndedReports
  <2>4. QED
    BY <1>4, <2>2, <2>3 DEF RereadLease
<1>5. ASSUME NEW t \in Tabs, ProbeNostr(t)
      PROVE  Moves
  <2>1. pc[t] = "asking" /\ UNCHANGED <<browserOf, starts, relay, crashed>>
    BY <1>5, <1>b DEF ProbeNostr, Awake
  <2>2. CASE Refuse(t) /\ UNCHANGED <<created, sent>>
    BY <2>1, <2>2, RefuseMoves
  <2>3. CASE Goto(t, "running") /\ EndProbes(t) /\ Publish(t, "running") /\ UNCHANGED browserVars
    <3>1. pc'[t] = "running" /\ \A u \in Tabs : u # t => pc'[u] = pc[u]
      BY <2>1, <2>3, TabMoves
    <3>2. \A u \in Tabs : /\ pc[u] # "idle" <=> pc'[u] # "idle"
                          /\ pc[u] \in Holding => pc'[u] \in Holding
                          /\ pc[u] = "running" => pc'[u] = "running"
      BY <2>1, <3>1 DEF Holding
    <3>3. \A e \in Reported' : e \in Reported \/ e.token = <<t, starts[t]>>
      BY <2>1, <2>3, EndedReports DEF Reported, Known, Publish, Token
    <3>4. UNCHANGED <<lock, lease, stopped>>
      BY <2>3 DEF browserVars
    <3>5. QED
      BY <2>1, <3>1, <3>2, <3>3, <3>4, OnwardMoves
  <2>4. QED
    BY <1>5, <2>2, <2>3 DEF ProbeNostr
<1>6. ASSUME NEW t \in Tabs, Heartbeat(t)
      PROVE  Moves
  <2>1. /\ pc[t] = "running" /\ Publish(t, "running")
        /\ UNCHANGED <<browserOf, starts, pc, lock, lease, stopped, crashed, relay, answer>>
    BY <1>6, <1>b DEF Heartbeat, Awake, pageVars, browserVars, probeVars
  <2>2. \A e \in Reported' : e \in Reported \/ e.token = <<t, starts[t]>>
    BY <2>1 DEF Reported, Known, Publish, Token
  <2>3. QED
    BY <2>1, <2>2, OnwardMoves
<1>7. ASSUME NEW t \in Tabs, Release(t)
      PROVE  Moves
  <2>1. /\ pc[t] = "running" /\ Goto(t, "idle") /\ Unlock(t) /\ ReleaseLease(t)
        /\ Publish(t, "stopped") /\ EndProbes(t)
        /\ UNCHANGED <<browserOf, starts, crashed, relay>>
    BY <1>7, <1>b DEF Release, Awake
  <2>2. /\ pc'[t] = "idle" /\ \A u \in Tabs : u # t => pc'[u] = pc[u]
        /\ \A u \in Tabs : starts'[u] = starts[u]
    BY <2>1, TabMoves
  <2>3. \A b \in Browsers : lock'[b] \in {lock[b], None} /\ lock'[b] # t
    BY <2>1, UnlockMoves
  <2>4. /\ \A b \in Browsers : lease'[b] \in {lease[b], None}
        /\ lease'[browserOf[t]] # None => lease'[browserOf[t]].token # Token(t)
        /\ \A b \in Browsers : stopped[b] \subseteq stopped'[b]
        /\ Token(t) \in stopped'[browserOf[t]]
        /\ lease' = [b \in Browsers |-> lease'[b]]
        /\ stopped' = [b \in Browsers |-> stopped'[b]]
    BY <2>1, ReleaseMoves
  <2>5. \A e \in Reported' : e \in Reported \/ e.status = "stopped"
    BY <2>1, EndedReports DEF Reported, Known, Publish
  <2>6. LockMoves
    BY <1>0, <2>2, <2>3 DEF LockMoves
  <2>7. LeaseMoves
    BY <2>2, <2>4 DEF LeaseMoves
  <2>8. HeartbeatMoves
    BY <2>2, <2>4, <2>5 DEF HeartbeatMoves
  <2>9. CrashMoves
    BY <2>1, <2>2 DEF CrashMoves
  <2>10. QED
    BY <1>b, <2>1, <2>4, <2>6, <2>7, <2>8, <2>9 DEF Moves
<1>8. ASSUME NEW t \in Tabs, Crash(t)
      PROVE  Moves
  <2>1. /\ pc[t] # "idle" /\ Goto(t, "idle") /\ Unlock(t) /\ EndProbes(t)
        /\ crashed' = crashed \union {Token(t)}
        /\ UNCHANGED <<browserOf, starts, lease, stopped, sent, relay>>
    BY <1>8, <1>b DEF Crash
  <2>2. /\ pc'[t] = "idle" /\ \A u \in Tabs : u # t => pc'[u] = pc[u]
        /\ \A u \in Tabs : starts'[u] = starts[u]
    BY <2>1, TabMoves
  <2>3. \A b \in Browsers : lock'[b] \in {lock[b], None} /\ lock'[b] # t
    BY <2>1, UnlockMoves
  <2>4. Reported' \subseteq Reported
    BY <2>1, SameReported, EndedReports
  <2>5. LockMoves
    BY <1>0, <2>2, <2>3 DEF LockMoves
  <2>6. LeaseMoves
    BY <2>1, <2>2 DEF LeaseMoves
  <2>7. HeartbeatMoves
    BY <2>1, <2>2, <2>4 DEF HeartbeatMoves
  <2>8. CrashMoves
    <3>1. Token(t) = <<t, starts[t]>> /\ Token(t)[1] = t
      BY DEF Token
    <3>2. QED
      BY <2>1, <2>2, <3>1 DEF CrashMoves
  <2>9. QED
    BY <1>0, <1>b, <2>1, <2>5, <2>6, <2>7, <2>8 DEF Moves
<1>9. ASSUME NEW t \in Tabs, Freeze(t)
      PROVE  Moves
  <2>1. UNCHANGED <<browserOf, starts, pc, lock, lease, stopped, crashed, sent, relay, answer>>
    BY <1>9, <1>b DEF Freeze, browserVars, nostrVars, probeVars
  <2>2. QED
    BY <2>1, OnwardMoves, SameReported
<1>10. ASSUME NEW t \in Tabs, Thaw(t)
       PROVE  Moves
  <2>1. UNCHANGED <<browserOf, starts, pc, lock, stopped, crashed, sent, relay, answer>>
    BY <1>10, <1>b DEF Thaw, nostrVars, probeVars
  <2>2. CASE pc[t] \in {"asking", "running"}
    <3>1. WriteLease(t) /\ pc'[t] \in Holding
      BY <1>10, <2>1, <2>2 DEF Thaw, Holding
    <3>2. QED
      BY <2>1, <3>1, WriteMoves
  <2>3. CASE pc[t] \notin {"asking", "running"}
    <3>1. UNCHANGED lease
      BY <1>10, <2>3 DEF Thaw
    <3>2. QED
      BY <2>1, <3>1, OnwardMoves, SameReported
  <2>4. QED
    BY <2>2, <2>3
<1>11. ASSUME NEW e \in sent, Delivered(e)
       PROVE  Moves
  <2>1. UNCHANGED <<browserOf, starts, pc, lock, lease, stopped, crashed, answer>>
    BY <1>11, <1>b DEF Delivered, pageVars, browserVars, probeVars
  <2>2. relay' \in {e, relay} /\ sent' \subseteq sent
    BY <1>11 DEF Delivered
  <2>3. relay' = relay \/ relay' \in Known
    BY <2>2 DEF Known
  <2>4. Known' \subseteq Known
    BY <2>2, <2>3 DEF Known
  <2>5. Reported' \subseteq Reported
    BY <2>1, <2>4 DEF Reported
  <2>6. QED
    BY <2>1, <2>5, OnwardMoves
<1>12. CASE Tick
  <2>1. UNCHANGED <<browserOf, starts, pc, lock, stopped, crashed, sent, relay, answer>>
    BY <1>12, <1>b DEF Tick, pageVars, nostrVars, probeVars
  <2>2. PICK f \in [Browsers -> UNION {Renewals(b) : b \in Browsers}] :
          (\A b \in Browsers : f[b] \in Renewals(b)) /\ lease' = f
    BY <1>12 DEF Tick
  <2>3. \A b \in Browsers :
          \/ lease'[b] = lease[b]
          \/ \E t \in Tabs : browserOf[t] = b /\ pc[t] \in Holding
                             /\ lease'[b].token = <<t, starts[t]>>
    <3> SUFFICES ASSUME NEW b \in Browsers
                 PROVE  \/ lease'[b] = lease[b]
                        \/ \E t \in Tabs : browserOf[t] = b /\ pc[t] \in Holding
                                           /\ lease'[b].token = <<t, starts[t]>>
      OBVIOUS
    <3>1. f[b] \in Renewals(b) /\ lease'[b] = f[b]
      BY <2>2
    <3>2. CASE Renewing(b) = {}
      BY <3>1, <3>2 DEF Renewals
    <3>3. CASE Renewing(b) # {}
      <4>1. PICK t \in Renewing(b) :
              f[b] = [token |-> Token(t), expiresAt |-> clock + 1 + LeaseDuration]
        BY <3>1, <3>3 DEF Renewals
      <4>2. t \in Tabs /\ browserOf[t] = b /\ pc[t] \in Holding
        BY <4>1 DEF Renewing, Holding
      <4>3. lease'[b].token = <<t, starts[t]>>
        BY <3>1, <4>1 DEF Token
      <4>4. QED
        BY <4>2, <4>3
    <3>4. QED
      BY <3>2, <3>3
  <2>4. lease' = [b \in Browsers |-> lease'[b]]
    BY <2>2
  <2>5. LockMoves /\ CrashMoves
    BY <2>1 DEF LockMoves, CrashMoves
  <2>6. LeaseMoves
    BY <2>1, <2>3 DEF LeaseMoves
  <2>7. HeartbeatMoves
    BY <2>1, SameReported DEF HeartbeatMoves
  <2>8. QED
    BY <1>0, <2>1, <2>4, <2>5, <2>6, <2>7 DEF Moves
<1>13. ASSUME NEW t \in Tabs, AnswerProbe(t)
       PROVE  Moves
  <2>1. UNCHANGED <<browserOf, starts, pc, lock, lease, stopped, crashed, sent, relay, answer>>
    BY <1>13, <1>b DEF AnswerProbe, pageVars, browserVars, nostrVars
  <2>2. QED
    BY <2>1, OnwardMoves, SameReported
<1>14. ASSUME NEW t \in Tabs, RelaysAnswer(t)
       PROVE  Moves
  <2>1. /\ UNCHANGED <<browserOf, starts, pc, lock, lease, stopped, crashed, sent, relay>>
        /\ relay # None /\ \A u \in Tabs : answer'[u] \in {answer[u], relay}
    BY <1>14, <1>b DEF RelaysAnswer, pageVars, browserVars, nostrVars, RefusalInv, ProbeInv
  <2>2. Reported' \subseteq Reported
    BY <2>1 DEF Reported, Known
  <2>3. QED
    BY <2>1, <2>2, OnwardMoves
<1>15. QED
  BY <1>1, <1>2, <1>3, <1>4, <1>5, <1>6, <1>7, <1>8, <1>9, <1>10, <1>11, <1>12, <1>13, <1>14
     DEF Next, Step

\* What a step may do to probes and their answers: whoever is alone keeps its lease, and
\* asks with all of the stopped tokens.
ProbeMoves ==
  /\ over' = [t \in Tabs |-> over'[t]]
  /\ ignored' = [t \in Tabs |-> ignored'[t]]
  /\ answer' = [t \in Tabs |-> answer'[t]]
  /\ notified \subseteq notified'
  /\ \A t \in Tabs \cap heard' :
       /\ pc'[t] = "probing" /\ pc[t] = "probing"
       /\ t \in heard \/ \E u \in Tabs \ {t} : Active(u)
  /\ \A t \in Tabs :
       \/ answer'[t] = None
       \/ /\ answer'[t] = answer[t] \/ (relay # None /\ answer'[t] = relay)
          /\ over'[t] = over[t] /\ pc[t] = "asking" /\ pc'[t] = "asking"
  /\ \A t \in Tabs : over'[t] \subseteq notified
  /\ \A t \in Tabs : pc'[t] \in {"rereading", "asking"} => Active(t)
  /\ \A t \in Tabs :
       \/ \E u \in Tabs \ {t} : Active(u)
       \/ pc'[t] \notin {"rereading", "asking"}
       \/ pc'[t] = "rereading" /\ Mine(t)'
       \/ pc'[t] = "asking" /\ stopped'[browserOf[t]] \subseteq ignored'[t]
       \/ /\ pc'[t] = pc[t]
          /\ pc[t] = "rereading" => (Mine(t) => Mine(t)')
          /\ stopped'[browserOf[t]] = stopped[browserOf[t]] /\ ignored'[t] = ignored[t]

LEMMA ProbesKeep ==
  ASSUME RefusalInv, GuardInv', Moves, ProbeMoves,
         met' = Met' \union {t \in met : Active(t)'} \/ UNCHANGED <<pc, met>>
  PROVE  ProbeInv'
<1>0. /\ Known \subseteq Events /\ Known' \subseteq Events /\ Reported \subseteq Events
      /\ browserOf' = browserOf
  BY DEF RefusalInv, GuardInv, Shapes, ProbeInv, Moves
<1>1. MeetingsAreKnown'
  BY DEF Met, MeetingsAreKnown, RefusalInv, ProbeInv, Active
<1>2. \A t \in Tabs : Active(t)' /\ (t \in met \/ (Active(t) /\ \E u \in Tabs \ {t} : Active(u))) => t \in met'
  BY DEF RefusalInv, ProbeInv, MeetingsAreKnown, Active
<1>3. HeardIsMet'
  BY <1>2 DEF HeardIsMet, ProbeMoves, RefusalInv, ProbeInv, Active
<1>4. AnswersAreHonest'
  <2> SUFFICES ASSUME NEW t \in Tabs
               PROVE  /\ over'[t] \subseteq notified'
                      /\ answer'[t] # None =>
                           pc'[t] = "asking" /\ (answer'[t].status = "running" => answer'[t].token \notin over'[t])
    BY DEF AnswersAreHonest
  <2>1. over'[t] \subseteq notified'
    BY DEF ProbeMoves
  <2>2. CASE answer'[t] = answer[t]
    BY <2>2 DEF ProbeMoves, RefusalInv, ProbeInv, AnswersAreHonest
  <2>3. CASE relay # None /\ answer'[t] = relay /\ answer'[t] # answer[t] /\ answer'[t] # None
    <3>1. over'[t] = over[t] /\ pc'[t] = "asking" /\ over[t] \subseteq notified
      BY <2>3 DEF ProbeMoves, RefusalInv, ProbeInv, AnswersAreHonest
    <3>2. relay.status = "running" => relay.token \notin notified
      <4> SUFFICES ASSUME relay.status = "running", relay.token \in notified
                   PROVE  FALSE
        OBVIOUS
      <4>1. relay \in Known /\ relay \in Events
        BY <1>0, <2>3 DEF Known
      <4>2. relay.at < relay.at /\ relay.at \in Nat
        BY <4>1 DEF RefusalInv, GuardInv, StopPrevails, Events
      <4> QED BY <4>2
    <3> QED BY <2>1, <2>3, <3>1, <3>2
  <2>4. QED
    BY <2>1, <2>2, <2>3 DEF ProbeMoves
<1>5. Reported' \subseteq Events
  <2>1. \A t \in Tabs : answer'[t] # None => answer'[t] = answer[t] \/ (relay # None /\ answer'[t] = relay)
    BY DEF ProbeMoves
  <2>2. \A t \in Tabs : answer[t] # None => answer[t] \in Reported
    BY DEF Reported
  <2>3. relay # None => relay \in Known
    BY DEF Known
  <2> QED BY <1>0, <2>1, <2>2, <2>3 DEF Reported
<1>6. AloneIsUndisturbed'
  <2> SUFFICES ASSUME NEW t \in Tabs, t \notin met'
               PROVE  /\ pc'[t] = "rereading" => Mine(t)'
                      /\ pc'[t] = "asking" => stopped'[browserOf[t]] \subseteq ignored'[t]
    BY <1>0 DEF AloneIsUndisturbed
  <2>1. CASE pc'[t] \in {"rereading", "asking"}
    <3>1. Active(t)' /\ t \notin met
      BY <1>2, <2>1 DEF Active
    <3>2. ~ \E u \in Tabs \ {t} : Active(u)
      BY <1>2, <2>1, <3>1 DEF ProbeMoves
    <3>3. QED
      BY <2>1, <3>1, <3>2 DEF ProbeMoves, RefusalInv, ProbeInv, AloneIsUndisturbed
  <2>2. QED
    BY <2>1
<1>7. QED
  BY <1>1, <1>3, <1>4, <1>5, <1>6 DEF ProbeInv, ProbeMoves

\* Steps in which the probes of a tab end.
LEMMA EndMoves ==
  ASSUME RefusalInv, NEW t \in Tabs, EndProbes(t), Active(t), UNCHANGED <<browserOf, notified>>,
         pc'[t] \notin {"rereading", "asking"}, \A u \in Tabs : u # t => pc'[u] = pc[u]
  PROVE  ProbeMoves
<1>1. /\ \A u \in Tabs : over[u] \subseteq notified
      /\ \A u \in Tabs : answer[u] # None => pc[u] = "asking"
      /\ \A u \in Tabs \cap heard : pc[u] = "probing"
  BY DEF RefusalInv, ProbeInv, AnswersAreHonest, HeardIsMet
<1>2. /\ \A u \in Tabs : u # t => answer'[u] = answer[u] /\ over'[u] = over[u] /\ ignored'[u] = ignored[u]
      /\ answer'[t] = None /\ over'[t] = {} /\ heard' = heard \ {t}
      /\ answer' = [u \in Tabs |-> answer'[u]]
      /\ over' = [u \in Tabs |-> over'[u]]
      /\ ignored' = [u \in Tabs |-> ignored'[u]]
  BY EndedReports
<1>3. \A u \in Tabs : \/ \E v \in Tabs \ {u} : Active(v)
                      \/ pc'[u] \notin {"rereading", "asking"}
  OBVIOUS
<1>4. \A u \in Tabs : pc'[u] \in {"rereading", "asking"} => Active(u)
  BY DEF Active
<1>5. \A u \in Tabs :
        \/ answer'[u] = None
        \/ answer'[u] = answer[u] /\ over'[u] = over[u] /\ pc[u] = "asking" /\ pc'[u] = "asking"
  <2> TAKE u \in Tabs
  <2>1. CASE u = t
    BY <1>2, <2>1
  <2>2. CASE u # t
    BY <1>1, <1>2, <2>2
  <2> QED BY <2>1, <2>2
<1>6. QED
  BY <1>1, <1>2, <1>3, <1>4, <1>5 DEF ProbeMoves

\* Steps that leave the pages and their probes alone.
LEMMA StillMoves ==
  ASSUME RefusalInv, UNCHANGED <<browserOf, pc, starts, stopped, heard, ignored, over, answer>>,
         notified \subseteq notified',
         \A t \in Tabs : pc[t] = "rereading" =>
           \/ \E u \in Tabs \ {t} : Active(u)
           \/ lease'[browserOf[t]] = lease[browserOf[t]]
  PROVE  ProbeMoves
<1>1. /\ \A u \in Tabs : over[u] \subseteq notified
      /\ \A u \in Tabs : answer[u] # None => pc[u] = "asking"
      /\ \A u \in Tabs \cap heard : pc[u] = "probing"
      /\ over = [t \in Tabs |-> over[t]]
      /\ ignored = [t \in Tabs |-> ignored[t]]
      /\ answer = [t \in Tabs |-> answer[t]]
  BY DEF RefusalInv, ProbeInv, AnswersAreHonest, HeardIsMet
<1>2. \A t \in Tabs : \/ \E u \in Tabs \ {t} : Active(u)
                      \/ pc[t] = "rereading" => (Mine(t) => Mine(t)')
  BY DEF Mine, Token
<1>3. QED
  BY <1>1, <1>2 DEF ProbeMoves, Active

LEMMA ProbeStepMoves ==
  ASSUME RefusalInv, Next
  PROVE  ProbeMoves
<1>0. /\ browserOf \in [Tabs -> Browsers] /\ starts \in [Tabs -> Nat] /\ pc \in [Tabs -> Places]
      /\ lease = [b \in Browsers |-> lease[b]] /\ stopped = [b \in Browsers |-> stopped[b]]
      /\ \A u \in Tabs : over[u] \subseteq notified
      /\ \A u \in Tabs : answer[u] # None => pc[u] = "asking"
      /\ \A u \in Tabs \cap heard : pc[u] = "probing"
      /\ over = [t \in Tabs |-> over[t]]
      /\ ignored = [t \in Tabs |-> ignored[t]]
      /\ answer = [t \in Tabs |-> answer[t]]
  BY DEF RefusalInv, GuardInv, Shapes, ProbeInv, AnswersAreHonest, HeardIsMet
<1>b. browserOf' = browserOf
  BY DEF Next, settingVars
<1>1. ASSUME NEW t \in Tabs, AcquireWebLock(t)
      PROVE  ProbeMoves
  <2>1. /\ pc[t] = "idle" /\ pc'[t] \in {"idle", "probing"}
        /\ \A u \in Tabs : u # t => starts'[u] = starts[u] /\ pc'[u] = pc[u]
        /\ UNCHANGED <<lease, stopped, heard, ignored, over, answer, notified>>
    BY <1>0, <1>1 DEF AcquireWebLock, Goto, nostrVars
  <2>2. \A u \in Tabs : u # t => (Mine(u) => Mine(u)')
    BY <1>b, <2>1 DEF Mine, Token
  <2>3. /\ \A u \in Tabs \cap heard' : pc'[u] = "probing" /\ pc[u] = "probing" /\ u \in heard
        /\ \A u \in Tabs : answer'[u] = None \/ (answer'[u] = answer[u] /\ pc[u] = "asking" /\ pc'[u] = "asking")
    BY <1>0, <2>1
  <2>4. \A u \in Tabs : \/ pc'[u] \notin {"rereading", "asking"}
                        \/ u # t /\ pc'[u] = pc[u] /\ Active(u)
    BY <2>1 DEF Active
  <2>5. QED
    BY <1>0, <1>b, <2>1, <2>2, <2>3, <2>4 DEF ProbeMoves
<1>2. ASSUME NEW t \in Tabs, NEW label \in Places \ {"rereading", "asking"}, Goto(t, label), EndProbes(t),
             Active(t), UNCHANGED <<starts, notified>>
      PROVE  ProbeMoves
  <2>1. pc'[t] = label /\ \A u \in Tabs : u # t => pc'[u] = pc[u]
    BY <1>2, TabMoves
  <2>2. QED
    BY <1>2, <1>b, <2>1, EndMoves
<1>3. ASSUME NEW t \in Tabs, Refuse(t), Active(t), UNCHANGED <<starts, notified>>
      PROVE  ProbeMoves
  BY <1>2, <1>3 DEF Refuse, Places
<1>4. ASSUME NEW t \in Tabs, ProbeBroadcast(t)
      PROVE  ProbeMoves
  BY <1>2, <1>3, <1>4 DEF ProbeBroadcast, Awake, Active, nostrVars, Places, Synchronous
<1>5. ASSUME NEW t \in Tabs, AcquireStorageLease(t)
      PROVE  ProbeMoves
  <2>1. /\ pc[t] = "writing" /\ WriteLease(t) /\ Goto(t, "rereading")
        /\ UNCHANGED <<starts, stopped, heard, ignored, over, answer, notified>>
    BY <1>5 DEF AcquireStorageLease, Awake, nostrVars, probeVars
  <2>2. pc'[t] = "rereading" /\ \A u \in Tabs : u # t => pc'[u] = pc[u]
    BY <2>1, TabMoves
  <2>3. Mine(t)'
    <3>1. lease'[browserOf[t]] = [token |-> Token(t), expiresAt |-> clock + LeaseDuration]
      BY <1>0, <2>1 DEF WriteLease
    <3>2. lease'[browserOf[t]].token = Token(t)
      BY <3>1
    <3>3. lease'[browserOf[t]] # None
      <4>1. clock + LeaseDuration \in Nat /\ Token(t) \in Tabs \X Nat
        BY <1>0, InstanceAssumption DEF RefusalInv, GuardInv, Shapes, Token
      <4>2. lease'[browserOf[t]] \in [token : Tabs \X Nat, expiresAt : Nat]
        BY <3>1, <4>1
      <4>3. QED
        BY <4>2, InstanceAssumption
    <3>4. QED
      BY <1>b, <2>1, <3>2, <3>3 DEF Mine, Token
  <2>4. /\ \A u \in Tabs \cap heard' : pc'[u] = "probing" /\ pc[u] = "probing" /\ u \in heard
        /\ \A u \in Tabs : answer'[u] = None \/ (answer'[u] = answer[u] /\ pc[u] = "asking" /\ pc'[u] = "asking")
    BY <1>0, <2>1, <2>2
  <2>5. \A u \in Tabs : \/ u = t
                        \/ \E v \in Tabs \ {u} : Active(v)
    BY <2>1 DEF Active
  <2>6. \A u \in Tabs : pc'[u] \in {"rereading", "asking"} => Active(u)
    BY <2>1, <2>2 DEF Active
  <2>7. QED
    BY <1>0, <1>b, <2>1, <2>2, <2>3, <2>4, <2>5, <2>6 DEF ProbeMoves
<1>6. ASSUME NEW t \in Tabs, RereadLease(t)
      PROVE  ProbeMoves
  <2>1. pc[t] = "rereading" /\ UNCHANGED <<starts, notified>>
    BY <1>6 DEF RereadLease, Awake, nostrVars
  <2>2. CASE Refuse(t)
    BY <1>3, <2>1, <2>2 DEF Active
  <2>3. CASE ~Refuse(t)
    <3>1. /\ Goto(t, "asking")
          /\ ignored' = [ignored EXCEPT ![t] = stopped[browserOf[t]]]
          /\ over' = [over EXCEPT ![t] = notified]
          /\ UNCHANGED <<lease, stopped, heard, answer>>
      BY <1>6, <2>3 DEF RereadLease
    <3>2. pc'[t] = "asking" /\ \A u \in Tabs : u # t => pc'[u] = pc[u]
      BY <2>1, <3>1, TabMoves
    <3>3. /\ ignored'[t] = stopped[browserOf[t]] /\ over'[t] = notified
          /\ \A u \in Tabs : u # t => over'[u] = over[u]
          /\ over' = [u \in Tabs |-> over'[u]]
          /\ ignored' = [u \in Tabs |-> ignored'[u]]
      BY <1>0, <3>1
    <3>4. /\ \A u \in Tabs \cap heard' : pc'[u] = "probing" /\ pc[u] = "probing" /\ u \in heard
          /\ \A u \in Tabs : \/ answer'[u] = None
                             \/ u # t /\ answer'[u] = answer[u] /\ pc[u] = "asking" /\ pc'[u] = "asking"
      BY <1>0, <2>1, <3>1, <3>2
    <3>5. \A u \in Tabs : \/ u = t
                          \/ \E v \in Tabs \ {u} : Active(v)
      BY <2>1 DEF Active
    <3>6. \A u \in Tabs : pc'[u] \in {"rereading", "asking"} => Active(u)
      BY <2>1, <3>2 DEF Active
    <3>7. QED
      BY <1>0, <1>b, <2>1, <3>1, <3>2, <3>3, <3>4, <3>5, <3>6 DEF ProbeMoves
  <2>4. QED
    BY <2>2, <2>3
<1>7. ASSUME NEW t \in Tabs, ProbeNostr(t)
      PROVE  ProbeMoves
  BY <1>2, <1>3, <1>7 DEF ProbeNostr, Awake, Active, Places
<1>8. ASSUME NEW t \in Tabs, Release(t) \/ Crash(t)
      PROVE  ProbeMoves
  BY <1>2, <1>8 DEF Release, Crash, Awake, Active, Places
<1>9. ASSUME NEW t \in Tabs, AnswerProbe(t)
      PROVE  ProbeMoves
  <2>1. /\ pc[t] = "running"
        /\ heard' = heard \union {u \in Tabs : browserOf[u] = browserOf[t] /\ pc[u] = "probing"}
        /\ UNCHANGED <<pc, starts, lease, stopped, notified, ignored, answer, over>>
    BY <1>9 DEF AnswerProbe, Awake, pageVars, browserVars, nostrVars
  <2>2. \A u \in Tabs : pc[u] = "probing" => \E v \in Tabs \ {u} : Active(v)
    BY <2>1 DEF Active
  <2>3. \A u \in Tabs : Mine(u) => Mine(u)'
    BY <1>b, <2>1 DEF Mine, Token
  <2>4. QED
    BY <1>0, <1>b, <2>1, <2>2, <2>3 DEF ProbeMoves, Active
<1>10. ASSUME NEW t \in Tabs, RelaysAnswer(t)
       PROVE  ProbeMoves
  <2>1. /\ pc[t] = "asking" /\ relay # None /\ answer' = [answer EXCEPT ![t] = relay]
        /\ UNCHANGED <<pc, starts, lease, stopped, notified, heard, ignored, over>>
    BY <1>10 DEF RelaysAnswer, pageVars, browserVars, nostrVars
  <2>2. /\ answer' = [u \in Tabs |-> answer'[u]]
        /\ \A u \in Tabs : answer'[u] = IF u = t THEN relay ELSE answer[u]
    BY <1>0, <2>1
  <2>3. \A u \in Tabs : Mine(u) => Mine(u)'
    BY <1>b, <2>1 DEF Mine, Token
  <2>4. QED
    BY <1>0, <1>b, <2>1, <2>2, <2>3 DEF ProbeMoves, Active
<1>11. ASSUME NEW t \in Tabs, Heartbeat(t) \/ Freeze(t)
       PROVE  ProbeMoves
  BY <1>11, <1>b, StillMoves DEF Heartbeat, Freeze, pageVars, browserVars, nostrVars, probeVars
<1>12. ASSUME NEW t \in Tabs, Thaw(t)
       PROVE  ProbeMoves
  <2>1. UNCHANGED <<pc, starts, stopped, notified, heard, ignored, over, answer>>
    BY <1>12 DEF Thaw, nostrVars, probeVars
  <2>2. \A u \in Tabs : pc[u] = "rereading" =>
          \/ \E v \in Tabs \ {u} : Active(v)
          \/ lease'[browserOf[u]] = lease[browserOf[u]]
    BY <1>12 DEF Thaw, Active
  <2>3. QED
    BY <1>b, <2>1, <2>2, StillMoves
<1>13. ASSUME NEW e \in sent, Delivered(e)
       PROVE  ProbeMoves
  BY <1>13, <1>b, StillMoves DEF Delivered, pageVars, browserVars, probeVars
<1>14. CASE Tick
  BY <1>14, <1>b, StillMoves DEF Tick, pageVars, nostrVars, probeVars, Synchronous
<1>15. QED
  BY <1>1, <1>4, <1>5, <1>6, <1>7, <1>8, <1>9, <1>10, <1>11, <1>12, <1>13, <1>14 DEF Next, Step

LEMMA RefusalInvStep == RefusalInv /\ [Next]_vars => RefusalInv'
<1> SUFFICES ASSUME RefusalInv, [Next]_vars
             PROVE  RefusalInv'
  OBVIOUS
<1>1. GuardInv'
  BY GuardStep DEF RefusalInv
<1>2. CASE Next
  <2>1. Moves /\ ProbeMoves
    BY <1>2, StepMoves, ProbeStepMoves
  <2>2. met' = Met' \union {t \in met : Active(t)'}
    BY <1>2 DEF Next
  <2>3. QED
    BY <1>1, <2>1, <2>2, ProbesKeep, MovesKeep
<1>3. CASE UNCHANGED vars
  <2>1. /\ UNCHANGED <<browserOf, starts, pc, lock, lease, stopped, crashed, sent, relay, answer>>
        /\ UNCHANGED <<heard, ignored, over, notified, met>>
    BY <1>3 DEF vars, settingVars, pageVars, browserVars, nostrVars, probeVars
  <2>2. Moves
    BY <2>1, OnwardMoves, SameReported
  <2>3. ProbeMoves
    BY <2>1, StillMoves
  <2>4. QED
    BY <1>1, <2>1, <2>2, <2>3, ProbesKeep, MovesKeep
<1>4. QED
  BY <1>2, <1>3

LEMMA RefusalInvInit == Init => RefusalInv
<1> SUFFICES ASSUME Init PROVE RefusalInv
  OBVIOUS
<1>1. Reported = {}
  BY DEF Init, Reported, Known
<1>2. ProbeInv
  BY <1>1 DEF Init, ProbeInv, MeetingsAreKnown, HeardIsMet, AloneIsUndisturbed, AnswersAreHonest, Active
<1>3. QED
  BY <1>1, <1>2, GuardInit DEF Init, RefusalInv, LockIsLive, LeasesAreAccounted, HeartbeatsAreAccounted,
                         CrashesArePast

\* acquire throws CordnAlreadyRunningError only if another tab is up or was since the start
\* began, or an instance has left its lease or heartbeat without a proper stop: however runs,
\* stops and crashes have followed each other, and however late an answer is acted on, no tab
\* is kept out by an instance that had stopped before it started.
THEOREM RefusalsAreJustified == Spec => RefusalIsJustified
<1>1. ASSUME RefusalInv, Next, NEW t \in Tabs, Refused(t), t \notin met,
             \A u \in Tabs \ {t} : ~Active(u)
      PROVE  LeftOver(t)
  <2>0. /\ browserOf \in [Tabs -> Browsers] /\ starts \in [Tabs -> Nat] /\ pc \in [Tabs -> Places]
        /\ lock \in [Browsers -> Tabs \union {None}] /\ Reported \subseteq Events
        /\ browserOf[t] \in Browsers
    BY <1>1 DEF RefusalInv, GuardInv, Shapes, ProbeInv
  <2>1. \A u \in Tabs : pc[u] # "idle" => u = t
    BY <1>1 DEF Active
  <2>2. ASSUME AcquireWebLock(t)
        PROVE  FALSE
    <3>1. pc[t] = "idle" /\ pc'[t] = "idle"
      BY <1>1, <2>2 DEF AcquireWebLock, Refused
    <3>2. ~LockIsFree(t)
      BY <2>0, <2>2, <3>1 DEF AcquireWebLock, Goto
    <3>3. lock[browserOf[t]] # None
      BY <3>2 DEF LockIsFree
    <3>4. pc[lock[browserOf[t]]] # "idle" /\ lock[browserOf[t]] \in Tabs
      BY <1>1, <2>0, <3>3 DEF RefusalInv, LockIsLive
    <3>5. QED
      BY <2>1, <3>1, <3>4
  <2>3. ASSUME ProbeBroadcast(t)
        PROVE  LeftOver(t)
    <3>1. pc[t] = "probing"
      BY <2>3 DEF ProbeBroadcast, Awake
    <3>2. t \notin heard
      BY <1>1 DEF RefusalInv, ProbeInv, HeardIsMet
    <3>3. LeaseInForce(t)
      <4>1. CASE Goto(t, "writing")
        BY <1>1, <2>0, <4>1 DEF Goto, Refused
      <4>2. QED
        BY <2>3, <3>2, <4>1 DEF ProbeBroadcast
    <3>4. lease[browserOf[t]] # None /\ lease[browserOf[t]].token # Token(t)
      BY <3>3 DEF LeaseInForce
    <3>5. lease[browserOf[t]].token \in crashed
      BY <1>1, <2>0, <2>1, <3>4 DEF RefusalInv, LeasesAreAccounted, Holding
    <3>6. QED
      BY <3>3, <3>5 DEF LeftOver
  <2>4. ASSUME ProbeNostr(t)
        PROVE  LeftOver(t)
    <3>1. pc[t] = "asking"
      BY <2>4 DEF ProbeNostr, Awake
    <3>2. SeesRunning(t)
      <4>1. CASE Goto(t, "running")
        BY <1>1, <2>0, <4>1 DEF Goto, Refused
      <4>2. QED
        BY <2>4, <4>1 DEF ProbeNostr
    <3>3. answer[t] # None /\ answer[t].status = "running" /\ answer[t].token \notin ignored[t]
      BY <3>2 DEF SeesRunning
    <3>4. answer[t] \in Reported /\ answer[t].token[1] \in Tabs
      BY <2>0, <3>3 DEF Reported, Events
    <3>5. \/ answer[t].token \in crashed
          \/ answer[t].token \in stopped[browserOf[answer[t].token[1]]]
          \/ pc[answer[t].token[1]] = "running"
      BY <1>1, <3>3, <3>4 DEF RefusalInv, HeartbeatsAreAccounted
    <3>6. pc[answer[t].token[1]] # "running"
      BY <2>1, <3>1, <3>4
    <3>7. stopped[browserOf[t]] \subseteq ignored[t] /\ answer[t].token \notin over[t]
      BY <1>1, <3>1, <3>3 DEF RefusalInv, ProbeInv, AloneIsUndisturbed, AnswersAreHonest
    <3>8. QED
      BY <3>2, <3>3, <3>5, <3>6, <3>7 DEF LeftOver
  <2>r. ASSUME RereadLease(t)
        PROVE  FALSE
    <3>1. pc[t] = "rereading"
      BY <2>r DEF RereadLease, Awake
    <3>2. Mine(t)
      BY <1>1, <3>1 DEF RefusalInv, ProbeInv, AloneIsUndisturbed
    <3>3. pc'[t] = "asking"
      BY <2>0, <2>r, <3>2 DEF RereadLease, Goto
    <3>4. QED
      BY <1>1, <3>3 DEF Refused
  \* The other steps refuse nobody.
  <2>5. ASSUME NEW u \in Tabs, u # t,
               \/ AcquireWebLock(u) \/ ProbeBroadcast(u) \/ AcquireStorageLease(u) \/ RereadLease(u)
               \/ ProbeNostr(u) \/ Heartbeat(u) \/ Release(u) \/ Crash(u)
        PROVE  FALSE
    <3>1. pc'[t] = pc[t] /\ starts'[t] = starts[t]
      <4>1. CASE AcquireWebLock(u)
        BY <2>0, <2>5, <4>1 DEF AcquireWebLock, Goto
      <4>2. CASE ProbeBroadcast(u) \/ AcquireStorageLease(u) \/ RereadLease(u) \/ ProbeNostr(u)
        BY <2>0, <2>5, <4>2 DEF ProbeBroadcast, AcquireStorageLease, RereadLease, ProbeNostr, Refuse,
                                Goto
      <4>3. CASE Heartbeat(u) \/ Release(u) \/ Crash(u)
        BY <2>0, <2>5, <4>3 DEF Heartbeat, Release, Crash, Goto, pageVars
      <4>4. QED
        BY <2>5, <4>1, <4>2, <4>3
    <3>2. QED
      BY <1>1, <2>0, <3>1 DEF Refused
  <2>6. ASSUME AcquireStorageLease(t) \/ Heartbeat(t) \/ Release(t)
        PROVE  FALSE
    <3>1. starts' = starts /\ (pc[t] = "running" \/ pc'[t] = "rereading")
      BY <2>0, <2>6 DEF AcquireStorageLease, Heartbeat, Release, Awake, Goto, pageVars
    <3>2. QED
      BY <1>1, <2>0, <3>1 DEF Refused
  <2>7. ASSUME Crash(t)
        PROVE  FALSE
    <3>1. pc[t] # "idle" /\ starts' = starts /\ Token(t) \in crashed'
      BY <2>7 DEF Crash
    <3>2. Token(t) \in crashed
      BY <1>1, <2>0, <3>1 DEF Refused
    <3>3. Token(t)[1] = t /\ Token(t)[2] = starts[t]
      BY DEF Token
    <3>4. QED
      BY <1>1, <3>1, <3>2, <3>3 DEF RefusalInv, CrashesArePast
  <2>8. ASSUME \/ \E u \in Tabs : Freeze(u) \/ Thaw(u) \/ AnswerProbe(u) \/ RelaysAnswer(u)
               \/ \E e \in sent : Delivered(e)
               \/ Tick
        PROVE  FALSE
    <3>1. pc' = pc /\ starts' = starts /\ crashed' = crashed
      BY <2>8 DEF Freeze, Thaw, AnswerProbe, RelaysAnswer, Delivered, Tick, pageVars
    <3>2. QED
      BY <1>1, <2>0, <3>1 DEF Refused
  <2>9. Step
    BY <1>1 DEF Next
  <2>10. CASE \E u \in Tabs : \/ AcquireWebLock(u) \/ ProbeBroadcast(u) \/ AcquireStorageLease(u)
                              \/ RereadLease(u) \/ ProbeNostr(u) \/ Heartbeat(u) \/ Release(u)
                              \/ Crash(u)
    BY <2>2, <2>3, <2>4, <2>5, <2>6, <2>7, <2>r, <2>10
  <2>11. QED
    BY <2>8, <2>9, <2>10 DEF Step
<1>2. RefusalInv /\ [Next]_vars =>
        [\A t \in Tabs :
           Refused(t) => LeftOver(t) \/ t \in met \/ \E u \in Tabs \ {t} : Active(u)]_vars
  BY <1>1
<1>3. QED
  BY <1>2, RefusalInvInit, RefusalInvStep, PTL DEF Spec, RefusalIsJustified

-----------------------------------------------------------------------------
(* SnapshotStorage. *)

\* What was written of the key's deletions is known to the instance.
MemoryRemembers == IsOpen => \A g \in Groups : <<identity, g>> \in written => g \in memory.deleted

\* Deletions without an instance are those of the key of the tab, and later keys
\* have deleted nothing.
OneKeyAtATime ==
  /\ \A d \in removing : d.key = identity
  /\ \A i \in Identities : i > identity => registry[i] = {}

\* Nothing is promised of a room that the next storage, or this one, leaves out.
DeletedIsNotKept ==
  \A s \in Stores :
    /\ \A g \in registry[identity] : acked[s][g] = 0
    /\ IsOpen => \A g \in memory.deleted : acked[s][g] = 0

AckedOnDisk == \A s \in Stores, g \in Groups : acked[s][g] <= snapshot[s][g]

\* What was acknowledged of a store is in the memory that is written over its snapshot.
MemoryKeeps ==
  IsOpen /\ session.store \in Stores =>
    \A g \in Groups : acked[session.store][g] <= memory.rooms[g]

\* The inductive invariant.
StorageInv ==
  /\ StorageTypeOK
  /\ MemoryRemembers
  /\ OneKeyAtATime
  /\ DeletedIsNotKept
  /\ AckedOnDisk
  /\ MemoryKeeps
  /\ DeletionSurvives

-----------------------------------------------------------------------------
(* What the storage loads and what a deletion leaves. *)

Memories == [deleted : SUBSET Groups, rooms : Rooms]

\* Rooms that are left out have no records; the others are as they were.
LEMMA WithoutRooms ==
  ASSUME MaxRecords \in Nat, NEW rooms \in Rooms, NEW D
  PROVE  /\ Without(rooms, D) \in Rooms
         /\ \A g \in Groups : Without(rooms, D)[g] = IF g \in D THEN 0 ELSE rooms[g]
<1>1. \A g \in Groups : (IF g \in D THEN 0 ELSE rooms[g]) \in 0..MaxRecords
  <2>1. 0 \in 0..MaxRecords
    OBVIOUS
  <2> QED BY <2>1 DEF Rooms
<1> QED BY <1>1 DEF Without, Rooms

LEMMA NoRoomsType == ASSUME MaxRecords \in Nat PROVE NoRooms \in Rooms
<1>1. 0 \in 0..MaxRecords
  OBVIOUS
<1> QED BY <1>1 DEF NoRooms, Rooms

\* Records are counted.
LEMMA RoomsAreNumbers ==
  ASSUME MaxRecords \in Nat, NEW rooms \in Rooms, NEW g \in Groups
  PROVE  rooms[g] \in Nat
BY DEF Rooms

\* A storage that is opened knows the registry of its key, and its rooms are those
\* of the snapshot that are not in it.
LEMMA LoadedMemory ==
  ASSUME MaxRecords \in Nat, StorageTypeOK, NEW key \in Identities, NEW store
  PROVE  /\ Load(key, store) \in Memories
         /\ Load(key, store).deleted = registry[key]
         /\ store \in Stores => \A g \in Groups \ registry[key] :
                                  Load(key, store).rooms[g] = snapshot[store][g]
<1> DEFINE base == IF store \in Stores THEN snapshot[store] ELSE NoRooms
<1>1. base \in Rooms
  BY NoRoomsType DEF StorageTypeOK
<1>2. Load(key, store) = [deleted |-> registry[key], rooms |-> Without(base, registry[key])]
  BY DEF Load, Restored
<1>3. registry[key] \in SUBSET Groups
  BY DEF StorageTypeOK
<1>5. store \in Stores => base = snapshot[store]
  OBVIOUS
<1> HIDE DEF base
<1>4. /\ Without(base, registry[key]) \in Rooms
      /\ \A g \in Groups \ registry[key] : Without(base, registry[key])[g] = base[g]
  BY <1>1, WithoutRooms
<1> QED BY <1>2, <1>3, <1>4, <1>5 DEF Memories

\* A deletion leaves the other rooms alone.
LEMMA DeletedMemory ==
  ASSUME MaxRecords \in Nat, NEW m \in Memories, NEW g \in Groups
  PROVE  /\ Deleted(m, g) \in Memories
         /\ Deleted(m, g).deleted = m.deleted \union {g}
         /\ \A h \in Groups \ {g} : Deleted(m, g).rooms[h] = m.rooms[h]
<1>1. m.rooms \in Rooms /\ m.deleted \in SUBSET Groups
  BY DEF Memories
<1>2. /\ Without(m.rooms, {g}) \in Rooms
      /\ \A h \in Groups \ {g} : Without(m.rooms, {g})[h] = m.rooms[h]
  BY <1>1, WithoutRooms
<1>3. m.deleted \union {g} \in SUBSET Groups
  BY <1>1
<1> QED BY <1>2, <1>3 DEF Deleted, Memories

-----------------------------------------------------------------------------
(* A change of the running instance. *)

\* A change that deletes no less than memory has, promises only what it writes,
\* and counts as written only what it has deleted, keeps the invariant.
LEMMA PersistInv ==
  ASSUME StorageInv, IsOpen, NEW m \in Memories, NEW ok \in BOOLEAN, Persist(m, ok),
         UNCHANGED <<keyVars, session, removing, clearing>>,
         memory.deleted \subseteq m.deleted,
         acked' \in [Stores -> Rooms],
         \A s \in Stores, g \in m.deleted : acked'[s][g] = 0,
         session.store \in Stores => \A g \in Groups : acked'[session.store][g] <= m.rooms[g],
         \A s \in Stores : (ok /\ s = session.store) \/ \A g \in Groups : acked'[s][g] <= acked[s][g],
         written' \subseteq Identities \X Groups,
         \A g \in Groups : <<identity, g>> \in written' => <<identity, g>> \in written \/ (ok /\ g \in m.deleted),
         \A d \in written' : d \in written \/ d[1] = identity,
         MaxRecords \in Nat
  PROVE  StorageInv'
<1> USE DEF StorageInv
<1>1. memory' = m
  BY DEF Persist
<1>2. IsOpen'
  BY DEF IsOpen
<1>3. registry' = registry \/ registry' = [registry EXCEPT ![identity] = m.deleted]
  BY DEF Persist, Saved, Unsaved, SaveDeletedGroups
<1>4. ok => registry' = [registry EXCEPT ![identity] = m.deleted]
  BY DEF Persist, Saved, SaveDeletedGroups
<1>5. snapshot' = IF ok /\ session.store \in Stores THEN [snapshot EXCEPT ![session.store] = m.rooms]
                   ELSE snapshot
  BY DEF Persist, Saved, Unsaved, WriteSnapshot
<1>6. /\ identity \in Identities /\ identity' = identity
      /\ session' = session /\ removing' = removing
      /\ registry \in [Identities -> SUBSET Groups]
      /\ m.deleted \in SUBSET Groups /\ m.rooms \in Rooms
      /\ acked \in [Stores -> Rooms]
      /\ snapshot \in [Stores -> Rooms]
  BY DEF StorageTypeOK, keyVars, Memories
<1>7. /\ registry' \in [Identities -> SUBSET Groups]
      /\ \A i \in Identities : i # identity => registry'[i] = registry[i]
      /\ registry'[identity] = registry[identity] \/ registry'[identity] = m.deleted
      /\ ok => registry'[identity] = m.deleted
  BY <1>3, <1>4, <1>6
<1>8. \A s \in Stores, g \in Groups :
        acked[s][g] \in Nat /\ acked'[s][g] \in Nat /\ snapshot[s][g] \in Nat
  BY <1>6, RoomsAreNumbers
<1>9. \A s \in Stores : snapshot'[s] = IF ok /\ s = session.store THEN m.rooms ELSE snapshot[s]
  BY <1>5, <1>6
<1>a. StorageTypeOK'
  <2>1. snapshot' \in [Stores -> Rooms]
    BY <1>5, <1>6
  <2>2. memory' \in [deleted : SUBSET Groups, rooms : Rooms]
    BY <1>1 DEF Memories
  <2> QED BY <1>7, <2>1, <2>2 DEF StorageTypeOK, keyVars, Rooms, Identities
<1>b. MemoryRemembers'
  BY <1>1, <1>2, <1>6 DEF MemoryRemembers
<1>c. OneKeyAtATime'
  <2>1. \A i \in Identities : i > identity => i # identity
    BY <1>6 DEF Identities
  <2> QED BY <1>6, <1>7, <2>1 DEF OneKeyAtATime
<1>d. DeletedIsNotKept'
  <2>1. ASSUME NEW s \in Stores, NEW g \in registry'[identity]
        PROVE  acked'[s][g] = 0
    <3>1. CASE registry'[identity] = m.deleted
      BY <2>1, <3>1
    <3>2. CASE ~ok /\ registry'[identity] = registry[identity]
      <4>1. acked[s][g] = 0 /\ g \in Groups
        BY <1>6, <2>1, <3>2 DEF DeletedIsNotKept
      <4>2. acked'[s][g] <= acked[s][g] /\ acked'[s][g] \in Nat
        BY <1>8, <3>2, <4>1
      <4> QED BY <4>1, <4>2
    <3> QED BY <3>1, <3>2, <1>7
  <2> QED BY <2>1, <1>1, <1>6 DEF DeletedIsNotKept
<1>e. MemoryKeeps'
  BY <1>1, <1>6 DEF MemoryKeeps
<1>f. DeletionSurvives'
  <2> SUFFICES ASSUME NEW d \in written'
               PROVE  d[2] \in registry'[d[1]]
    BY DEF DeletionSurvives
  <2>0. d[1] \in Identities /\ d[2] \in Groups /\ d = <<d[1], d[2]>>
    OBVIOUS
  <2>1. CASE d[1] # identity
    BY <2>0, <2>1, <1>7 DEF DeletionSurvives
  <2>2. CASE d[1] = identity /\ d \in written
    <3>1. d[2] \in registry[identity] /\ d[2] \in memory.deleted
      BY <2>0, <2>2 DEF DeletionSurvives, MemoryRemembers
    <3> QED BY <2>2, <3>1, <1>7
  <2>3. CASE d[1] = identity /\ d \notin written
    <3>1. ok /\ d[2] \in m.deleted
      BY <2>0, <2>3
    <3> QED BY <2>3, <3>1, <1>7
  <2> QED BY <2>1, <2>2, <2>3
<1>g. AckedOnDisk'
  <2> SUFFICES ASSUME NEW s \in Stores, NEW g \in Groups
               PROVE  acked'[s][g] <= snapshot'[s][g]
    BY DEF AckedOnDisk
  <2>1. CASE ok /\ s = session.store
    BY <2>1, <1>9
  <2>2. CASE ~(ok /\ s = session.store)
    <3>1. acked'[s][g] <= acked[s][g] /\ acked[s][g] <= snapshot[s][g]
      BY <2>2 DEF AckedOnDisk
    <3> QED BY <2>2, <3>1, <1>8, <1>9
  <2> QED BY <2>1, <2>2
<1> QED BY <1>a, <1>b, <1>c, <1>d, <1>e, <1>f, <1>g

LEMMA PostInv ==
  ASSUME StorageInv, NEW g \in Groups, PostGroupMessage(g), MaxRecords \in Nat
  PROVE  StorageInv'
<1> DEFINE m == [memory EXCEPT !.rooms[g] = @ + 1]
<1>1. /\ memory \in Memories /\ memory.rooms \in Rooms
      /\ IsOpen /\ g \notin memory.deleted
      /\ acked \in [Stores -> Rooms] /\ written \subseteq Identities \X Groups
  BY DEF StorageInv, StorageTypeOK, Memories, PostGroupMessage, Available, IsOpen
<1>2. memory.rooms[g] + 1 \in 0..MaxRecords
  BY <1>1 DEF PostGroupMessage, Rooms
<1>3. /\ m \in Memories
      /\ m.deleted = memory.deleted
      /\ m.rooms = [memory.rooms EXCEPT ![g] = @ + 1]
  BY <1>1, <1>2 DEF Memories, Rooms
<1>4. \A h \in Groups : m.rooms[h] = IF h = g THEN memory.rooms[g] + 1 ELSE memory.rooms[h]
  BY <1>1, <1>3 DEF Rooms
<1>7. UNCHANGED <<keyVars, session, removing, clearing>> /\ written' = written
  BY DEF PostGroupMessage
<1>9. PICK ok \in BOOLEAN :
        /\ Persist(m, ok)
        /\ acked' = IF ok /\ session.store \in Stores
                    THEN [acked EXCEPT ![session.store][g] = m.rooms[g]] ELSE acked
  BY DEF PostGroupMessage
<1> HIDE DEF m
<1>5. \A h \in Groups : /\ memory.rooms[h] \in Nat /\ m.rooms[h] \in Nat
                        /\ memory.rooms[h] <= m.rooms[h]
  <2> SUFFICES ASSUME NEW h \in Groups
               PROVE  /\ memory.rooms[h] \in Nat /\ m.rooms[h] \in Nat
                      /\ memory.rooms[h] <= m.rooms[h]
    OBVIOUS
  <2>1. memory.rooms[h] \in Nat /\ m.rooms[h] \in Nat
    BY <1>1, <1>3, RoomsAreNumbers DEF Memories
  <2>2. CASE h = g
    BY <1>4, <2>1, <2>2
  <2>3. CASE h # g
    BY <1>4, <2>1, <2>3
  <2> QED BY <2>1, <2>2, <2>3
<1>6. \A s \in Stores, h \in Groups :
        acked'[s][h] = IF ok /\ s = session.store /\ h = g THEN m.rooms[g] ELSE acked[s][h]
  BY <1>1, <1>9 DEF Rooms
<1>8. \A s \in Stores, h \in Groups : acked[s][h] \in Nat
  BY <1>1, RoomsAreNumbers
<1>10. acked' \in [Stores -> Rooms]
  <2>1. CASE ok /\ session.store \in Stores
    <3>1. m.rooms[g] \in 0..MaxRecords
      BY <1>2, <1>4
    <3>2. [acked[session.store] EXCEPT ![g] = m.rooms[g]] \in Rooms
      BY <1>1, <2>1, <3>1 DEF Rooms
    <3> QED BY <1>1, <1>9, <2>1, <3>2
  <2>2. CASE ~(ok /\ session.store \in Stores)
    BY <1>1, <1>9, <2>2
  <2> QED BY <2>1, <2>2
<1>11. \A s \in Stores, h \in m.deleted : acked'[s][h] = 0
  BY <1>1, <1>3, <1>6 DEF StorageInv, DeletedIsNotKept, Memories
<1>12. session.store \in Stores => \A h \in Groups : acked'[session.store][h] <= m.rooms[h]
  <2> SUFFICES ASSUME session.store \in Stores, NEW h \in Groups
               PROVE  acked'[session.store][h] <= m.rooms[h]
    OBVIOUS
  <2>1. acked[session.store][h] <= memory.rooms[h]
    BY <1>1 DEF StorageInv, MemoryKeeps
  <2>2. acked'[session.store][h] = m.rooms[h] \/ acked'[session.store][h] = acked[session.store][h]
    BY <1>6
  <2> QED BY <1>5, <1>8, <2>1, <2>2
<1>13. \A s \in Stores : (ok /\ s = session.store) \/ \A h \in Groups : acked'[s][h] <= acked[s][h]
  BY <1>6, <1>8
<1> QED BY <1>1, <1>3, <1>7, <1>9, <1>10, <1>11, <1>12, <1>13, PersistInv

LEMMA StoreOtherInv ==
  ASSUME StorageInv, StoreOther, MaxRecords \in Nat
  PROVE  StorageInv'
<1>1. /\ memory \in Memories /\ IsOpen
      /\ acked \in [Stores -> Rooms] /\ written \subseteq Identities \X Groups
  BY DEF StorageInv, StorageTypeOK, Memories, StoreOther, IsOpen
<1>2. /\ UNCHANGED <<keyVars, session, removing, clearing>>
      /\ written' = written /\ acked' = acked
  BY DEF StoreOther, historyVars
<1>3. session.store \in Stores => \A h \in Groups : acked[session.store][h] <= memory.rooms[h]
  BY <1>1 DEF StorageInv, MemoryKeeps
<1>4. \A s \in Stores, h \in memory.deleted : acked[s][h] = 0
  BY <1>1 DEF StorageInv, DeletedIsNotKept
<1>5. \A s \in Stores, h \in Groups : acked[s][h] <= acked[s][h]
  BY <1>1, RoomsAreNumbers
<1>6. PICK ok \in BOOLEAN : Persist(memory, ok)
  BY DEF StoreOther
<1> QED BY <1>1, <1>2, <1>3, <1>4, <1>5, <1>6, PersistInv

\* What was promised of a room is withdrawn.
LEMMA ForgetRooms ==
  ASSUME MaxRecords \in Nat, acked \in [Stores -> Rooms], NEW g \in Groups, Forget(g)
  PROVE  /\ acked' \in [Stores -> Rooms]
         /\ \A s \in Stores, h \in Groups : acked'[s][h] = IF h = g THEN 0 ELSE acked[s][h]
<1>1. 0 \in 0..MaxRecords
  OBVIOUS
<1>2. \A s \in Stores : [acked[s] EXCEPT ![g] = 0] \in Rooms
  BY <1>1 DEF Rooms
<1> QED BY <1>2 DEF Forget, Rooms

LEMMA DeleteGroupInv ==
  ASSUME StorageInv, NEW g \in Groups, DeleteGroup(g), MaxRecords \in Nat
  PROVE  StorageInv'
<1>1. /\ memory \in Memories /\ memory.rooms \in Rooms /\ IsOpen
      /\ identity \in Identities
      /\ acked \in [Stores -> Rooms] /\ written \subseteq Identities \X Groups
  BY DEF StorageInv, StorageTypeOK, Memories, DeleteGroup, IsOpen
<1>2. UNCHANGED <<keyVars, session, removing, clearing>>
  BY DEF DeleteGroup
<1>3. /\ acked' \in [Stores -> Rooms]
      /\ \A s \in Stores, h \in Groups : acked'[s][h] = IF h = g THEN 0 ELSE acked[s][h]
  BY <1>1, ForgetRooms DEF DeleteGroup
<1>4. \A s \in Stores, h \in Groups :
        acked'[s][h] \in Nat /\ acked[s][h] \in Nat /\ acked'[s][h] <= acked[s][h]
  <2>1. \A s \in Stores, h \in Groups : acked[s][h] \in Nat
    BY <1>1, RoomsAreNumbers
  <2> QED BY <1>3, <2>1
<1>5. CASE g \in memory.deleted
  <2>1. UNCHANGED <<diskVars, memory, written>>
    BY <1>5 DEF DeleteGroup
  <2>2. \A s \in Stores : acked'[s] = acked[s]
    <3> SUFFICES ASSUME NEW s \in Stores
                 PROVE  acked'[s] = acked[s]
      OBVIOUS
    <3>1. \A h \in Groups : acked'[s][h] = acked[s][h]
      BY <1>1, <1>3, <1>5 DEF StorageInv, DeletedIsNotKept
    <3> QED BY <1>1, <1>3, <3>1 DEF Rooms
  <2>3. acked' = acked
    BY <1>1, <1>3, <2>2
  <2> QED BY <1>2, <2>1, <2>3 DEF StorageInv, StorageTypeOK, MemoryRemembers, OneKeyAtATime, DeletedIsNotKept,
                MemoryKeeps, DeletionSurvives, AckedOnDisk, IsOpen, keyVars, diskVars
<1>6. CASE g \notin memory.deleted
  <2> DEFINE m == Deleted(memory, g)
  <2>1. /\ m \in Memories
        /\ m.deleted = memory.deleted \union {g}
        /\ \A h \in Groups \ {g} : m.rooms[h] = memory.rooms[h]
    BY <1>1, DeletedMemory
  <2>2. PICK ok \in BOOLEAN :
          /\ Persist(m, ok)
          /\ written' = IF ok THEN written \union {<<identity, g>>} ELSE written
    BY <1>6 DEF DeleteGroup
  <2> HIDE DEF m
  <2>3. \A s \in Stores, h \in m.deleted : acked'[s][h] = 0
    BY <1>1, <1>3, <2>1 DEF StorageInv, DeletedIsNotKept, Memories
  <2>4. session.store \in Stores => \A h \in Groups : acked'[session.store][h] <= m.rooms[h]
    <3> SUFFICES ASSUME session.store \in Stores, NEW h \in Groups
                 PROVE  acked'[session.store][h] <= m.rooms[h]
      OBVIOUS
    <3>1. acked[session.store][h] <= memory.rooms[h]
      BY <1>1 DEF StorageInv, MemoryKeeps
    <3>2. m.rooms[h] \in Nat
      BY <2>1, RoomsAreNumbers DEF Memories
    <3>3. CASE h = g
      BY <1>3, <3>2, <3>3
    <3>4. CASE h # g
      BY <1>3, <2>1, <3>1, <3>4
    <3> QED BY <3>3, <3>4
  <2>5. /\ written' \subseteq Identities \X Groups
        /\ \A h \in Groups : <<identity, h>> \in written'
                               => <<identity, h>> \in written \/ (ok /\ h \in m.deleted)
        /\ \A d \in written' : d \in written \/ d[1] = identity
    BY <1>1, <2>1, <2>2
  <2> QED BY <1>1, <1>2, <1>3, <1>4, <2>1, <2>2, <2>3, <2>4, <2>5, PersistInv
<1> QED BY <1>5, <1>6

-----------------------------------------------------------------------------
(* Deletions without an instance, and the rest. *)

LEMMA RoomRemovedInv ==
  ASSUME StorageInv, NEW d \in removing, RoomRemoved(d), MaxRecords \in Nat
  PROVE  StorageInv'
<1> DEFINE loaded == Load(d.key, d.store)
           m == Deleted(loaded, d.group)
<1>1. /\ d.key = identity /\ identity \in Identities
      /\ d.group \in Groups
      /\ registry \in [Identities -> SUBSET Groups] /\ snapshot \in [Stores -> Rooms]
      /\ memory \in Memories
      /\ acked \in [Stores -> Rooms] /\ written \subseteq Identities \X Groups
  BY DEF StorageInv, StorageTypeOK, OneKeyAtATime, Memories
<1>2. /\ loaded \in Memories
      /\ loaded.deleted = registry[identity]
      /\ d.store \in Stores => \A g \in Groups \ registry[identity] :
                                loaded.rooms[g] = snapshot[d.store][g]
  BY <1>1, LoadedMemory DEF StorageInv
<1> HIDE DEF loaded
<1>3. /\ m \in Memories
      /\ m.deleted = registry[identity] \union {d.group}
      /\ \A g \in Groups \ {d.group} : m.rooms[g] = loaded.rooms[g]
  BY <1>1, <1>2, DeletedMemory
<1> HIDE DEF m
<1>4. /\ acked' \in [Stores -> Rooms]
      /\ \A s \in Stores, h \in Groups : acked'[s][h] = IF h = d.group THEN 0 ELSE acked[s][h]
  BY <1>1, ForgetRooms DEF RoomRemoved
<1>5. /\ UNCHANGED <<keyVars, session, memory, clearing>>
      /\ removing' = removing \ {d}
  BY DEF RoomRemoved
<1>6. /\ registry' = registry \/ registry' = [registry EXCEPT ![identity] = m.deleted]
      /\ \/ snapshot' = snapshot
         \/ d.store \in Stores /\ snapshot' = [snapshot EXCEPT ![d.store] = m.rooms]
      /\ \/ written' = written
         \/ /\ written' = written \union {<<identity, d.group>>}
            /\ ~IsOpen
            /\ d.group \in registry[identity] \/ registry' = [registry EXCEPT ![identity] = m.deleted]
  BY <1>1, <1>2 DEF RoomRemoved, Saved, Unsaved, SaveDeletedGroups, WriteSnapshot, diskVars, IsOpen,
                    loaded, m
<1>7. /\ registry' \in [Identities -> SUBSET Groups]
      /\ \A i \in Identities : i # identity => registry'[i] = registry[i]
      /\ registry[identity] \subseteq registry'[identity]
      /\ registry'[identity] \subseteq m.deleted
      /\ registry' = [registry EXCEPT ![identity] = m.deleted] => d.group \in registry'[identity]
  <2>1. m.deleted \in SUBSET Groups
    BY <1>3 DEF Memories
  <2> QED BY <1>1, <1>3, <1>6, <2>1
<1>8. IsOpen' <=> IsOpen
  BY <1>5 DEF IsOpen
<1>9. \A s \in Stores, h \in Groups :
        acked'[s][h] \in Nat /\ acked[s][h] \in Nat /\ acked'[s][h] <= acked[s][h]
  <2>1. \A s \in Stores, h \in Groups : acked[s][h] \in Nat
    BY <1>1, RoomsAreNumbers
  <2> QED BY <1>4, <2>1
<1>a. StorageTypeOK'
  <2>1. snapshot' \in [Stores -> Rooms]
    BY <1>1, <1>3, <1>6 DEF Memories
  <2>2. written' \subseteq Identities \X Groups
    BY <1>1, <1>6
  <2> QED BY <1>4, <1>5, <1>7, <2>1, <2>2 DEF StorageInv, StorageTypeOK, keyVars, Rooms, Identities
<1>b. MemoryRemembers'
  BY <1>5, <1>6, <1>8 DEF StorageInv, MemoryRemembers, keyVars
<1>c. OneKeyAtATime'
  <2>1. \A i \in Identities : i > identity => i # identity
    BY <1>1 DEF Identities
  <2> QED BY <1>5, <1>7, <2>1 DEF StorageInv, OneKeyAtATime, keyVars
<1>d. DeletedIsNotKept'
  <2>1. \A s \in Stores, g \in registry'[identity] : acked'[s][g] = 0
    BY <1>1, <1>3, <1>4, <1>7 DEF StorageInv, DeletedIsNotKept
  <2>2. IsOpen => \A s \in Stores, g \in memory.deleted : acked'[s][g] = 0
    BY <1>1, <1>4 DEF StorageInv, DeletedIsNotKept, Memories
  <2> QED BY <1>5, <1>8, <2>1, <2>2 DEF DeletedIsNotKept, keyVars
<1>e. MemoryKeeps'
  <2> SUFFICES ASSUME IsOpen, session.store \in Stores, NEW g \in Groups
               PROVE  acked'[session.store][g] <= memory.rooms[g]
    BY <1>5, <1>8 DEF MemoryKeeps
  <2>1. acked[session.store][g] <= memory.rooms[g]
    BY DEF StorageInv, MemoryKeeps
  <2>2. memory.rooms[g] \in Nat
    BY <1>1, RoomsAreNumbers DEF Memories
  <2> QED BY <1>9, <2>1, <2>2
<1>f. DeletionSurvives'
  <2> SUFFICES ASSUME NEW e \in written'
               PROVE  e[2] \in registry'[e[1]]
    BY DEF DeletionSurvives
  <2>1. CASE e \in written
    <3>1. e[1] \in Identities /\ e[2] \in registry[e[1]]
      BY <1>1, <2>1 DEF StorageInv, DeletionSurvives
    <3> QED BY <1>7, <3>1
  <2>2. CASE e \notin written
    <3>1. e[1] = identity /\ e[2] = d.group
      BY <1>6, <2>2
    <3>2. d.group \in registry[identity] \/ registry' = [registry EXCEPT ![identity] = m.deleted]
      BY <1>6, <2>2
    <3> QED BY <1>7, <3>1, <3>2
  <2> QED BY <2>1, <2>2
<1>g. AckedOnDisk'
  <2> SUFFICES ASSUME NEW s \in Stores, NEW g \in Groups
               PROVE  acked'[s][g] <= snapshot'[s][g]
    BY DEF AckedOnDisk
  <2>1. acked[s][g] <= snapshot[s][g] /\ snapshot[s][g] \in Nat
    BY <1>1, RoomsAreNumbers DEF StorageInv, AckedOnDisk
  <2>2. CASE snapshot'[s] = snapshot[s]
    BY <1>9, <2>1, <2>2
  <2>3. CASE snapshot'[s] # snapshot[s]
    <3>1. d.store = s /\ snapshot'[s] = m.rooms
      BY <1>1, <1>6, <2>3
    <3>2. m.rooms[g] \in Nat
      BY <1>3, RoomsAreNumbers DEF Memories
    <3>3. CASE g = d.group \/ g \in registry[identity]
      <4>1. acked'[s][g] = 0
        BY <1>4, <3>3 DEF StorageInv, DeletedIsNotKept
      <4> QED BY <3>1, <3>2, <4>1
    <3>4. CASE g # d.group /\ g \notin registry[identity]
      <4>1. m.rooms[g] = snapshot[s][g]
        BY <1>2, <1>3, <3>1, <3>4
      <4> QED BY <1>9, <2>1, <3>1, <4>1
    <3> QED BY <3>3, <3>4
  <2> QED BY <2>2, <2>3
<1> QED BY <1>a, <1>b, <1>c, <1>d, <1>e, <1>f, <1>g DEF StorageInv

LEMMA OpenStorageInv ==
  ASSUME StorageInv, OpenStorage, MaxRecords \in Nat
  PROVE  StorageInv'
<1> DEFINE loaded == Load(identity, session.store)
<1>1. /\ identity \in Identities
      /\ registry \in [Identities -> SUBSET Groups]
  BY DEF StorageInv, StorageTypeOK
<1>2. /\ loaded \in Memories
      /\ loaded.deleted = registry[identity]
      /\ session.store \in Stores => \A g \in Groups \ registry[identity] :
                                      loaded.rooms[g] = snapshot[session.store][g]
  BY <1>1, LoadedMemory DEF StorageInv
<1>3. /\ memory' = loaded
      /\ session' = [session EXCEPT !.phase = "connecting"]
      /\ UNCHANGED <<keyVars, diskVars, removing, clearing, historyVars>>
  BY DEF OpenStorage
<1> HIDE DEF loaded
<1>4. session'.store = session.store
  BY <1>3 DEF StorageInv, StorageTypeOK
<1>a. StorageTypeOK'
  BY <1>2, <1>3 DEF StorageInv, StorageTypeOK, keyVars, diskVars, historyVars, Memories, Rooms, Identities
<1>b. MemoryRemembers' /\ DeletedIsNotKept'
  BY <1>2, <1>3 DEF StorageInv, MemoryRemembers, DeletedIsNotKept, DeletionSurvives, keyVars, diskVars,
                    historyVars
<1>c. MemoryKeeps'
  <2> SUFFICES ASSUME session.store \in Stores, NEW g \in Groups
               PROVE  acked[session.store][g] <= loaded.rooms[g]
    BY <1>3, <1>4 DEF MemoryKeeps, historyVars
  <2>1. CASE g \in registry[identity]
    <3>1. acked[session.store][g] = 0 /\ loaded.rooms[g] \in Nat
      BY <1>2, <2>1, RoomsAreNumbers DEF StorageInv, DeletedIsNotKept, Memories
    <3> QED BY <3>1
  <2>2. CASE g \notin registry[identity]
    BY <1>2, <2>2 DEF StorageInv, AckedOnDisk
  <2> QED BY <2>1, <2>2
<1>d. OneKeyAtATime' /\ DeletionSurvives' /\ AckedOnDisk'
  BY <1>3 DEF StorageInv, OneKeyAtATime, DeletionSurvives, AckedOnDisk, keyVars, diskVars, historyVars
<1> QED BY <1>a, <1>b, <1>c, <1>d DEF StorageInv

\* Starting, and what concerns the key, the flag and the dialog only.
LEMMA SessionInv ==
  ASSUME StorageInv,
         \/ Start \/ Started \/ EnablePersistence
         \/ \E g \in Groups : RemoveRoom(g)
         \/ UNCHANGED storageVars
  PROVE  StorageInv'
<1>1. UNCHANGED <<hostedBy, identity, diskVars, memory, historyVars>>
  BY DEF Start, Started, EnablePersistence, RemoveRoom, storageVars, keyVars
<1>2. session'.store = session.store \/ ~IsOpen'
  BY DEF Start, Started, EnablePersistence, RemoveRoom, storageVars, IsOpen, StorageInv, StorageTypeOK
<1>3. IsOpen' => IsOpen
  BY DEF Start, Started, EnablePersistence, RemoveRoom, storageVars, IsOpen, StorageInv, StorageTypeOK
<1>4. \A d \in removing' : d \in removing \/ d.key = identity
  BY DEF Start, Started, EnablePersistence, RemoveRoom, storageVars, StorageInv, StorageTypeOK
<1>a. StorageTypeOK'
  <2>1. CASE Start \/ Started
    <3>1. session' \in [phase : {"closed", "opening", "connecting", "running"}, store : Stores \union {NoStore}]
      <4>1. /\ StoresIf(persistenceEnabled) \subseteq Stores \union {NoStore}
            /\ session \in [phase : {"closed", "opening", "connecting", "running"}, store : Stores \union {NoStore}]
        BY DEF StorageInv, StorageTypeOK, StoresIf
      <4> QED BY <2>1, <4>1 DEF Start, Started
    <3>2. UNCHANGED <<keyVars, diskVars, memory, removing, clearing, historyVars>>
      BY <2>1 DEF Start, Started
    <3> QED BY <3>1, <3>2 DEF StorageInv, StorageTypeOK, keyVars, diskVars, historyVars, Rooms, Identities
  <2>2. CASE EnablePersistence
    BY <2>2 DEF EnablePersistence, StorageInv, StorageTypeOK, diskVars, historyVars, Rooms, Identities
  <2>3. ASSUME NEW g \in Groups, RemoveRoom(g)
        PROVE  StorageTypeOK'
    <3>1. \A s \in StoresIf(persistenceEnabled) :
            [group |-> g, key |-> identity, store |-> s]
              \in [group : Groups, key : Identities, store : Stores \union {NoStore}]
      BY DEF StorageInv, StorageTypeOK, StoresIf
    <3>2. removing' \subseteq [group : Groups, key : Identities, store : Stores \union {NoStore}]
      BY <2>3, <3>1 DEF RemoveRoom, StorageInv, StorageTypeOK
    <3>3. UNCHANGED <<keyVars, diskVars, session, memory, clearing, historyVars>>
      BY <2>3 DEF RemoveRoom
    <3> QED BY <3>2, <3>3 DEF StorageInv, StorageTypeOK, keyVars, diskVars, historyVars, Rooms, Identities
  <2>4. CASE UNCHANGED storageVars
    BY <2>4 DEF StorageInv, StorageTypeOK, storageVars, keyVars, diskVars, historyVars, Rooms, Identities
  <2> QED BY <2>1, <2>2, <2>3, <2>4
<1>b. MemoryRemembers' /\ DeletedIsNotKept'
  BY <1>1, <1>3 DEF StorageInv, MemoryRemembers, DeletedIsNotKept, diskVars, historyVars
<1>c. MemoryKeeps'
  BY <1>1, <1>2, <1>3 DEF StorageInv, MemoryKeeps, historyVars
<1>d. OneKeyAtATime'
  BY <1>1, <1>4 DEF StorageInv, OneKeyAtATime, diskVars, Identities
<1>e. DeletionSurvives' /\ AckedOnDisk'
  BY <1>1 DEF StorageInv, DeletionSurvives, AckedOnDisk, diskVars, historyVars
<1> QED BY <1>a, <1>b, <1>c, <1>d, <1>e DEF StorageInv

\* With what is in a store goes what was promised of it.
LEMMA ClearedStores ==
  ASSUME StorageInv, NEW D, ClearStores(D), MaxRecords \in Nat
  PROVE  /\ snapshot' \in [Stores -> Rooms] /\ acked' \in [Stores -> Rooms] /\ AckedOnDisk'
         /\ \A s \in Stores, g \in Groups :
              acked'[s][g] \in Nat /\ acked[s][g] \in Nat /\ acked'[s][g] <= acked[s][g]
         /\ \A s \in Stores, g \in Groups : acked[s][g] = 0 => acked'[s][g] = 0
<1>1. /\ snapshot \in [Stores -> Rooms] /\ acked \in [Stores -> Rooms] /\ NoRooms \in Rooms
      /\ \A g \in Groups : NoRooms[g] = 0
  BY NoRoomsType DEF StorageInv, StorageTypeOK, NoRooms
<1>2. /\ snapshot' \in [Stores -> Rooms] /\ acked' \in [Stores -> Rooms]
      /\ \A s \in Stores : /\ snapshot'[s] = IF s \in D THEN NoRooms ELSE snapshot[s]
                           /\ acked'[s] = IF s \in D THEN NoRooms ELSE acked[s]
  BY <1>1 DEF ClearStores
<1>3. \A s \in Stores, g \in Groups : acked[s][g] \in Nat /\ acked[s][g] <= snapshot[s][g]
  BY <1>1, RoomsAreNumbers DEF StorageInv, AckedOnDisk
<1>4. \A s \in Stores, g \in Groups :
        /\ acked'[s][g] \in Nat /\ acked'[s][g] <= acked[s][g]
        /\ acked'[s][g] <= snapshot'[s][g]
        /\ acked[s][g] = 0 => acked'[s][g] = 0
  <2> SUFFICES ASSUME NEW s \in Stores, NEW g \in Groups
               PROVE  /\ acked'[s][g] \in Nat /\ acked'[s][g] <= acked[s][g]
                      /\ acked'[s][g] <= snapshot'[s][g]
                      /\ acked[s][g] = 0 => acked'[s][g] = 0
    OBVIOUS
  <2>1. CASE s \in D
    <3>1. acked'[s][g] = 0 /\ snapshot'[s][g] = 0
      BY <1>1, <1>2, <2>1
    <3> QED BY <1>3, <3>1
  <2>2. CASE s \notin D
    BY <1>2, <1>3, <2>2
  <2> QED BY <2>1, <2>2
<1> QED BY <1>2, <1>3, <1>4 DEF AckedOnDisk

LEMMA DisablePersistenceInv ==
  ASSUME StorageInv, DisablePersistence, MaxRecords \in Nat
  PROVE  StorageInv'
<1>1. /\ UNCHANGED <<hostedBy, identity, persistenceEnabled, registry, session, memory, removing, written>>
      /\ keySaved' = FALSE /\ clearing' = "disable"
  BY DEF DisablePersistence
<1>2. /\ snapshot' \in [Stores -> Rooms] /\ acked' \in [Stores -> Rooms] /\ AckedOnDisk'
      /\ \A s \in Stores, g \in Groups :
           acked'[s][g] \in Nat /\ acked[s][g] \in Nat /\ acked'[s][g] <= acked[s][g]
      /\ \A s \in Stores, g \in Groups : acked[s][g] = 0 => acked'[s][g] = 0
  BY ClearedStores DEF DisablePersistence
<1>3. /\ identity \in Identities /\ registry[identity] \subseteq Groups /\ memory.deleted \subseteq Groups
      /\ memory.rooms \in Rooms
  BY DEF StorageInv, StorageTypeOK
<1>a. StorageTypeOK'
  BY <1>1, <1>2 DEF StorageInv, StorageTypeOK, Rooms, Identities
<1>b. MemoryRemembers' /\ OneKeyAtATime' /\ DeletionSurvives'
  BY <1>1 DEF StorageInv, MemoryRemembers, OneKeyAtATime, DeletionSurvives, IsOpen, Identities
<1>c. DeletedIsNotKept'
  BY <1>1, <1>2, <1>3 DEF StorageInv, DeletedIsNotKept, IsOpen
<1>d. MemoryKeeps'
  <2> SUFFICES ASSUME IsOpen, session.store \in Stores, NEW g \in Groups
               PROVE  acked'[session.store][g] <= memory.rooms[g]
    BY <1>1 DEF MemoryKeeps, IsOpen
  <2>1. acked[session.store][g] <= memory.rooms[g] /\ memory.rooms[g] \in Nat
    BY <1>3, RoomsAreNumbers DEF StorageInv, MemoryKeeps
  <2> QED BY <1>2, <2>1
<1> QED BY <1>2, <1>a, <1>b, <1>c, <1>d DEF StorageInv

\* The instance goes, and with it the page or the key.
LEMMA ClosingInv ==
  ASSUME StorageInv, Close \/ Destroy \/ Reload, MaxRecords \in Nat, MaxIdentities \in Nat
  PROVE  StorageInv'
<1>1. /\ session' = Closed /\ memory' = Empty
      /\ UNCHANGED <<hostedBy, registry, written>>
      /\ UNCHANGED <<snapshot, acked>> \/ ClearStores({"fallback"})
  BY DEF Close, Destroy, Reload, CloseSession, keyVars, diskVars, historyVars
<1>7. /\ snapshot' \in [Stores -> Rooms] /\ acked' \in [Stores -> Rooms] /\ AckedOnDisk'
      /\ \A s \in Stores, g \in Groups : acked[s][g] = 0 => acked'[s][g] = 0
  BY <1>1, ClearedStores DEF StorageInv, StorageTypeOK, AckedOnDisk
<1>2. ~IsOpen'
  BY <1>1 DEF IsOpen, Closed
<1>3. \/ identity' = identity
      \/ identity' = identity + 1 /\ identity < MaxIdentities
  BY DEF Close, Destroy, Reload, FreshKey, keyVars
<1>4. removing' = {} \/ (removing' = removing /\ identity' = identity)
  BY DEF Close, Destroy, Reload, keyVars
<1>5. identity \in Identities /\ registry \in [Identities -> SUBSET Groups]
  BY DEF StorageInv, StorageTypeOK
<1>6. identity' \in Identities /\ (identity' # identity => identity' > identity)
  BY <1>3, <1>5 DEF Identities
<1>a. StorageTypeOK'
  <2>1. Empty \in [deleted : SUBSET Groups, rooms : Rooms]
    BY NoRoomsType DEF Empty
  <2>2. Closed \in [phase : {"closed", "opening", "connecting", "running"}, store : Stores \union {NoStore}]
    BY DEF Closed
  <2>3. /\ {keySaved', persistenceEnabled'} \subseteq BOOLEAN
        /\ persistenceEnabled' => keySaved' \/ clearing' = "disable"
        /\ clearing' \in {"no", "disable", "destroy"}
    <3>0. /\ keySaved \in BOOLEAN /\ persistenceEnabled \in BOOLEAN
          /\ persistenceEnabled => keySaved \/ clearing = "disable"
          /\ clearing \in {"no", "disable", "destroy"}
      BY DEF StorageInv, StorageTypeOK
    <3>1. CASE Close
      BY <3>0, <3>1 DEF Close, keyVars
    <3>2. CASE Destroy \/ (Reload /\ FreshKey)
      <4>1. keySaved' = FALSE /\ persistenceEnabled' = FALSE /\ clearing' \in {"no", "destroy"}
        BY <3>2 DEF Destroy, Reload, FreshKey
      <4> QED BY <4>1
    <3>3. CASE Reload /\ ~FreshKey
      <4>1. keySaved /\ keySaved' = keySaved /\ persistenceEnabled' = TRUE /\ clearing' = "no"
        BY <3>3 DEF Reload
      <4> QED BY <3>0, <4>1
    <3> QED BY <3>1, <3>2, <3>3
  <2>4. removing' \subseteq [group : Groups, key : Identities, store : Stores \union {NoStore}]
    BY <1>4 DEF StorageInv, StorageTypeOK
  <2> QED BY <1>1, <1>6, <1>7, <2>1, <2>2, <2>3, <2>4 DEF StorageInv, StorageTypeOK, Rooms, Identities
<1>b. MemoryRemembers' /\ MemoryKeeps'
  BY <1>2 DEF MemoryRemembers, MemoryKeeps
<1>c. OneKeyAtATime'
  <2>1. \A i \in Identities : i > identity' => i > identity
    BY <1>3, <1>5 DEF Identities
  <2>2. \A d \in removing' : d.key = identity'
    BY <1>4 DEF StorageInv, OneKeyAtATime
  <2> QED BY <1>1, <2>1, <2>2 DEF StorageInv, OneKeyAtATime, diskVars, Identities
<1>d. DeletedIsNotKept'
  <2>1. CASE identity' = identity
    BY <1>1, <1>2, <1>5, <1>7, <2>1 DEF StorageInv, DeletedIsNotKept
  <2>2. CASE identity' # identity
    BY <1>1, <1>2, <1>6, <2>2 DEF StorageInv, DeletedIsNotKept, OneKeyAtATime, diskVars
  <2> QED BY <2>1, <2>2
<1>e. DeletionSurvives'
  BY <1>1 DEF StorageInv, DeletionSurvives
<1> QED BY <1>7, <1>a, <1>b, <1>c, <1>d, <1>e DEF StorageInv

\* No deletion is known any more, and less is promised.
LEMMA ClearStateInv ==
  ASSUME StorageInv, ClearState, MaxRecords \in Nat
  PROVE  StorageInv'
<1>1. /\ registry' = [i \in Identities |-> {}] /\ written' = {}
      /\ clearing' = "no"
      /\ persistenceEnabled' = (persistenceEnabled /\ clearing = "destroy")
      /\ UNCHANGED <<hostedBy, identity, keySaved, session, memory, removing>>
  BY DEF ClearState
<1>2. /\ snapshot' \in [Stores -> Rooms] /\ acked' \in [Stores -> Rooms] /\ AckedOnDisk'
      /\ \A s \in Stores, g \in Groups :
           acked'[s][g] \in Nat /\ acked[s][g] \in Nat /\ acked'[s][g] <= acked[s][g]
      /\ \A s \in Stores, g \in Groups : acked[s][g] = 0 => acked'[s][g] = 0
  <2>1. PICK D : ClearStores(D)
    BY DEF ClearState
  <2> QED BY <2>1, ClearedStores
<1>3. identity \in Identities /\ memory.deleted \subseteq Groups /\ memory.rooms \in Rooms
  BY DEF StorageInv, StorageTypeOK
<1>a. StorageTypeOK'
  <2>1. registry' \in [Identities -> SUBSET Groups]
    BY <1>1
  <2>2. /\ {keySaved', persistenceEnabled'} \subseteq BOOLEAN
        /\ persistenceEnabled' => keySaved' \/ clearing' = "disable"
    BY <1>1 DEF StorageInv, StorageTypeOK
  <2> QED BY <1>1, <1>2, <2>1, <2>2 DEF StorageInv, StorageTypeOK, Rooms, Identities
<1>b. MemoryRemembers' /\ OneKeyAtATime' /\ DeletionSurvives'
  BY <1>1 DEF StorageInv, MemoryRemembers, OneKeyAtATime, DeletionSurvives, Identities
<1>c. DeletedIsNotKept'
  BY <1>1, <1>2, <1>3 DEF StorageInv, DeletedIsNotKept, IsOpen
<1>d. MemoryKeeps'
  <2> SUFFICES ASSUME IsOpen, session.store \in Stores, NEW g \in Groups
               PROVE  acked'[session.store][g] <= memory.rooms[g]
    BY <1>1 DEF MemoryKeeps, IsOpen
  <2>1. acked[session.store][g] <= memory.rooms[g] /\ memory.rooms[g] \in Nat
    BY <1>3, RoomsAreNumbers DEF StorageInv, MemoryKeeps
  <2> QED BY <1>2, <2>1
<1> QED BY <1>2, <1>a, <1>b, <1>c, <1>d DEF StorageInv

LEMMA StorageInitInv ==
  ASSUME StorageInit, MaxRecords \in Nat, MaxIdentities \in Nat \ {0}
  PROVE  StorageInv
<1>1. 1 \in Identities /\ 0 \in 0..MaxRecords
  BY DEF Identities
<1>2. Empty \in [deleted : SUBSET Groups, rooms : Rooms]
  BY NoRoomsType DEF Empty
<1>3. ~IsOpen
  BY DEF StorageInit, IsOpen, Closed
<1>a. StorageTypeOK
  BY <1>1, <1>2, NoRoomsType DEF StorageInit, StorageTypeOK, Closed
<1>4. \A s \in Stores, g \in Groups : acked[s][g] = 0 /\ snapshot[s][g] = 0
  BY DEF StorageInit, NoRooms
<1>b. MemoryRemembers /\ MemoryKeeps /\ OneKeyAtATime /\ DeletionSurvives
  BY <1>1, <1>3 DEF StorageInit, MemoryRemembers, MemoryKeeps, OneKeyAtATime, DeletionSurvives
<1>c. DeletedIsNotKept
  BY <1>1, <1>3 DEF StorageInit, DeletedIsNotKept
<1>d. AckedOnDisk
  BY <1>4 DEF AckedOnDisk
<1> QED BY <1>a, <1>b, <1>c, <1>d DEF StorageInv

LEMMA StorageStepInv ==
  ASSUME StorageInv, [StorageNext]_storageVars, MaxRecords \in Nat, MaxIdentities \in Nat
  PROVE  StorageInv'
BY PostInv, StoreOtherInv, DeleteGroupInv, RoomRemovedInv, OpenStorageInv, SessionInv, ClosingInv,
   DisablePersistenceInv, ClearStateInv DEF StorageNext

-----------------------------------------------------------------------------
(* The theorems. *)

\* For any bounds of which the model makes sense, StorageInv holds.
LEMMA StorageInvariant == StorageSpec => []StorageInv
<1>1. StorageInit => StorageInv
  BY StorageInitInv, StorageAssumption
<1>2. StorageInv /\ [StorageNext]_storageVars => StorageInv'
  BY StorageStepInv, StorageAssumption
<1> QED BY <1>1, <1>2, PTL DEF StorageSpec

\* Every variable keeps its shape, and the tab takes itself for persistent only with
\* its key saved or while it gives persistence up.
THEOREM StorageTypeCorrect == StorageSpec => []StorageTypeOK
<1>1. StorageInv => StorageTypeOK
  BY DEF StorageInv
<1> QED BY <1>1, StorageInvariant, PTL

\* A deletion that was written stays in the registry of its key (saveDeletedGroups).
THEOREM DeletionsSurvive == StorageSpec => []DeletionSurvives
<1>1. StorageInv => DeletionSurvives
  BY DEF StorageInv
<1> QED BY <1>1, StorageInvariant, PTL

\* A record that an instance with a store acknowledged is in that store's snapshot, until
\* its room is being deleted or the store is cleared, and in the memory of any instance
\* that has the store open (persist, load).
THEOREM AcknowledgedRecordsAreKept == StorageSpec => []AcknowledgedIsKept
<1>1. StorageInv => AcknowledgedIsKept
  BY DEF StorageInv, AckedOnDisk, MemoryKeeps, AcknowledgedIsKept
<1> QED BY <1>1, StorageInvariant, PTL
===============================================================================
