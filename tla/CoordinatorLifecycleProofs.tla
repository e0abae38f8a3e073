---------------------- MODULE CoordinatorLifecycleProofs ----------------------
(***************************************************************************)
(* Proofs about CoordinatorLifecycle for any rooms, any calls, any number  *)
(* of requests and of attempts: its type invariant, that the tab serves    *)
(* one transport at most and under the lease it holds, that the status     *)
(* tells the truth, and that progress is kept over failures and retries.   *)
(***************************************************************************)
EXTENDS CoordinatorLifecycle, FiniteSetTheorems, TLAPS

-------------------------------------------------------------------------------
(* The inductive invariant.                                                 *)

\* The restarts that have called start(), which may go beyond MaxGenerations.
Restarted == {p \in Calls : intent[p] = "restart" /\ call[p] = "done"}

Bounded ==
  /\ generation <= MaxGenerations + Cardinality(Restarted)
  /\ \A p \in Calls : call[p] = "restarting" => intent[p] = "restart"

\* A transaction has a generation, and waits only for another attempt.
Underway ==
  /\ pc # "none" => of # None
  /\ pc = "waiting" => attempt < MaxAttempts
  /\ pc \in {"attempting", "waiting"} => room \in Rooms

\* Whoever is aborted has lost the generation, too.
Ownership ==
  /\ controller <= generation
  /\ \A a \in aborted : a < generation

\* startupPromise is pending exactly while a transaction runs; what resumes a call
\* has ended it, and nothing is restarted while a call resumes.
Awaited ==
  /\ pc # "none" <=> promise = "pending"
  /\ \A p \in Calls : call[p] = "resumed" =>
       pc = "none" /\ \A q \in Calls : call[q] # "restarting"

Nothing == running = None /\ instanceLease = None
Serving == running # None /\ instanceLease = running

\* What the store holds at each await of a startup, owned or stale; between two of
\* them it may also hold a lease alone.
Holds ==
  /\ pc \in {"acquiring", "dropping", "failing"} => Nothing
  /\ pc = "connecting" => running = None /\ instanceLease = of
  /\ pc \in {"listing", "pausing", "attempting", "waiting", "finishing"} => Serving
  /\ pc = "none" => running = None \/ Serving

StatusInv ==
  /\ status \in {"idle", "stopping"} => pc = "none" /\ Nothing
  /\ status = "running" => pc = "none" /\ Serving /\ targets \subseteq completed
  /\ status = "starting" => Holds

\* A stop in between forgets the rooms listed and the rooms restored at once.
Recovery ==
  /\ pc \in {"acquiring", "connecting", "pausing"} => targets = {}
  /\ pc \in {"acquiring", "connecting", "listing", "pausing"} => completed = {}
  /\ pc \in {"attempting", "waiting"} =>
       completed \subseteq targets /\ (targets = {} \/ room \in targets)
  /\ pc = "finishing" => targets \subseteq completed
  /\ exhausted => completed \subseteq targets

\* Until a destroy overtakes a startup.
Orderly ==
  /\ \A p \in Calls : call[p] # "wiping"
  /\ open = {running} \ {None}
  /\ leases = {instanceLease} \ {None}
  /\ StatusInv

IInv ==
  /\ TypeOK
  /\ Bounded
  /\ Underway
  /\ Ownership
  /\ Awaited
  /\ Recovery
  /\ overtaken \/ Orderly
-------------------------------------------------------------------------------
(* Type correctness.                                                        *)

LEMMA RestartedAreCounted ==
  ASSUME NEW R \in SUBSET Calls
  PROVE  /\ IsFiniteSet(R)
         /\ Cardinality(R) \in Nat
         /\ Cardinality(Calls) \in Nat
         /\ Cardinality(R) <= Cardinality(Calls)
BY LifecycleAssumption, FS_Subset, FS_CardinalityType

\* What a step may do to the calls: a call that is done stays done.
LEMMA DoneIsFinal ==
  ASSUME TypeOK, [Next]_vars, NEW p \in Calls, call[p] = "done"
  PROVE  call'[p] = "done" /\ intent'[p] = intent[p]
<1>1. CASE UNCHANGED vars
  BY <1>1 DEF vars, callVars, intentVars
<1>2. CASE Transaction
  BY <1>2 DEF Transaction, LeaseAcquired, LeaseDropped, Connected, StartupFails, RoomsListed,
              PauseEnds, RoomRecovered, RoomFailed, RetryDelayEnds, Started, FailureReported,
              Catch, Throw, Settle, Await, Goto, callVars, intentVars, TypeOK
<1>3. CASE Request
  BY <1>3 DEF Request, Start, RetryRoomRecovery, ResumeAfterRemovingFailedRoom, Retry, StopCalled,
              DestroyCalled, Stop, Proceed, Wipe, At, callVars, intentVars, TypeOK
<1>4. ASSUME NEW q \in Calls, Resumption(q)
      PROVE  call'[p] = "done" /\ intent'[p] = intent[p]
  BY <1>4 DEF Resumption, StopResumes, Restarts, StopReleased, Wiped, Proceed, Wipe, At,
              callVars, intentVars, TypeOK
<1>5. QED
  BY <1>1, <1>2, <1>3, <1>4 DEF Next

LEMMA BoundedStep ==
  ASSUME TypeOK, Bounded, [Next]_vars
  PROVE  Bounded' /\ (generation' # generation =>
                        generation' = generation + 1 /\ generation' \in Generations)
<1> DEFINE R == Restarted
           n == Cardinality(R)
           m == Cardinality(Restarted')
           k == Cardinality(Calls)
<1>1. R \in SUBSET Calls /\ Restarted' \in SUBSET Calls /\ Restarted' \in SUBSET Restarted'
  BY DEF Restarted
<1>2. R \subseteq Restarted'
  BY DoneIsFinal DEF Restarted
<1>3. n \in Nat /\ m \in Nat /\ k \in Nat /\ n <= m /\ m <= k /\ MaxGenerations \in Nat
  <2>1. IsFiniteSet(Restarted')
    BY <1>1, RestartedAreCounted
  <2>2. n <= m
    BY <1>2, <2>1, FS_Subset
  <2>3. QED
    BY <1>1, <2>2, RestartedAreCounted, LifecycleAssumption
<1>4. generation \in Nat
  BY <1>3 DEF TypeOK, Generations, None
<1>5. ASSUME MayRequest, generation' \in {generation, generation + 1},
             \A p \in Calls : call'[p] = "restarting" => call[p] = "restarting" /\ intent'[p] = intent[p]
      PROVE  Bounded' /\ (generation' # generation =>
                            generation' = generation + 1 /\ generation' \in Generations)
  <2>1. generation + 1 <= MaxGenerations
    BY <1>3, <1>4, <1>5 DEF MayRequest
  <2>2. generation' <= MaxGenerations + m
    BY <1>3, <1>4, <1>5, <2>1
  <2>3. \A p \in Calls : call'[p] = "restarting" => intent'[p] = "restart"
    BY <1>5 DEF Bounded
  <2>4. generation' # generation => generation' = generation + 1 /\ generation' \in Generations
    BY <1>3, <1>4, <1>5, <2>1 DEF Generations
  <2>5. QED
    BY <2>2, <2>3, <2>4 DEF Bounded
<1>6. ASSUME UNCHANGED generation,
             \A p \in Calls : call'[p] = "restarting" =>
                                IF call[p] = "restarting" THEN intent'[p] = intent[p]
                                                          ELSE intent'[p] = "restart"
      PROVE  Bounded'
  <2>1. generation' <= MaxGenerations + m
    BY <1>3, <1>4, <1>6 DEF Bounded
  <2>2. QED
    BY <1>6, <2>1 DEF Bounded
<1>7. CASE UNCHANGED vars
  BY <1>6, <1>7 DEF vars, ownVars, callVars, intentVars
<1>8. CASE Transaction
  <2>1. UNCHANGED <<generation, intent>>
    BY <1>8 DEF Transaction, LeaseAcquired, LeaseDropped, Connected, StartupFails, RoomsListed,
                PauseEnds, RoomRecovered, RoomFailed, RetryDelayEnds, Started, FailureReported,
                Catch, Throw, Settle, Await, ownVars, callVars, intentVars
  <2>2. \A p \in Calls : call'[p] = "restarting" => call[p] = "restarting"
    BY <1>8 DEF Transaction, LeaseAcquired, LeaseDropped, Connected, StartupFails, RoomsListed,
                PauseEnds, RoomRecovered, RoomFailed, RetryDelayEnds, Started, FailureReported,
                Catch, Throw, Settle, Await, callVars, intentVars
  <2>3. QED
    BY <1>6, <2>1, <2>2
<1>9. CASE Request
  <2>1. MayRequest
    BY <1>9 DEF Request, Start, RetryRoomRecovery, ResumeAfterRemovingFailedRoom, Retry,
                StopCalled, DestroyCalled
  <2>2. generation' \in {generation, generation + 1}
    BY <1>9 DEF Request, Start, Begin, Bump, RetryRoomRecovery, ResumeAfterRemovingFailedRoom,
                Retry, StopCalled, DestroyCalled, Stop, ownVars
  <2>3. \A p \in Calls : call'[p] = "restarting" => call[p] = "restarting" /\ intent'[p] = intent[p]
    BY <1>9 DEF Request, Start, RetryRoomRecovery, ResumeAfterRemovingFailedRoom, Retry,
                StopCalled, DestroyCalled, Stop, Proceed, Wipe, At, callVars, intentVars, TypeOK
  <2>4. QED
    BY <1>5, <2>1, <2>2, <2>3
<1>10. ASSUME NEW p \in Calls, StopResumes(p) \/ StopReleased(p) \/ Wiped(p)
       PROVE  Bounded' /\ generation' = generation
  <2>1. UNCHANGED <<generation, intent>>
    BY <1>10 DEF StopResumes, StopReleased, Wiped, ownVars, intentVars
  <2>2. \A q \in Calls : call'[q] = "restarting" => call[q] = "restarting" \/ intent[q] = "restart"
    BY <1>10 DEF StopResumes, StopReleased, Wiped, Wipe, Proceed, At, TypeOK
  <2>3. QED
    BY <1>6, <2>1, <2>2 DEF Bounded
<1>11. ASSUME NEW p \in Calls, Restarts(p)
       PROVE  Bounded' /\ (generation' # generation =>
                             generation' = generation + 1 /\ generation' \in Generations)
  <2>1. /\ call[p] = "restarting" /\ UNCHANGED intent
        /\ call'[p] = "done"
        /\ \A q \in Calls \ {p} : call'[q] = call[q]
        /\ generation' \in {generation, generation + 1}
    BY <1>11 DEF Restarts, At, Begin, Bump, ownVars, intentVars, TypeOK
  <2>2. Restarted' = R \union {p} /\ p \notin R
    BY <2>1 DEF Restarted, Bounded
  <2>3. m = n + 1
    BY <1>1, <2>2, RestartedAreCounted, FS_AddElement
  <2>4. generation' <= MaxGenerations + m
    BY <1>3, <1>4, <2>1, <2>3 DEF Bounded
  <2>5. generation' # generation => generation' = generation + 1 /\ generation' \in Generations
    BY <1>3, <1>4, <2>1, <2>4 DEF Generations
  <2>6. QED
    BY <2>1, <2>4, <2>5 DEF Bounded
<1>12. QED
  BY <1>7, <1>8, <1>9, <1>10, <1>11
     DEF Next, Resumption, vars, ownVars, Transaction, LeaseAcquired, LeaseDropped, Connected,
         StartupFails, RoomsListed, PauseEnds, RoomRecovered, RoomFailed, RetryDelayEnds, Started,
         FailureReported

LEMMA InitType == Init => TypeOK /\ Bounded /\ Underway
<1> SUFFICES ASSUME Init PROVE TypeOK /\ Bounded /\ Underway
  OBVIOUS
<1>1. TypeOK
  <2>1. attempt \in 0..MaxAttempts /\ 0 \in Generations \union {None}
    BY LifecycleAssumption DEF Init, None
  <2>2. exhausted \in BOOLEAN /\ overtaken \in BOOLEAN
    BY DEF Init
  <2>3. QED
    BY <2>1, <2>2 DEF Init, TypeOK, None
<1>2. Restarted = {}
  BY DEF Init, Restarted
<1>3. QED
  BY <1>1, <1>2, FS_EmptySet, LifecycleAssumption DEF Init, Bounded, Underway, None

\* Each action keeps the shapes, provided that the generation does not overflow.
LEMMA TypeStep ==
  ASSUME TypeOK, Underway, [Next]_vars,
         generation' # generation => generation' = generation + 1 /\ generation' \in Generations
  PROVE  TypeOK' /\ Underway'
<1> USE DEF TypeOK, None
<1> DEFINE Pc == {"none", "acquiring", "dropping", "connecting", "listing", "pausing",
                  "attempting", "waiting", "finishing", "failing"}
<1>1. CASE UNCHANGED vars
  <2>1. exhausted' \in BOOLEAN /\ overtaken' \in BOOLEAN
    BY <1>1 DEF vars, recoveryVars, callVars, intentVars
  <2>2. Underway'
    BY <1>1 DEF vars, txnVars, Underway
  <2>3. QED
    BY <1>1, <2>1, <2>2 DEF vars, ownVars, txnVars, recoveryVars, leaseVars, transportVars, callVars, intentVars
<1>2. CASE Transaction
  <2>1. UNCHANGED <<ownVars, intentVars, of, kind>>
    BY <1>2 DEF Transaction, LeaseAcquired, LeaseDropped, Connected, StartupFails, RoomsListed,
                PauseEnds, RoomRecovered, RoomFailed, RetryDelayEnds, Started, FailureReported,
                Catch, Throw, Settle, Await, Goto, callVars, intentVars
  <2>2. /\ status' \in {"idle", "starting", "running", "stopping"}
        /\ promise' \in {"none", "pending", "fulfilled", "rejected"}
        /\ exhausted' \in BOOLEAN
    BY <1>2 DEF Transaction, LeaseAcquired, LeaseDropped, Connected, StartupFails, RoomsListed,
                PauseEnds, RoomRecovered, RoomFailed, RetryDelayEnds, Started, FailureReported,
                Catch, Throw, Settle, Await, Goto, Advance, callVars, recoveryVars
  <2>3. call' \in [Calls -> {"none", "awaiting", "resumed", "releasing", "restarting",
                             "wiping", "done", "failed"}]
    BY <1>2 DEF Transaction, LeaseAcquired, LeaseDropped, Connected, StartupFails, RoomsListed,
                PauseEnds, RoomRecovered, RoomFailed, RetryDelayEnds, Started, FailureReported,
                Catch, Throw, Settle, Await, callVars
  <2>4. /\ targets' \subseteq Rooms
        /\ completed' \subseteq Rooms
        /\ room' \in Rooms \union {NoRoom}
        /\ pc' \in Pc
    <3>1. CASE RoomsListed
      BY <3>1 DEF RoomsListed, Settle, Await, Goto, Advance, recoveryVars
    <3>2. CASE RoomRecovered
      <4>1. CASE room \in Rooms
        BY <3>2, <4>1 DEF RoomRecovered, Settle, Goto, Advance, recoveryVars
      <4>2. CASE room \notin Rooms
        BY <3>2, <4>2 DEF RoomRecovered, Settle, Goto, Advance, recoveryVars, Underway
      <4>3. QED
        BY <4>1, <4>2
    <3>3. CASE LeaseAcquired \/ LeaseDropped \/ Connected \/ StartupFails \/ FailureReported
      BY <3>3 DEF LeaseAcquired, LeaseDropped, Connected, StartupFails, FailureReported,
                  Catch, Settle, Await, Goto, recoveryVars
    <3>4. CASE PauseEnds \/ RoomFailed \/ RetryDelayEnds \/ Started
      BY <3>4 DEF PauseEnds, RoomFailed, RetryDelayEnds, Started,
                  Catch, Throw, Settle, Await, Goto, recoveryVars
    <3>5. QED
      BY <1>2, <3>1, <3>2, <3>3, <3>4 DEF Transaction
  <2>5. attempt' \in 0..MaxAttempts /\ (pc' = "waiting" => attempt' < MaxAttempts)
    <3>1. CASE RetryDelayEnds
      <4>1. attempt' \in {attempt, attempt + 1} /\ attempt < MaxAttempts /\ pc' # "waiting"
        BY <3>1 DEF RetryDelayEnds, Catch, Throw, Settle, Await, Goto, Underway
      <4>2. QED
        BY <4>1, LifecycleAssumption
    <3>2. CASE RoomFailed
      <4>1. attempt' = attempt /\ (pc' = "waiting" => attempt # MaxAttempts)
        BY <3>2 DEF RoomFailed, Settle, Await, Goto
      <4>2. QED
        BY <4>1, LifecycleAssumption
    <3>3. CASE Transaction /\ ~RetryDelayEnds /\ ~RoomFailed
      <4>1. attempt' \in {attempt, 1} /\ pc' # "waiting"
        BY <3>3 DEF Transaction, LeaseAcquired, LeaseDropped, Connected, StartupFails,
                        RoomsListed, PauseEnds, RoomRecovered, Started, FailureReported,
                    Catch, Throw, Settle, Await, Goto, Advance
      <4>2. QED
        BY <4>1, LifecycleAssumption
    <3>4. QED
      BY <1>2, <3>1, <3>2, <3>3
  <2>6. /\ instanceLease' \in Generations \union {None}
        /\ leases' \subseteq Generations
        /\ running' \in Generations \union {None}
        /\ open' \subseteq Generations
    <3>1. CASE LeaseAcquired \/ Connected
      <4>1. of \in Generations
        BY <3>1 DEF LeaseAcquired, Connected, Underway
      <4>2. QED
        BY <3>1, <4>1 DEF LeaseAcquired, Connected, transportVars, leaseVars
    <3>2. CASE Transaction /\ ~LeaseAcquired /\ ~Connected
      BY <3>2 DEF Transaction, LeaseDropped, StartupFails, RoomsListed,
                PauseEnds, RoomRecovered, RoomFailed, RetryDelayEnds, Started, FailureReported,
                Catch, Throw, leaseVars, transportVars, ReleaseInstanceLease
    <3>3. QED
      BY <1>2, <3>1, <3>2
  <2>7. pc # "none"
    BY <1>2 DEF Transaction, LeaseAcquired, LeaseDropped, Connected, StartupFails, RoomsListed,
                PauseEnds, RoomRecovered, RoomFailed, RetryDelayEnds, Started, FailureReported
  <2>8. pc' \in {"attempting", "waiting"} => room' \in Rooms
    <3>1. CASE RoomsListed \/ RoomRecovered
      BY <3>1 DEF RoomsListed, RoomRecovered, Settle, Await, Goto, Advance
    <3>2. CASE RetryDelayEnds
      BY <3>2 DEF RetryDelayEnds, Catch, Throw, Settle, Await, Goto, Underway
    <3>3. CASE Transaction /\ ~RoomsListed /\ ~RoomRecovered /\ ~RetryDelayEnds
      BY <3>3 DEF Transaction, LeaseAcquired, LeaseDropped, Connected, StartupFails,
                  PauseEnds, RoomFailed, Started, FailureReported,
                  Catch, Throw, Settle, Await, Goto, Underway
    <3>4. QED
      BY <1>2, <3>1, <3>2, <3>3
  <2>9. QED
    BY <2>1, <2>2, <2>3, <2>4, <2>5, <2>6, <2>7, <2>8 DEF ownVars, intentVars, Underway
<1>3. ASSUME Begin \/ Retry(targets, completed) \/ (\E G, done \in SUBSET Rooms : Retry(G, done)),
             UNCHANGED intentVars,
             call' \in [Calls -> {"none", "awaiting", "resumed", "releasing", "restarting",
                                  "wiping", "done", "failed"}]
      PROVE  TypeOK' /\ Underway'
  <2>1. generation' = generation + 1 /\ generation' \in Generations
    <3>1. generation' = generation + 1 /\ generation \in Nat
      BY <1>3, LifecycleAssumption, RestartedAreCounted DEF Begin, Retry, Bump, Generations
    <3>2. QED
      BY <3>1
  <2>2. /\ status' \in {"idle", "starting", "running", "stopping"}
        /\ controller' = generation'
        /\ UNCHANGED <<aborted, leaseVars, transportVars>>
        /\ promise' \in {"none", "pending", "fulfilled", "rejected"}
        /\ pc' \in Pc \ {"waiting"} \/ UNCHANGED <<pc, attempt, room>>
        /\ pc' \in {"attempting", "waiting"} => room' \in Rooms
        /\ of' = generation' \/ UNCHANGED <<pc, of>>
        /\ kind' \in {"start", "retry"}
        /\ targets' \subseteq Rooms
        /\ completed' \subseteq Rooms
        /\ room' \in Rooms \union {NoRoom}
        /\ exhausted' \in BOOLEAN
    BY <1>3 DEF Begin, Retry, Bump, Advance, txnVars, Underway
  <2>3. attempt' \in 0..MaxAttempts
    <3>1. attempt' \in {attempt, 1}
      BY <1>3 DEF Begin, Retry, Advance, txnVars
    <3>2. QED
      BY <3>1, LifecycleAssumption
  <2>4. generation' # None
    BY <2>1, LifecycleAssumption, RestartedAreCounted DEF Generations, None
  <2>5. QED
    BY <1>3, <2>1, <2>2, <2>3, <2>4 DEF Underway, leaseVars, transportVars, intentVars
<1>4. ASSUME NEW p \in Calls, Proceed(p)
      PROVE  /\ status' \in {"idle", "starting", "running", "stopping"}
             /\ instanceLease' \in Generations \union {None} /\ leases' \subseteq Generations
             /\ running' \in Generations \union {None} /\ open' \subseteq Generations
             /\ call' \in [Calls -> {"none", "awaiting", "resumed", "releasing", "restarting",
                                     "wiping", "done", "failed"}]
  BY <1>4 DEF Proceed, StopSync, ReleaseInstanceLease, At, leaseVars, transportVars
<1>5. ASSUME NEW p \in Calls, Stop(p),
             intent' \in [Calls -> {"stop", "restart", "destroy"}], overtaken' \in BOOLEAN
      PROVE  TypeOK' /\ Underway'
  <2>1. generation' \in Generations /\ controller' \in Generations \union {None}
        /\ aborted' \subseteq Generations
    <3>1. generation' = generation + 1 /\ generation \in Nat
      BY <1>5, LifecycleAssumption, RestartedAreCounted DEF Stop, Bump, Generations
    <3>2. generation' \in Generations
      BY <3>1
    <3>3. QED
      BY <1>5, <3>2 DEF Stop
  <2>2. /\ status' \in {"idle", "starting", "running", "stopping"}
        /\ instanceLease' \in Generations \union {None} /\ leases' \subseteq Generations
        /\ running' \in Generations \union {None} /\ open' \subseteq Generations
        /\ call' \in [Calls -> {"none", "awaiting", "resumed", "releasing", "restarting",
                                "wiping", "done", "failed"}]
    <3>1. CASE promise = "none"
      BY <1>4, <1>5, <3>1 DEF Stop
    <3>2. CASE promise # "none"
      <4>1. \E label \in {"awaiting", "resumed", "failed"} : At(p, label)
        <5>1. CASE promise = "pending"
          BY <1>5, <5>1, Zenon DEF Stop
        <5>2. CASE promise = "fulfilled"
          BY <1>5, <5>2, Zenon DEF Stop
        <5>3. CASE promise = "rejected"
          BY <1>5, <5>3, Zenon DEF Stop
        <5>4. QED
          BY <3>2, <5>1, <5>2, <5>3
      <4>2. UNCHANGED <<status, leaseVars, transportVars>>
        BY <1>5, <3>2, Zenon DEF Stop
      <4>3. QED
        BY <4>1, <4>2 DEF At, leaseVars, transportVars
    <3>3. QED
      BY <3>1, <3>2
  <2>3. UNCHANGED <<promise, txnVars, recoveryVars>>
    BY <1>5 DEF Stop
  <2>4. QED
    BY <1>5, <2>1, <2>2, <2>3 DEF Underway, txnVars, recoveryVars
<1>6. CASE Start
  BY <1>3, <1>6 DEF Start, callVars
<1>7. CASE RetryRoomRecovery \/ ResumeAfterRemovingFailedRoom
  BY <1>3, <1>7 DEF RetryRoomRecovery, ResumeAfterRemovingFailedRoom, Retry, callVars
<1>8. ASSUME NEW p \in Calls, NEW i \in {"stop", "restart"}, StopCalled(p, i)
      PROVE  TypeOK' /\ Underway'
  BY <1>5, <1>8 DEF StopCalled
<1>9. ASSUME NEW p \in Calls, DestroyCalled(p)
      PROVE  TypeOK' /\ Underway'
  <2>1. intent' \in [Calls -> {"stop", "restart", "destroy"}] /\ overtaken' \in BOOLEAN
    BY <1>9 DEF DestroyCalled
  <2>2. CASE status = "running"
    BY <1>5, <1>9, <2>1, <2>2 DEF DestroyCalled
  <2>3. CASE status # "running"
    <3>1. /\ status' \in {"idle", status}
          /\ UNCHANGED <<ownVars, promise, txnVars, targets, completed>>
          /\ StopSync
      BY <1>9, <2>3 DEF DestroyCalled, Wipe
    <3>2. call' \in [Calls -> {"none", "awaiting", "resumed", "releasing", "restarting",
                                "wiping", "done", "failed"}]
      BY <1>9, <2>3 DEF DestroyCalled, Wipe, At
    <3>3. Underway'
      BY <3>1 DEF Underway, txnVars
    <3>4. exhausted' \in BOOLEAN
      BY <1>9, <2>3 DEF DestroyCalled, Wipe
    <3>5. QED
      BY <2>1, <3>1, <3>2, <3>3, <3>4 DEF StopSync, ReleaseInstanceLease, ownVars, txnVars
  <2>4. QED
    BY <2>2, <2>3
<1>10. ASSUME NEW p \in Calls, StopResumes(p)
       PROVE  TypeOK' /\ Underway'
  BY <1>4, <1>10 DEF StopResumes, ownVars, txnVars, recoveryVars, intentVars, Underway
<1>11. ASSUME NEW p \in Calls, Restarts(p)
       PROVE  TypeOK' /\ Underway'
  <2>1. UNCHANGED intentVars /\ call' \in [Calls -> {"none", "awaiting", "resumed", "releasing",
                                                   "restarting", "wiping", "done", "failed"}]
    BY <1>11 DEF Restarts, At
  <2>2. CASE promise = "none"
    BY <1>3, <1>11, <2>1, <2>2 DEF Restarts
  <2>3. CASE promise # "none"
    BY <1>11, <2>1, <2>3 DEF Restarts, ownVars, txnVars, recoveryVars, intentVars, leaseVars,
       transportVars, Underway
  <2>4. QED
    BY <2>2, <2>3
<1>12. ASSUME NEW p \in Calls, StopReleased(p)
       PROVE  TypeOK' /\ Underway'
  <2>1. /\ status' \in {"idle", status} /\ targets' = {} /\ completed' = {}
        /\ UNCHANGED <<ownVars, promise, txnVars, leaseVars, transportVars, intentVars>>
    BY <1>12 DEF StopReleased
  <2>2. call' \in [Calls -> {"none", "awaiting", "resumed", "releasing", "restarting",
                              "wiping", "done", "failed"}]
    BY <1>12 DEF StopReleased, At
  <2>3. Underway'
    BY <2>1 DEF Underway, txnVars
  <2>4. exhausted' \in BOOLEAN /\ overtaken' \in BOOLEAN
    BY <1>12 DEF StopReleased, intentVars
  <2>5. QED
    BY <2>1, <2>2, <2>3, <2>4 DEF ownVars, txnVars, intentVars, leaseVars, transportVars
<1>13. ASSUME NEW p \in Calls, Wiped(p)
       PROVE  TypeOK' /\ Underway'
  <2>1. status' = "idle" /\ exhausted' = FALSE
        /\ UNCHANGED <<ownVars, promise, txnVars, targets, completed, leaseVars, transportVars, intentVars>>
    BY <1>13 DEF Wiped, Wipe
  <2>2. call' \in [Calls -> {"none", "awaiting", "resumed", "releasing", "restarting",
                              "wiping", "done", "failed"}]
    BY <1>13 DEF Wiped, Wipe, At
  <2>3. Underway'
    BY <2>1 DEF Underway, txnVars
  <2>4. exhausted' \in BOOLEAN /\ overtaken' \in BOOLEAN
    BY <2>1 DEF intentVars
  <2>5. QED
    BY <2>1, <2>2, <2>3, <2>4 DEF ownVars, txnVars, intentVars, leaseVars, transportVars
<1>14. QED
  BY <1>1, <1>2, <1>6, <1>7, <1>8, <1>9, <1>10, <1>11, <1>12, <1>13 DEF Next, Request, Resumption

\* Every variable keeps its shape: no request, however many are made, takes the
\* generation beyond what the calls allow, and no room is tried more often than the
\* recovery policy says.
THEOREM LifecycleTypes == Spec => []TypeOK
<1> DEFINE TInv == TypeOK /\ Bounded /\ Underway
<1>1. Init => TInv
  BY InitType
<1>2. TInv /\ [Next]_vars => TInv'
  BY BoundedStep, TypeStep
<1>3. QED
  BY <1>1, <1>2, PTL DEF Spec

-------------------------------------------------------------------------------
(* Who owns the store, and what is awaited.                                 *)

\* A transaction step goes on to another await, or it settles startupPromise.
Continues == pc' # "none" /\ UNCHANGED <<of, kind, promise, callVars>>

LEMMA TransactionFrame ==
  ASSUME Transaction
  PROVE  /\ pc # "none" /\ Quiet
         /\ UNCHANGED ownVars
         /\ \/ Continues
            \/ Settle("fulfilled")
            \/ Settle("rejected")
<1>1. pc # "none" /\ Quiet
  BY DEF Transaction, LeaseAcquired, LeaseDropped, Connected, StartupFails, RoomsListed,
         PauseEnds, RoomRecovered, RoomFailed, RetryDelayEnds, Started, FailureReported
<1>2. UNCHANGED ownVars
  BY DEF Transaction, LeaseAcquired, LeaseDropped, Connected, StartupFails, RoomsListed,
         PauseEnds, RoomRecovered, RoomFailed, RetryDelayEnds, Started, FailureReported
<1>3. CASE LeaseAcquired \/ LeaseDropped \/ Connected \/ StartupFails
  BY <1>3 DEF LeaseAcquired, LeaseDropped, Connected, StartupFails, Catch, Await, Goto, Continues
<1>4. CASE RoomsListed \/ RoomRecovered \/ RoomFailed \/ FailureReported
  BY <1>4 DEF RoomsListed, RoomRecovered, RoomFailed, FailureReported, Advance, Await, Goto, Continues
<1>5. CASE PauseEnds \/ RetryDelayEnds \/ Started
  BY <1>5 DEF PauseEnds, RetryDelayEnds, Started, Throw, Catch, Await, Goto, Continues
<1>6. QED
  BY <1>1, <1>2, <1>3, <1>4, <1>5 DEF Transaction

LEMMA GenerationType ==
  ASSUME TypeOK
  PROVE  /\ generation \in Nat /\ controller \in Nat /\ of \in Nat
         /\ \A a \in aborted : a \in Nat
BY LifecycleAssumption, RestartedAreCounted DEF TypeOK, Generations, None

\* A stop aborts what is under way, and with it the generation changes hands.
LEMMA OwnershipStep ==
  ASSUME TypeOK, Ownership, [Next]_vars
  PROVE  Ownership'
<1>1. CASE UNCHANGED ownVars
  BY <1>1 DEF Ownership, ownVars
<1>2. CASE Bump /\ controller' = generation + 1 /\ UNCHANGED aborted
  <2>1. controller' <= generation' /\ \A a \in aborted : a < generation + 1
    BY <1>2, GenerationType DEF Bump, Ownership
  <2>2. QED
    BY <1>2, <2>1 DEF Bump, Ownership
<1>3. CASE Bump /\ controller' = None /\ aborted' = (aborted \union {controller}) \ {None}
  <2>1. controller' <= generation' /\ controller < generation + 1
        /\ \A a \in aborted : a < generation + 1
    BY <1>3, GenerationType DEF Bump, Ownership, None
  <2>2. QED
    BY <1>3, <2>1 DEF Bump, Ownership
<1>4. \/ UNCHANGED ownVars
      \/ Bump /\ controller' = generation + 1 /\ UNCHANGED aborted
      \/ Bump /\ controller' = None /\ aborted' = (aborted \union {controller}) \ {None}
  <2>1. CASE UNCHANGED vars
    BY <2>1 DEF vars
  <2>2. CASE Transaction
    BY <2>2, TransactionFrame
  <2>3. CASE Request
    BY <2>3 DEF Request, Start, Begin, RetryRoomRecovery, ResumeAfterRemovingFailedRoom, Retry,
                StopCalled, Stop, DestroyCalled
  <2>4. ASSUME NEW p \in Calls, Resumption(p)
        PROVE  UNCHANGED ownVars \/ (Bump /\ controller' = generation + 1 /\ UNCHANGED aborted)
    BY <2>4 DEF Resumption, StopResumes, Restarts, Begin, StopReleased, Wiped
  <2>5. QED
    BY <2>1, <2>2, <2>3, <2>4 DEF Next
<1>5. QED
  BY <1>1, <1>2, <1>3, <1>4

\* stop() up to its first await, and behind it.
LEMMA StopFrame ==
  ASSUME TypeOK, NEW p \in Calls, Stop(p)
  PROVE  /\ UNCHANGED <<promise, txnVars, recoveryVars>>
         /\ promise = "none" => Proceed(p)
         /\ promise # "none" => UNCHANGED <<status, leaseVars, transportVars>>
         /\ \A q \in Calls \ {p} : call'[q] = call[q]
         /\ \/ call'[p] \in {"awaiting", "releasing", "failed"}
            \/ call'[p] = "resumed" /\ promise = "fulfilled"
<1>1. CASE promise = "none"
  BY <1>1 DEF Stop, Proceed, At, TypeOK
<1>2. CASE promise # "none"
  <2>1. \/ At(p, "awaiting")
        \/ At(p, "resumed") /\ promise = "fulfilled"
        \/ At(p, "failed")
    <3>1. CASE promise = "pending"
      BY <3>1, Zenon DEF Stop
    <3>2. CASE promise = "fulfilled"
      BY <3>2, Zenon DEF Stop
    <3>3. CASE promise = "rejected"
      BY <3>3, Zenon DEF Stop
    <3>4. QED
      BY <1>2, <3>1, <3>2, <3>3 DEF TypeOK
  <2>2. UNCHANGED <<promise, txnVars, recoveryVars, status, leaseVars, transportVars>>
    BY <1>2, Zenon DEF Stop
  <2>3. QED
    BY <1>2, <2>1, <2>2 DEF At, TypeOK
<1>3. QED
  BY <1>1, <1>2

LEMMA AwaitedStep ==
  ASSUME TypeOK, Awaited, [Next]_vars
  PROVE  Awaited'
<1>1. CASE UNCHANGED vars
  BY <1>1 DEF vars, txnVars, callVars, Awaited
<1>2. CASE Transaction
  <2>1. CASE Continues
    BY <1>2, <2>1, TransactionFrame DEF Continues, Awaited, Quiet, callVars
  <2>2. CASE Settle("fulfilled") \/ Settle("rejected")
    BY <1>2, <2>2, TransactionFrame DEF Settle, Goto, Awaited, Quiet
  <2>3. QED
    BY <1>2, <2>1, <2>2, TransactionFrame
<1>3. ASSUME Begin \/ \E G, done : Retry(G, done),
             promise = "none",
             \A p \in Calls : call'[p] \notin {"resumed", "restarting"}
      PROVE  Awaited'
  <2>1. pc = "none"
    BY <1>3 DEF Awaited
  <2>2. \/ pc' = "none" /\ promise' = "none"
        \/ pc' # "none" /\ promise' = "pending"
    <3>1. CASE Begin
      BY <1>3, <2>1, <3>1 DEF Begin, txnVars
    <3>2. ASSUME NEW G, NEW done, Retry(G, done)
          PROVE  pc' # "none" /\ promise' = "pending"
      BY <3>2 DEF Retry, Advance
    <3>3. QED
      BY <1>3, <3>1, <3>2
  <2>3. QED
    BY <1>3, <2>2 DEF Awaited
<1>4. ASSUME NEW p \in Calls, Quiet, Stop(p)
      PROVE  Awaited'
  BY <1>4, StopFrame DEF Awaited, Quiet, txnVars
<1>5. CASE Request
  <2>1. CASE Start \/ RetryRoomRecovery \/ ResumeAfterRemovingFailedRoom
    BY <1>3, <2>1 DEF Start, RetryRoomRecovery, ResumeAfterRemovingFailedRoom, Retry,
       MayRequest, Quiet, callVars
  <2>2. ASSUME NEW p \in Calls, (\E i \in {"stop", "restart"} : StopCalled(p, i)) \/ DestroyCalled(p)
        PROVE  Awaited'
    <3>1. CASE Stop(p)
      BY <1>4, <2>2, <3>1 DEF StopCalled, DestroyCalled, MayRequest
    <3>2. CASE ~Stop(p)
      <4>1. DestroyCalled(p) /\ status # "running"
        BY <2>2, <3>2 DEF StopCalled, DestroyCalled
      <4>2. UNCHANGED <<pc, promise>> /\ Quiet /\ (At(p, "done") \/ At(p, "wiping"))
        BY <4>1 DEF DestroyCalled, Wipe, txnVars, MayRequest
      <4>3. QED
        BY <4>2 DEF At, Awaited, TypeOK, Quiet
    <3>3. QED
      BY <3>1, <3>2
  <2>3. QED
    BY <1>5, <2>1, <2>2 DEF Request
<1>6. ASSUME NEW p \in Calls, StopResumes(p)
      PROVE  Awaited'
  BY <1>6 DEF StopResumes, Proceed, At, Awaited, TypeOK, txnVars
<1>7. ASSUME NEW p \in Calls, Restarts(p)
      PROVE  Awaited'
  <2>1. \A q \in Calls : call'[q] # "resumed"
    BY <1>7 DEF Restarts, At, Awaited, TypeOK
  <2>2. QED
    BY <1>7, <2>1 DEF Restarts, Begin, Awaited, txnVars
<1>8. ASSUME NEW p \in Calls, StopReleased(p) \/ Wiped(p)
      PROVE  Awaited'
  BY <1>8 DEF StopReleased, Wiped, Wipe, At, Awaited, TypeOK, txnVars, Quiet
<1>9. QED
  BY <1>1, <1>2, <1>5, <1>6, <1>7, <1>8 DEF Next, Resumption

-------------------------------------------------------------------------------
(* The progress of the recovery.                                            *)

\* The room loop, over rooms of which all that were restored are targets.
LEMMA AdvanceKeepsRecovery ==
  ASSUME NEW G, NEW done, done \subseteq G \/ G = {},
         Advance(G, done), targets' = G, completed' = done
  PROVE  Recovery'
<1>1. CASE G \subseteq done
  BY <1>1 DEF Advance, Recovery
<1>2. CASE ~(G \subseteq done)
  BY <1>2 DEF Advance, Recovery
<1>3. QED
  BY <1>1, <1>2

\* A transaction that ends, or goes on without touching the rooms.
LEMMA KeepsRecovery ==
  ASSUME Recovery, UNCHANGED <<targets, completed>>, exhausted' => exhausted,
         \/ pc' \in {"none", "failing", "dropping"}
         \/ UNCHANGED <<pc, room>>
         \/ pc = "acquiring" /\ pc' = "connecting"
         \/ pc = "connecting" /\ pc' = "listing"
         \/ pc \in {"connecting", "pausing"} /\ pc' = "finishing"
         \/ pc \in {"attempting", "waiting"} /\ pc' \in {"attempting", "waiting"} /\ UNCHANGED room
  PROVE  Recovery'
BY DEF Recovery

LEMMA TransactionRecovery ==
  ASSUME TypeOK, Recovery, Transaction
  PROVE  Recovery'
<1>1. CASE RoomsListed
  <2>1. CASE OwnsGeneration
    <3>1. PICK listed \in SUBSET Rooms :
            /\ targets' = listed /\ completed' = {}
            /\ IF listed = {} THEN exhausted' = FALSE /\ Await("pausing")
               ELSE Advance(listed, {})
      BY <1>1, <2>1 DEF RoomsListed
    <3>2. CASE listed = {}
      BY <3>1, <3>2 DEF Recovery, Await, Goto
    <3>3. CASE listed # {}
      BY <3>1, <3>3, AdvanceKeepsRecovery
    <3>4. QED
      BY <3>2, <3>3
  <2>2. CASE ~OwnsGeneration
    BY <1>1, <2>2, KeepsRecovery DEF RoomsListed, Settle, Goto, recoveryVars
  <2>3. QED
    BY <2>1, <2>2
<1>2. CASE RoomRecovered
  <2>1. CASE OwnsGeneration
    <3>1. /\ Advance(targets, completed \union {room}) /\ targets' = targets
          /\ completed' = completed \union {room}
          /\ pc = "attempting"
      BY <1>2, <2>1 DEF RoomRecovered
    <3>2. completed \union {room} \subseteq targets \/ targets = {}
      BY <3>1 DEF Recovery
    <3>3. QED
      BY <3>1, <3>2, AdvanceKeepsRecovery
  <2>2. CASE ~OwnsGeneration
    BY <1>2, <2>2, KeepsRecovery DEF RoomRecovered, Settle, Goto, recoveryVars
  <2>3. QED
    BY <2>1, <2>2
<1>3. CASE RoomFailed
  BY <1>3 DEF RoomFailed, Settle, Await, Goto, Recovery
<1>4. CASE LeaseAcquired \/ LeaseDropped \/ Connected \/ StartupFails
  BY <1>4, KeepsRecovery DEF LeaseAcquired, LeaseDropped, Connected, StartupFails, Catch,
     Settle, Await, Goto, recoveryVars
<1>5. CASE PauseEnds \/ RetryDelayEnds
  BY <1>5, KeepsRecovery DEF PauseEnds, RetryDelayEnds, Throw, Catch, Settle, Await, Goto, recoveryVars
<1>6. CASE Started \/ FailureReported
  BY <1>6, KeepsRecovery DEF Started, FailureReported, Throw, Catch, Settle, Await, Goto
<1>7. QED
  BY <1>1, <1>2, <1>3, <1>4, <1>5, <1>6 DEF Transaction

LEMMA RecoveryStep ==
  ASSUME TypeOK, Awaited, Recovery, [Next]_vars
  PROVE  Recovery'
<1>1. CASE UNCHANGED vars
  BY <1>1 DEF vars, txnVars, recoveryVars, Recovery
<1>2. CASE Transaction
  BY <1>2, TransactionRecovery
<1>3. CASE Begin
  BY <1>3 DEF Begin, txnVars, Recovery
<1>4. ASSUME NEW G, NEW done, Retry(G, done), exhausted => done \subseteq G
      PROVE  Recovery'
  <2>1. done \subseteq G /\ targets' = G /\ completed' = done
    BY <1>4 DEF Retry
  <2>2. CASE G = {}
    <3>1. pc' = "listing" /\ UNCHANGED exhausted
      BY <1>4, <2>2 DEF Retry
    <3>2. QED
      BY <2>1, <2>2, <3>1 DEF Recovery
  <2>3. CASE G # {}
    BY <1>4, <2>1, <2>3, AdvanceKeepsRecovery DEF Retry
  <2>4. QED
    BY <2>2, <2>3
<1>5. CASE RetryRoomRecovery \/ ResumeAfterRemovingFailedRoom
  BY <1>4, <1>5 DEF RetryRoomRecovery, ResumeAfterRemovingFailedRoom, Recovery
<1>6. ASSUME NEW p \in Calls, (\E i \in {"stop", "restart"} : StopCalled(p, i)) \/ DestroyCalled(p)
      PROVE  Recovery'
  <2>1. CASE Stop(p)
    BY <2>1, StopFrame DEF Recovery, txnVars, recoveryVars
  <2>2. CASE ~Stop(p)
    BY <1>6, <2>2 DEF StopCalled, DestroyCalled, Wipe, Recovery, txnVars
  <2>3. QED
    BY <2>1, <2>2
<1>7. ASSUME NEW p \in Calls, Resumption(p)
      PROVE  Recovery'
  <2>1. CASE StopReleased(p)
    BY <2>1 DEF StopReleased, Recovery, txnVars
  <2>2. CASE Restarts(p)
    BY <1>3, <2>2 DEF Restarts, Recovery, txnVars, recoveryVars
  <2>3. CASE StopResumes(p) \/ Wiped(p)
    BY <2>3 DEF StopResumes, Wiped, Wipe, Recovery, txnVars, recoveryVars
  <2>4. QED
    BY <1>7, <2>1, <2>2, <2>3 DEF Resumption
<1>8. QED
  BY <1>1, <1>2, <1>3, <1>5, <1>6, <1>7 DEF Next, Request, Start

-------------------------------------------------------------------------------
(* One coordinator.                                                         *)

Held ==
  /\ open = {running} \ {None}
  /\ leases = {instanceLease} \ {None}

\* What lets go of everything, and what a transaction step may do to what is held.
LEMMA StopSyncLetsGo ==
  ASSUME Held, StopSync
  PROVE  Held' /\ Nothing'
BY DEF Held, StopSync, ReleaseInstanceLease, Nothing

LEMMA NobodyWipes ==
  ASSUME TypeOK, Orderly, ~overtaken', [Next]_vars
  PROVE  \A p \in Calls : call'[p] # "wiping"
<1>1. CASE UNCHANGED vars
  BY <1>1 DEF vars, callVars, Orderly
<1>2. CASE Transaction
  BY <1>2, TransactionFrame DEF Continues, Settle, callVars, Orderly
<1>3. CASE Start \/ RetryRoomRecovery \/ ResumeAfterRemovingFailedRoom
  BY <1>3 DEF Start, RetryRoomRecovery, ResumeAfterRemovingFailedRoom, Retry, callVars, Orderly
<1>4. ASSUME NEW p \in Calls, (\E i \in {"stop", "restart"} : StopCalled(p, i)) \/ DestroyCalled(p)
      PROVE  \A q \in Calls : call'[q] # "wiping"
  <2>1. CASE Stop(p)
    BY <2>1, StopFrame DEF Orderly
  <2>2. CASE ~Stop(p)
    <3>1. DestroyCalled(p) /\ status # "running"
      BY <1>4, <2>2 DEF StopCalled, DestroyCalled
    <3>2. status = "idle"
      BY <3>1 DEF DestroyCalled
    <3>3. instanceLease = None
      BY <3>2 DEF Orderly, StatusInv, Nothing
    <3>4. StopSync /\ (IF instanceLease = None THEN Wipe(p) ELSE At(p, "wiping"))
      BY <3>1 DEF DestroyCalled
    <3>5. At(p, "done")
      BY <3>3, <3>4 DEF Wipe
    <3>6. QED
      BY <3>5 DEF At, Orderly, TypeOK
  <2>3. QED
    BY <2>1, <2>2
<1>5. ASSUME NEW p \in Calls, Resumption(p)
      PROVE  \A q \in Calls : call'[q] # "wiping"
  BY <1>5 DEF Resumption, StopResumes, Proceed, Restarts, StopReleased, Wiped, Wipe, At, Orderly, TypeOK
<1>6. QED
  BY <1>1, <1>2, <1>3, <1>4, <1>5 DEF Next, Request

\* A stale transaction has lost the generation, an owner has it; either way the
\* store is starting.
LEMMA TransactionOrder ==
  ASSUME TypeOK, Underway, Recovery, Orderly, Transaction
  PROVE  Held' /\ StatusInv'
<1>1. /\ pc # "none" /\ of # None
      /\ status = "starting" /\ Holds
      /\ Held
  BY TransactionFrame DEF Underway, Orderly, StatusInv, TypeOK, Held
<1>2. ASSUME UNCHANGED <<status, leaseVars, transportVars>>, pc' = "none"
      PROVE  Held' /\ StatusInv'
  <2>1. running = None \/ Serving
    BY <1>1 DEF Holds, Nothing, TypeOK
  <2>2. Held' /\ (running' = None \/ Serving')
    BY <1>1, <1>2, <2>1 DEF Held, Serving, leaseVars, transportVars
  <2>3. QED
    BY <1>1, <1>2, <2>2 DEF StatusInv, Holds
<1>3. ASSUME UNCHANGED <<status, of, leaseVars, transportVars>>,
             \/ pc \in {"acquiring", "dropping", "failing"} /\ pc' \in {"dropping", "failing"}
             \/ /\ pc \in {"listing", "pausing", "attempting", "waiting", "finishing"}
                /\ pc' \in {"listing", "pausing", "attempting", "waiting", "finishing"}
      PROVE  Held' /\ StatusInv'
  BY <1>1, <1>3 DEF Held, StatusInv, Holds, Nothing, Serving, leaseVars, transportVars
<1>4. CASE LeaseAcquired
  <2>1. CASE ~OwnsGeneration \/ KeyDestroyed
    BY <1>3, <1>4, <2>1 DEF LeaseAcquired, Await, Goto, transportVars
  <2>2. CASE OwnsGeneration /\ ~KeyDestroyed
    BY <1>1, <1>4, <2>2 DEF LeaseAcquired, Await, Goto, Held, StatusInv, Holds, Nothing, transportVars
  <2>3. QED
    BY <2>1, <2>2
<1>5. CASE LeaseDropped
  BY <1>2, <1>5 DEF LeaseDropped, Settle, Goto
<1>6. CASE Connected
  <2>1. CASE OwnsGeneration
    <3>1. /\ running' = of /\ open' = open \union {of} /\ of' = of
          /\ pc' \in {"listing", "finishing"}
          /\ UNCHANGED <<status, instanceLease, leases>>
          /\ pc = "connecting"
      BY <1>6, <2>1 DEF Connected, Await, Goto, leaseVars
    <3>2. running = None /\ instanceLease = of
      BY <1>1, <3>1 DEF Holds
    <3>3. QED
      BY <1>1, <3>1, <3>2 DEF Held, StatusInv, Holds, Serving
  <2>2. CASE ~OwnsGeneration
    BY <1>2, <1>6, <2>2 DEF Connected, Settle, Goto
  <2>3. QED
    BY <2>1, <2>2
<1>7. ASSUME pc \in {"acquiring", "connecting"} \/ ~OwnsGeneration, Catch
      PROVE  Held' /\ StatusInv'
  <2>1. CASE OwnsGeneration
    BY <1>1, <1>7, <2>1 DEF Catch, ReleaseInstanceLease, Await, Goto, Held, StatusInv, Holds, Nothing
  <2>2. CASE ~OwnsGeneration
    BY <1>2, <1>7, <2>2 DEF Catch, Settle, Goto
  <2>3. QED
    BY <2>1, <2>2
<1>8. CASE StartupFails
  BY <1>7, <1>8 DEF StartupFails
<1>9. CASE RoomsListed
  BY <1>2, <1>3, <1>9 DEF RoomsListed, Settle, Await, Goto, Advance
<1>10. ASSUME of \in aborted, Throw
       PROVE  Held' /\ StatusInv'
  <2>1. ~OwnsGeneration
    BY <1>10 DEF OwnsGeneration
  <2>2. CASE kind = "start"
    BY <1>7, <1>10, <2>1, <2>2 DEF Throw
  <2>3. CASE kind # "start"
    BY <1>2, <1>10, <2>3 DEF Throw, Settle, Goto
  <2>4. QED
    BY <2>2, <2>3
<1>11. CASE PauseEnds
  BY <1>2, <1>3, <1>10, <1>11 DEF PauseEnds, Settle, Await, Goto
<1>12. CASE RoomRecovered \/ RoomFailed
  BY <1>2, <1>3, <1>12 DEF RoomRecovered, RoomFailed, Settle, Await, Goto, Advance
<1>13. CASE RetryDelayEnds
  BY <1>2, <1>3, <1>10, <1>13 DEF RetryDelayEnds, Settle, Goto
<1>14. CASE Started
  <2>1. /\ status' \in {"running", "starting"} /\ pc' = "none"
        /\ pc = "finishing"
        /\ UNCHANGED <<leaseVars, transportVars, targets, completed>>
    BY <1>1, <1>14 DEF Started, Settle, Goto
  <2>2. Serving /\ targets \subseteq completed
    BY <1>1, <2>1 DEF Holds, Recovery
  <2>3. QED
    BY <1>1, <2>1, <2>2 DEF Held, StatusInv, Holds, Serving, leaseVars, transportVars
<1>15. CASE FailureReported
  <2>1. /\ status' = "idle" /\ pc' = "none" /\ pc = "failing"
        /\ UNCHANGED <<leaseVars, transportVars>>
    BY <1>1, <1>15 DEF FailureReported, Settle, Goto
  <2>2. QED
    BY <1>1, <2>1 DEF Held, StatusInv, Holds, Nothing, leaseVars, transportVars
<1>16. QED
  BY <1>4, <1>5, <1>6, <1>8, <1>9, <1>11, <1>12, <1>13, <1>14, <1>15 DEF Transaction

\* stop() behind its await, when no transaction runs.
LEMMA ProceedOrder ==
  ASSUME Held, StatusInv, NEW p \in Calls, Proceed(p), pc = "none", UNCHANGED <<pc, targets, completed>>
  PROVE  Held' /\ StatusInv'
<1>1. CASE status \in {"starting", "running"}
  BY <1>1, StopSyncLetsGo DEF Proceed, StatusInv
<1>2. CASE status \notin {"starting", "running"}
  BY <1>2 DEF Proceed, Held, StatusInv, Nothing, leaseVars, transportVars
<1>3. QED
  BY <1>1, <1>2

\* A startup begins on an idle store, and leaves any other alone.
LEMMA BeginOrder ==
  ASSUME Held, StatusInv, Begin
  PROVE  Held' /\ StatusInv'
<1>1. CASE status = "idle"
  BY <1>1 DEF Begin, Held, StatusInv, Holds, Nothing, leaseVars, transportVars
<1>2. CASE status # "idle"
  BY <1>2 DEF Begin, Held, StatusInv, Holds, Nothing, Serving, leaseVars, transportVars, txnVars
<1>3. QED
  BY <1>1, <1>2

LEMMA OrderlyStep ==
  ASSUME TypeOK, Underway, Awaited, Recovery, Orderly, ~overtaken', [Next]_vars
  PROVE  Orderly'
<1> SUFFICES Held' /\ StatusInv'
  BY NobodyWipes DEF Held, Orderly
<1>0. Held /\ StatusInv
  BY DEF Held, Orderly
<1>1. CASE UNCHANGED vars
  BY <1>0, <1>1 DEF vars, txnVars, recoveryVars, leaseVars, transportVars, Held, StatusInv, Holds,
     Nothing, Serving
<1>2. CASE Transaction
  BY <1>2, TransactionOrder
<1>3. CASE Begin
  BY <1>0, <1>3, BeginOrder
<1>4. ASSUME NEW G, NEW done, Retry(G, done)
      PROVE  Held' /\ StatusInv'
  <2>1. /\ status = "starting" /\ status' = "starting" /\ running # None
        /\ promise = "none"
        /\ pc' \in {"listing", "attempting", "finishing"}
        /\ UNCHANGED <<leaseVars, transportVars>>
    BY <1>4 DEF Retry, Advance
  <2>2. Serving
    BY <1>0, <2>1 DEF Awaited, StatusInv, Holds
  <2>3. QED
    BY <1>0, <2>1, <2>2 DEF Held, StatusInv, Holds, Serving, leaseVars, transportVars
<1>5. CASE RetryRoomRecovery \/ ResumeAfterRemovingFailedRoom
  BY <1>4, <1>5 DEF RetryRoomRecovery, ResumeAfterRemovingFailedRoom
<1>6. ASSUME NEW p \in Calls, Stop(p)
      PROVE  Held' /\ StatusInv'
  <2>1. CASE promise = "none"
    BY <1>0, <1>6, <2>1, StopFrame, ProceedOrder DEF Awaited, txnVars, recoveryVars
  <2>2. CASE promise # "none"
    BY <1>0, <1>6, <2>2, StopFrame DEF txnVars, recoveryVars, leaseVars, transportVars, Held,
       StatusInv, Holds, Nothing, Serving
  <2>3. QED
    BY <2>1, <2>2
<1>7. ASSUME NEW p \in Calls, DestroyCalled(p), status # "running"
      PROVE  Held' /\ StatusInv'
  <2>1. status = "idle"
    BY <1>7 DEF DestroyCalled
  <2>2. pc = "none" /\ Nothing
    BY <1>0, <2>1 DEF StatusInv
  <2>3. StopSync /\ status' = "idle" /\ UNCHANGED <<pc, targets, completed>>
    BY <1>7, <2>1, <2>2 DEF DestroyCalled, Wipe, Nothing, txnVars
  <2>4. QED
    BY <1>0, <2>2, <2>3, StopSyncLetsGo DEF StatusInv
<1>8. ASSUME NEW p \in Calls, StopCalled(p, "stop") \/ StopCalled(p, "restart") \/ DestroyCalled(p)
      PROVE  Held' /\ StatusInv'
  BY <1>6, <1>7, <1>8 DEF StopCalled, DestroyCalled
<1>9. ASSUME NEW p \in Calls, StopResumes(p)
      PROVE  Held' /\ StatusInv'
  BY <1>0, <1>9, ProceedOrder DEF StopResumes, Awaited, txnVars, recoveryVars
<1>10. ASSUME NEW p \in Calls, Restarts(p)
       PROVE  Held' /\ StatusInv'
  BY <1>0, <1>3, <1>10 DEF Restarts, txnVars, recoveryVars, leaseVars, transportVars, Held,
       StatusInv, Holds, Nothing, Serving
<1>11. ASSUME NEW p \in Calls, StopReleased(p)
       PROVE  Held' /\ StatusInv'
  <2>1. /\ \/ status = "stopping" /\ status' = "idle"
           \/ UNCHANGED status
        /\ UNCHANGED <<txnVars, leaseVars, transportVars>>
        /\ targets' = {} /\ completed' = {}
    BY <1>11 DEF StopReleased
  <2>2. QED
    BY <1>0, <2>1 DEF txnVars, leaseVars, transportVars, Held, StatusInv, Holds, Nothing, Serving
<1>12. ASSUME NEW p \in Calls, Wiped(p)
       PROVE  FALSE
  BY <1>12 DEF Wiped, Orderly
<1>13. QED
  BY <1>1, <1>2, <1>3, <1>5, <1>8, <1>9, <1>10, <1>11, <1>12
     DEF Next, Request, Resumption, Start

-------------------------------------------------------------------------------
(* The theorems.                                                            *)

LEMMA IInvInit == Init => IInv
<1> SUFFICES ASSUME Init PROVE IInv
  OBVIOUS
<1>1. Ownership /\ Awaited /\ Recovery /\ Orderly
  BY DEF Init, Ownership, Awaited, Recovery, Orderly, StatusInv, Nothing, None
<1>2. QED
  BY <1>1, InitType DEF IInv

LEMMA IInvStep == IInv /\ [Next]_vars => IInv'
<1> SUFFICES ASSUME IInv, [Next]_vars PROVE IInv'
  OBVIOUS
<1>1. TypeOK' /\ Bounded' /\ Underway'
  BY BoundedStep, TypeStep DEF IInv
<1>2. Ownership' /\ Awaited' /\ Recovery'
  BY OwnershipStep, AwaitedStep, RecoveryStep DEF IInv
<1>3. overtaken => overtaken'
  <2>1. CASE UNCHANGED intentVars
    BY <2>1 DEF intentVars
  <2>2. CASE ~UNCHANGED intentVars
    <3>1. Request
      BY <2>2, TransactionFrame DEF Next, vars, callVars, Continues, Settle, Resumption,
         StopResumes, Restarts, StopReleased, Wiped
    <3>2. PICK p \in Calls : (\E i \in {"stop", "restart"} : StopCalled(p, i)) \/ DestroyCalled(p)
      BY <2>2, <3>1 DEF Request, Start, RetryRoomRecovery, ResumeAfterRemovingFailedRoom, Retry, callVars
    <3>3. QED
      BY <3>2 DEF StopCalled, DestroyCalled
  <2>3. QED
    BY <2>1, <2>2
<1>4. overtaken' \/ Orderly'
  BY <1>3, OrderlyStep DEF IInv
<1>5. QED
  BY <1>1, <1>2, <1>4 DEF IInv

\* However starts, stops, restarts, retries and destroys interleave, for any number
\* of them and of rooms, the tab serves at most one transport, under the lease it
\* holds, and lets go of no other; unless a destroy overtakes a startup.
THEOREM OneCoordinatorAlways == Spec => []OneCoordinator
<1>1. IInv => OneCoordinator
  BY DEF IInv, Orderly, StatusInv, Holds, Serving, Nothing, OneCoordinator, TypeOK
<1>2. QED
  BY <1>1, IInvInit, IInvStep, PTL DEF Spec

\* A running store serves and every room it listed is restored, an idle store holds
\* nothing: the status never lies, unless a destroy overtakes a startup.
THEOREM StatusIsTrue == Spec => []StatusTellsTheTruth
<1>1. IInv => StatusTellsTheTruth
  BY DEF IInv, Orderly, StatusInv, Serving, Nothing, StatusTellsTheTruth
<1>2. QED
  BY <1>1, IInvInit, IInvStep, PTL DEF Spec

\* A transaction restores rooms, and forgets none it had restored.
LEMMA TransactionKeepsProgress ==
  ASSUME Recovery, Transaction
  PROVE  completed \subseteq completed'
<1>1. CASE RoomsListed
  BY <1>1 DEF RoomsListed, Recovery
<1>2. CASE RoomRecovered
  BY <1>2 DEF RoomRecovered, recoveryVars
<1>3. CASE Transaction /\ ~RoomsListed /\ ~RoomRecovered
  BY <1>3 DEF Transaction, LeaseAcquired, LeaseDropped, Connected, StartupFails, PauseEnds,
     RoomFailed, RetryDelayEnds, Started, FailureReported, recoveryVars
<1>4. QED
  BY <1>1, <1>2, <1>3

\* While a startup goes on, failed attempts, retries and removed rooms included, no
\* room that was restored and is still to be restored is restored again.
THEOREM ProgressIsAlwaysKept == Spec => ProgressIsKept
<1> DEFINE Kept == (status = "starting" /\ status' = "starting" /\ promise' = "pending") =>
                     completed \intersect targets' \subseteq completed'
<1>1. IInv /\ [Next]_vars => [Kept]_vars
  <2> SUFFICES ASSUME IInv, [Next]_vars, status = "starting", status' = "starting",
                      promise' = "pending"
               PROVE  completed \intersect targets' \subseteq completed'
    OBVIOUS
  <2>1. CASE UNCHANGED vars
    BY <2>1 DEF vars, recoveryVars
  <2>2. CASE Transaction
    BY <2>2, TransactionKeepsProgress DEF IInv
  <2>3. CASE Start \/ RetryRoomRecovery \/ ResumeAfterRemovingFailedRoom
    BY <2>3 DEF Start, Begin, RetryRoomRecovery, ResumeAfterRemovingFailedRoom, Retry
  <2>4. ASSUME NEW p \in Calls, (\E i \in {"stop", "restart"} : StopCalled(p, i)) \/ DestroyCalled(p)
        PROVE  completed \intersect targets' \subseteq completed'
    BY <2>4 DEF StopCalled, DestroyCalled, Stop, recoveryVars
  <2>5. ASSUME NEW p \in Calls, Resumption(p)
        PROVE  completed \intersect targets' \subseteq completed'
    BY <2>5 DEF Resumption, StopResumes, Restarts, Begin, StopReleased, Wiped, recoveryVars
  <2>6. QED
    BY <2>1, <2>2, <2>3, <2>4, <2>5 DEF Next, Request
<1>2. QED
  BY <1>1, IInvInit, IInvStep, PTL DEF Spec, ProgressIsKept
===============================================================================
