-------------------------------- MODULE RateLimit --------------------------------
(***************************************************************************)
(* The token buckets in front of the coordinator's tools: every call takes *)
(* a token from the bucket of its caller, and is turned away before its    *)
(* handler runs when there is none.  Tokens are counted in parts, as they  *)
(* come in by fractions.  The clock is Date.now(), which may be set back.  *)
(***************************************************************************)
EXTENDS Integers

CONSTANTS Callers,
          Parts,      \* of a token
          Burst,      \* burst, in tokens
          Refill,     \* refillTokensPerMs: parts that come in per tick
          IdleTtl,    \* idleTtlMs, in which a bucket fills whatever was taken from it
          MaxClock,   \* bound: the clock
          MaxSetBacks \* bound: times it is set back

\* A bucket that is thrown away as idle would be full (160 tokens and an hour, at 500
\* a minute).
ASSUME RateLimitAssumption ==
  /\ {Parts, Burst, Refill, IdleTtl, MaxClock, MaxSetBacks} \subseteq Nat
  /\ Burst * Parts <= IdleTtl * Refill

VARIABLES
  clock,
  buckets,  \* [Callers -> its bucket, or none]
  setBacks,
  \* history of a span of time that may begin anywhere:
  passed,   \* what the clock has moved forward in it
  taken     \* [Callers -> calls that were let through in it]

limitVars == <<clock, buckets, setBacks, passed, taken>>

NoBucket == [tokens |-> 0, lastRefillAt |-> -1, lastSeenAt |-> -1]

LimitInit ==
  /\ clock = 0
  /\ buckets = [c \in Callers |-> NoBucket]
  /\ setBacks = 0
  /\ passed = 0
  /\ taken = [c \in Callers |-> 0]

Least(a, b) == IF a < b THEN a ELSE b

\* evictIdleBuckets
Evicted ==
  [c \in Callers |->
     IF buckets[c] # NoBucket /\ clock - buckets[c].lastSeenAt >= IdleTtl
     THEN NoBucket ELSE buckets[c]]

\* Mutant: what the clock was set back by fills the bucket, too.
ElapsedEitherWay(b) ==
  IF clock >= b.lastRefillAt THEN clock - b.lastRefillAt ELSE b.lastRefillAt - clock

Elapsed(b) == IF clock > b.lastRefillAt THEN clock - b.lastRefillAt ELSE 0

\* The parts in the bucket of a caller.
Available(c) ==
  LET b == Evicted[c] IN
  IF b = NoBucket THEN Burst * Parts
  ELSE Least(Burst * Parts, b.tokens + Elapsed(b) * Refill)

\* assertWithinRateLimit: a caller without a token gets an error.
IsAllowed(c) == Available(c) >= Parts

\* It stands in front of each of the fourteen handlers.
LimitedCall(c) ==
  LET allowed == IsAllowed(c)
      left == Available(c) - (IF allowed THEN Parts ELSE 0)
  IN
  /\ buckets' = [Evicted EXCEPT
       ![c] = [tokens |-> left, lastRefillAt |-> clock, lastSeenAt |-> clock]]
  /\ taken' = [taken EXCEPT ![c] = @ + (IF allowed THEN 1 ELSE 0)]
  /\ UNCHANGED <<clock, setBacks, passed>>

Tick ==
  /\ clock < MaxClock
  /\ clock' = clock + 1
  /\ passed' = passed + 1
  /\ UNCHANGED <<buckets, setBacks, taken>>

SetBack(time) ==
  /\ setBacks < MaxSetBacks
  /\ setBacks' = setBacks + 1
  /\ time < clock
  /\ clock' = time
  /\ UNCHANGED <<buckets, passed, taken>>

\* The span that is looked at begins.
Look ==
  /\ passed' = 0
  /\ taken' = [c \in Callers |-> 0]
  /\ UNCHANGED <<clock, buckets, setBacks>>

LimitNext ==
  \/ \E c \in Callers : LimitedCall(c)
  \/ Tick
  \/ \E time \in 0..MaxClock : SetBack(time)
  \/ Look

LimitSpec == LimitInit /\ [][LimitNext]_limitVars

-------------------------------------------------------------------------------
\* In no span of time is a caller let through more often than the burst and the refill
\* of that time allow, whoever else calls, though idle buckets are thrown away full
\* or not; measured by what the clock moves forward, however it is set back.
NoMoreThanTheRate ==
  \A c \in Callers : taken[c] * Parts <= Burst * Parts + passed * Refill
===============================================================================
