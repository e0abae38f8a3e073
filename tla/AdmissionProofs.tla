---------------------------- MODULE AdmissionProofs ----------------------------
(***************************************************************************)
(* Theorems about what stands between a guest and its admission: the       *)
(* directory of key packages (KeyPackages), of which an ordinary one is    *)
(* handed out once for each publication; the rate limiter (RateLimit),     *)
(* which nobody can call around; the queues (PendingQueues), which keep    *)
(* what was not read; and the signals to a host (JoinSignals), which have  *)
(* brought the welcome when they are answered.                             *)
(***************************************************************************)
EXTENDS MCKeyPackages, SublistProofs, FiniteSetTheorems


-----------------------------------------------------------------------------
(* How often something is in a sequence.                                   *)

PlacesOf(s, e) == {i \in 1..Len(s) : s[i] = e}
Count(s, e) == Cardinality(PlacesOf(s, e))

LEMMA CountType ==
  ASSUME NEW T, NEW s \in Seq(T), NEW e
  PROVE  IsFiniteSet(PlacesOf(s, e)) /\ Count(s, e) \in Nat
<1>1. Len(s) \in Nat
  OBVIOUS
<1>2. IsFiniteSet(1..Len(s))
  BY <1>1, FS_Interval
<1>3. PlacesOf(s, e) \in SUBSET (1..Len(s))
  BY DEF PlacesOf
<1>4. IsFiniteSet(PlacesOf(s, e))
  BY <1>2, <1>3, FS_Subset
<1>5. QED
  BY <1>4, FS_CardinalityType DEF Count

LEMMA CountOfNone ==
  ASSUME NEW T, NEW s \in Seq(T), NEW e, e \notin Elements(s)
  PROVE  Count(s, e) = 0
<1>1. PlacesOf(s, e) = {}
  BY DEF PlacesOf, Elements
<1>2. QED
  BY <1>1, FS_EmptySet DEF Count

LEMMA CountOfSome ==
  ASSUME NEW T, NEW s \in Seq(T), NEW e, e \in Elements(s)
  PROVE  \E k \in PlacesOf(s, e) : \A j \in PlacesOf(s, e) : k <= j
<1>1. PlacesOf(s, e) # {} /\ PlacesOf(s, e) \in SUBSET Nat
  BY DEF PlacesOf, Elements
<1>2. QED
  BY <1>1, LeastNumber

LEMMA CountOfAppend ==
  ASSUME NEW T, NEW s \in Seq(T), NEW x \in T, NEW e
  PROVE  Count(Append(s, x), e) = Count(s, e) + (IF x = e THEN 1 ELSE 0)
<1>1. /\ Len(s) \in Nat /\ Len(Append(s, x)) = Len(s) + 1
      /\ Append(s, x)[Len(s) + 1] = x
      /\ \A i \in 1..Len(s) : Append(s, x)[i] = s[i]
  OBVIOUS
<1>2. 1..(Len(s) + 1) = 1..Len(s) \union {Len(s) + 1} /\ Len(s) + 1 \notin 1..Len(s)
  BY <1>1
<1>3. IsFiniteSet(PlacesOf(s, e)) /\ Count(s, e) \in Nat
  BY CountType
<1>4. CASE x = e
  <2>1. PlacesOf(Append(s, x), e) = PlacesOf(s, e) \union {Len(s) + 1}
        /\ Len(s) + 1 \notin PlacesOf(s, e)
    BY <1>1, <1>2, <1>4 DEF PlacesOf
  <2>2. QED
    BY <1>3, <1>4, <2>1, FS_AddElement DEF Count
<1>5. CASE x # e
  <2>1. PlacesOf(Append(s, x), e) = PlacesOf(s, e)
    BY <1>1, <1>2, <1>5 DEF PlacesOf
  <2>2. QED
    BY <1>3, <1>5, <2>1 DEF Count
<1>6. QED
  BY <1>4, <1>5

\* Only keeps nothing more often than it was.
LEMMA CountOfOnly ==
  ASSUME NEW T, NEW seq \in Seq(T), NEW S, NEW e
  PROVE  Count(Only(seq, S), e) <= Count(seq, e)
<1> DEFINE First(n) == {i \in 1..n : seq[i] = e}
           K == Kept(seq, S)
           G == {n \in 0..Len(seq) : K[n] \in Seq(T) /\ Count(K[n], e) <= Cardinality(First(n))}
<1>0. Len(seq) \in Nat
  OBVIOUS
<1>1. 0 \in G
  <2>1. K[0] = <<>> /\ First(0) = {} /\ <<>> \in Seq(T)
    BY KeptUnfolds DEF Follows
  <2>2. Count(<<>>, e) = 0 /\ Cardinality({}) = 0
    <3>1. e \notin Elements(<<>>)
      BY DEF Elements
    <3>2. QED
      BY <2>1, <3>1, CountOfNone, FS_EmptySet
  <2>3. 0 \in 0..Len(seq)
    BY <1>0
  <2> HIDE DEF K, First
  <2>4. Count(K[0], e) <= Cardinality(First(0))
    BY <2>1, <2>2
  <2>5. QED
    BY <2>1, <2>3, <2>4
<1>2. ASSUME NEW n \in 0..Len(seq), n < Len(seq), n \in G
      PROVE  n + 1 \in G
  <2>1. K[n] \in Seq(T) /\ Count(K[n], e) <= Cardinality(First(n))
    BY <1>2
  <2>2. n + 1 \in 0..Len(seq) /\ n + 1 \in 1..Len(seq) /\ (n + 1) - 1 = n /\ seq[n + 1] \in T
    BY <1>0, <1>2
  <2>3. K[n + 1] = Grown(seq, S, K[n], n + 1)
    BY <2>2, KeptUnfolds DEF Follows
  <2>4. IsFiniteSet(First(n)) /\ Cardinality(First(n)) \in Nat /\ n + 1 \notin First(n)
    <3>1. n \in Nat /\ First(n) \in SUBSET (1..n)
      BY <1>0
    <3>2. IsFiniteSet(1..n)
      BY <3>1, FS_Interval
    <3> HIDE DEF First
    <3>3. n + 1 \notin First(n)
      BY <3>1
    <3>4. QED
      BY <3>1, <3>2, <3>3, FS_Subset, FS_CardinalityType
  <2>5. Cardinality(First(n + 1)) = Cardinality(First(n)) + (IF seq[n + 1] = e THEN 1 ELSE 0)
    <3>1. 1..(n + 1) = 1..n \union {n + 1}
      BY <1>0
    <3>2. CASE seq[n + 1] = e
      <4>1. First(n + 1) = First(n) \union {n + 1}
        BY <3>1, <3>2
      <4> HIDE DEF First
      <4>2. QED
        BY <2>4, <3>2, <4>1, FS_AddElement
    <3>3. CASE seq[n + 1] # e
      <4>1. First(n + 1) = First(n)
        BY <3>1, <3>3
      <4> HIDE DEF First
      <4>2. QED
        BY <2>4, <3>3, <4>1
    <3>4. QED
      BY <3>2, <3>3
  <2>6. Count(K[n], e) \in Nat
    <3> HIDE DEF K
    <3>1. QED
      BY <2>1, CountType
  <2> HIDE DEF K, First
  <2>7. K[n + 1] \in Seq(T) /\ Count(K[n + 1], e) <= Count(K[n], e) + (IF seq[n + 1] = e THEN 1 ELSE 0)
    <3>1. CASE seq[n + 1] \in S
      <4>1. K[n + 1] = Append(K[n], seq[n + 1])
        BY <2>3, <3>1 DEF Grown
      <4>2. Append(K[n], seq[n + 1]) \in Seq(T)
        BY <2>1, <2>2
      <4>3. QED
        BY <2>1, <2>2, <2>6, <4>1, <4>2, CountOfAppend
    <3>2. CASE seq[n + 1] \notin S
      <4>1. K[n + 1] = K[n]
        BY <2>3, <3>2 DEF Grown
      <4>2. QED
        BY <2>1, <2>6, <4>1
    <3>3. QED
      BY <3>1, <3>2
  <2>8. Count(K[n + 1], e) \in Nat
    BY <2>7, CountType
  <2>9. Count(K[n + 1], e) <= Cardinality(First(n + 1))
    BY <2>1, <2>4, <2>5, <2>6, <2>7, <2>8
  <2>10. QED
    BY <2>2, <2>7, <2>9
<1>3. 0..Len(seq) \subseteq G
  <2>1. \A n \in 0..Len(seq) : n < Len(seq) /\ n \in G => n + 1 \in G
    BY <1>2
  <2> HIDE DEF G
  <2>2. 0 \in Int /\ Len(seq) \in Int
    BY <1>0
  <2>3. QED
    BY <1>1, <2>1, <2>2, UpTo
<1>4. Only(seq, S) = K[Len(seq)] /\ Count(seq, e) = Cardinality(First(Len(seq)))
  BY OnlyIsKept DEF Count, PlacesOf
<1>5. Len(seq) \in G
  <2> HIDE DEF G
  <2>1. Len(seq) \in 0..Len(seq)
    BY <1>0
  <2>2. QED
    BY <1>3, <2>1
<1>6. QED
  BY <1>4, <1>5

\* WithoutFirst takes what it is told once, and nothing else.
LEMMA CountOfWithoutFirst ==
  ASSUME NEW T, NEW s \in Seq(T), NEW e \in Elements(s)
  PROVE  /\ WithoutFirst(s, e) \in Seq(T)
         /\ \A x : Count(WithoutFirst(s, e), x) <= Count(s, x)
         /\ Count(WithoutFirst(s, e), e) <= Count(s, e) - 1
<1> DEFINE w == WithoutFirst(s, e)
<1>1. PICK k \in PlacesOf(s, e) : \A j \in PlacesOf(s, e) : k <= j
  BY CountOfSome
<1>2. /\ Len(s) \in Nat /\ k \in 1..Len(s) /\ s[k] = e /\ Len(s) - 1 \in Nat
      /\ \A i \in 1..Len(s) : (\E j \in 1..i : s[j] = e) <=> k <= i
  <2>1. Len(s) \in Nat /\ k \in 1..Len(s) /\ s[k] = e
    BY <1>1 DEF PlacesOf
  <2>2. \A j \in 1..Len(s) : s[j] = e => k <= j
    BY <1>1 DEF PlacesOf
  <2>3. ASSUME NEW i \in 1..Len(s)
        PROVE  (\E j \in 1..i : s[j] = e) <=> k <= i
    BY <2>1, <2>2
  <2>4. QED
    BY <2>1, <2>3
<1>3. /\ Len(w) = Len(s) - 1
      /\ w = [i \in 1..(Len(s) - 1) |-> w[i]]
      /\ \A i \in 1..(Len(s) - 1) : w[i] = IF k <= i THEN s[i + 1] ELSE s[i]
  <2>1. w = [i \in 1..(Len(s) - 1) |-> IF \E j \in 1..i : s[j] = e THEN s[i + 1] ELSE s[i]]
    BY DEF WithoutFirst
  <2>2. \A i \in 1..(Len(s) - 1) : i \in 1..Len(s)
    BY <1>2
  <2> HIDE DEF w
  <2>3. Len(w) = Len(s) - 1
    BY <1>2, <2>1
  <2>4. \A i \in 1..(Len(s) - 1) : w[i] = IF k <= i THEN s[i + 1] ELSE s[i]
    BY <1>2, <2>1, <2>2
  <2>5. w = [i \in 1..(Len(s) - 1) |-> w[i]]
    BY <2>1
  <2>6. QED
    BY <2>3, <2>4, <2>5
<1> HIDE DEF w
<1>4. w \in Seq(T)
  <2>1. \A i \in 1..(Len(s) - 1) : w[i] \in T
    BY <1>2, <1>3
  <2>2. [i \in 1..(Len(s) - 1) |-> w[i]] \in Seq(T)
    BY <1>2, <2>1
  <2>3. QED
    BY <1>3, <2>2
<1>5. ASSUME NEW x
      PROVE  /\ IsFiniteSet(PlacesOf(s, x) \ {k})
             /\ Count(w, x) <= Cardinality(PlacesOf(s, x) \ {k})
             /\ Cardinality(PlacesOf(s, x) \ {k}) =
                  IF x = e THEN Count(s, x) - 1 ELSE Count(s, x)
  <2>1. IsFiniteSet(PlacesOf(s, x))
    BY CountType
  <2>2. k \in PlacesOf(s, x) <=> x = e
    BY <1>2 DEF PlacesOf
  <2>3. /\ IsFiniteSet(PlacesOf(s, x) \ {k})
        /\ Cardinality(PlacesOf(s, x) \ {k}) =
             IF x = e THEN Count(s, x) - 1 ELSE Count(s, x)
    BY <2>1, <2>2, FS_RemoveElement DEF Count
  <2> DEFINE f == [i \in PlacesOf(w, x) |-> IF k <= i THEN i + 1 ELSE i]
  <2>4. ASSUME NEW i \in PlacesOf(w, x)
        PROVE  f[i] \in PlacesOf(s, x) \ {k}
    BY <1>2, <1>3 DEF PlacesOf
  <2>5. ASSUME NEW i \in PlacesOf(w, x), NEW j \in PlacesOf(w, x), f[i] = f[j]
        PROVE  i = j
    BY <1>2, <1>3, <2>5 DEF PlacesOf
  <2>6. f \in Injection(PlacesOf(w, x), PlacesOf(s, x) \ {k})
    <3>1. f \in [PlacesOf(w, x) -> PlacesOf(s, x) \ {k}]
      <4>1. f = [i \in PlacesOf(w, x) |-> f[i]]
        OBVIOUS
      <4> HIDE DEF f
      <4>2. QED
        BY <2>4, <4>1
    <3> HIDE DEF f
    <3>2. QED
      BY <2>5, <3>1 DEF Injection, IsInjective
  <2> HIDE DEF f
  <2>7. QED
    BY <2>3, <2>6, FS_Injection DEF Count
<1>6. ASSUME NEW x
      PROVE  Count(w, x) \in Nat /\ Count(s, x) \in Nat
  BY <1>4, CountType
<1>7. ASSUME NEW x
      PROVE  Count(w, x) <= Count(s, x)
  <2>1. CASE x = e
    <3>1. Cardinality(PlacesOf(s, x) \ {k}) = Count(s, x) - 1
      BY <1>5, <2>1, Zenon
    <3>2. Count(w, x) <= Cardinality(PlacesOf(s, x) \ {k})
      BY <1>5
    <3>3. QED
      BY <1>6, <3>1, <3>2
  <2>2. CASE x # e
    BY <1>5, <1>6, <2>2
  <2>3. QED
    BY <2>1, <2>2
<1>8. Count(w, e) <= Count(s, e) - 1
  BY <1>5
<1>9. QED
  BY <1>4, <1>7, <1>8 DEF w

-----------------------------------------------------------------------------
(* The directory of key packages.                                          *)

\* Who waits for an answer has a package, and no package is published before it is made.
Waiting ==
  /\ \A d \in Devices : phase[d] # "idle" => current[d] \in DOMAIN packages
  /\ \A r \in Refs : calls[r] > 0 => r \in DOMAIN packages

\* The directory has no more of an ordinary package than may be handed out still.
Counted ==
  /\ \A r \in DOMAIN packages : IsOrdinary(r) => unspent[r] >= Count(records, r)
  /\ \A r \in Refs : r \notin DOMAIN packages \/ IsLast(r) => unspent[r] = 0

PackageInv == TypeOK /\ Waiting /\ Counted

\* The packages made so far.
LEMMA Made ==
  ASSUME TypeOK
  PROVE  /\ DOMAIN packages = 1..Len(packages) /\ Len(packages) \in Nat
         /\ MaxPackages \in Nat
         /\ DOMAIN packages \subseteq Refs /\ None \notin DOMAIN packages
         /\ \A r \in DOMAIN packages : packages[r].device \in Devices /\ IsLast(r) \in BOOLEAN
<1>1. /\ packages \in Seq([device : Devices, last : BOOLEAN])
      /\ Len(packages) <= MaxPackages /\ MaxPackages \in Nat
  BY KeyPackageAssumption DEF TypeOK
<1>2. DOMAIN packages = 1..Len(packages) /\ Len(packages) \in Nat
  BY <1>1
<1>3. DOMAIN packages \subseteq Refs /\ None \notin DOMAIN packages
  BY <1>1, <1>2 DEF Refs, None
<1>4. ASSUME NEW r \in DOMAIN packages
      PROVE  packages[r].device \in Devices /\ IsLast(r) \in BOOLEAN
  <2>1. packages[r] \in [device : Devices, last : BOOLEAN]
    <3> DEFINE T == [device : Devices, last : BOOLEAN]
    <3>1. packages \in Seq(T)
      BY <1>1
    <3> HIDE DEF T
    <3>2. packages[r] \in T
      BY <1>2, <3>1
    <3>3. QED
      BY <3>2 DEF T
  <2>2. QED
    BY <2>1 DEF IsLast
<1>5. QED
  BY <1>1, <1>2, <1>3, <1>4

LEMMA Ordinaries ==
  ASSUME TypeOK
  PROVE  /\ Ordinary \in Seq(DOMAIN packages)
         /\ Elements(Ordinary) \subseteq Elements(records)
         /\ \A r \in Elements(Ordinary) : IsOrdinary(r)
         /\ \A x : Count(Ordinary, x) <= Count(records, x)
<1>1. records \in Seq(DOMAIN packages)
  BY DEF TypeOK
<1>2. QED
  BY <1>1, OnlyKeeps, CountOfOnly DEF Ordinary

\* What stays when no package is made.
LEMMA SameTypes ==
  ASSUME TypeOK, UNCHANGED packages,
         records' \in Seq(DOMAIN packages),
         quota' \in Quotas,
         request' \in [ref : {None} \union DOMAIN packages, read : BOOLEAN],
         calls' \in [Refs -> 0..MaxTries],
         phase' \in [Devices -> {"idle", "publishing", "requesting"}],
         current' \in [Devices -> {None} \union DOMAIN packages],
         stored' \in [Devices -> {None} \union DOMAIN packages],
         \A d \in Devices : stored'[d] # None => IsLast(stored'[d]),
         tries' \in [Devices -> 0..MaxTries],
         taking' \in {None} \union DOMAIN packages,
         restarts' \in 0..MaxRestarts,
         unspent' \in [Refs -> Int]
  PROVE  TypeOK'
BY DEF TypeOK, IsLast, Refs, None

\* What the parts of TypeOK are, for the variables that an action leaves alone.
LEMMA Types ==
  ASSUME TypeOK
  PROVE  /\ packages \in Seq([device : Devices, last : BOOLEAN])
         /\ Len(packages) <= MaxPackages
         /\ records \in Seq(DOMAIN packages)
         /\ quota \in Quotas
         /\ request \in [ref : {None} \union DOMAIN packages, read : BOOLEAN]
         /\ calls \in [Refs -> 0..MaxTries]
         /\ phase \in [Devices -> {"idle", "publishing", "requesting"}]
         /\ current \in [Devices -> {None} \union DOMAIN packages]
         /\ stored \in [Devices -> {None} \union DOMAIN packages]
         /\ \A d \in Devices : stored[d] # None => IsLast(stored[d])
         /\ tries \in [Devices -> 0..MaxTries]
         /\ taking \in {None} \union DOMAIN packages
         /\ restarts \in 0..MaxRestarts
         /\ unspent \in [Refs -> Int]
         /\ MaxTries \in Nat \ {0}
BY KeyPackageAssumption DEF TypeOK

LEMMA CountedStays ==
  ASSUME Counted, UNCHANGED <<packages, records, unspent>>
  PROVE  Counted'
BY DEF Counted, IsOrdinary, IsLast, Refs, Count, PlacesOf

LEMMA WaitingStays ==
  ASSUME Waiting, UNCHANGED packages,
         \A d \in Devices : phase'[d] # "idle" => phase[d] # "idle" /\ current'[d] = current[d],
         \A r \in Refs : calls'[r] > 0 => calls[r] > 0
  PROVE  Waiting'
BY DEF Waiting, Refs

\* No more of any ordinary package is there, or more may be handed out as well.
LEMMA CountedFollows ==
  ASSUME TypeOK, Counted, UNCHANGED packages, unspent' \in [Refs -> Int],
         \A r \in DOMAIN packages :
           IsOrdinary(r) =>
             Count(records', r) - Count(records, r) <= unspent'[r] - unspent[r],
         \A r \in DOMAIN packages : IsOrdinary(r) => Count(records', r) \in Nat,
         \A r \in Refs : r \notin DOMAIN packages \/ IsLast(r) => unspent'[r] = unspent[r]
  PROVE  Counted'
<1>1. ASSUME NEW r \in DOMAIN packages, IsOrdinary(r)
      PROVE  unspent'[r] >= Count(records', r)
  <2>1. /\ unspent[r] >= Count(records, r) /\ r \in Refs
        /\ Count(records', r) - Count(records, r) <= unspent'[r] - unspent[r]
        /\ Count(records', r) \in Nat
    BY <1>1, Made DEF Counted
  <2>2. Count(records, r) \in Nat /\ unspent[r] \in Int /\ unspent'[r] \in Int
    BY <2>1, CountType, Types
  <2>3. QED
    BY <2>1, <2>2
<1>2. ASSUME NEW r \in Refs, r \notin DOMAIN packages \/ IsLast(r)
      PROVE  unspent'[r] = 0
  BY <1>2 DEF Counted
<1>3. /\ \A r \in DOMAIN packages' : ~(packages'[r].last) => unspent'[r] >= Count(records', r)
      /\ \A r \in Refs : r \notin DOMAIN packages' \/ packages'[r].last => unspent'[r] = 0
  BY <1>1, <1>2 DEF IsOrdinary, IsLast
<1>4. QED
  BY <1>3 DEF Counted, IsOrdinary, IsLast, Count, PlacesOf, Refs

LEMMA SentTypes ==
  ASSUME TypeOK, NEW r \in DOMAIN packages
  PROVE  /\ Sent(r) \in [Refs -> 0..MaxTries]
         /\ \A q \in Refs : Sent(r)[q] > 0 => calls[q] > 0 \/ q = r
<1>1. r \in Refs /\ calls \in [Refs -> 0..MaxTries] /\ MaxTries \in Nat
  BY Made, Types
<1>2. QED
  BY <1>1 DEF Sent

-----------------------------------------------------------------------------

LEMMA PackagesInitially == Init => PackageInv
<1> SUFFICES ASSUME Init PROVE PackageInv
  OBVIOUS
<1>1. packages = <<>> /\ records = <<>> /\ DOMAIN packages = {} /\ Len(packages) = 0
  BY DEF Init
<1>2. TypeOK
  <2>1. MaxPackages \in Nat /\ MaxTries \in Nat /\ MaxRestarts \in Nat
    BY KeyPackageAssumption
  <2>2. packages \in Seq([device : Devices, last : BOOLEAN]) /\ Len(packages) <= MaxPackages
        /\ records \in Seq(DOMAIN packages)
    BY <1>1, <2>1
  <2>3. request \in [ref : {None} \union DOMAIN packages, read : BOOLEAN]
    BY DEF Init, NoRequest
  <2>4. calls \in [Refs -> 0..MaxTries] /\ unspent \in [Refs -> Int]
        /\ tries \in [Devices -> 0..MaxTries] /\ restarts \in 0..MaxRestarts
    BY <2>1 DEF Init
  <2>5. QED
    BY <2>2, <2>3, <2>4 DEF TypeOK, Init
<1>3. Waiting
  BY DEF Waiting, Init
<1>4. Counted
  BY <1>1 DEF Counted, Init
<1>5. QED
  BY <1>2, <1>3, <1>4 DEF PackageInv

LEMMA CallTypes ==
  ASSUME TypeOK, NEW d \in Devices, NEW r, Call(d, r)
  PROVE  /\ phase' = [phase EXCEPT ![d] = "publishing"]
         /\ phase' \in [Devices -> {"idle", "publishing", "requesting"}]
         /\ current' = [current EXCEPT ![d] = r]
         /\ tries' \in [Devices -> 0..MaxTries]
         /\ calls' = Sent(r)
BY Types DEF Call

LEMMA JoinKeeps ==
  ASSUME PackageInv, NEW d \in Devices, NEW last \in BOOLEAN, Join(d, last)
  PROVE  PackageInv'
<1> DEFINE n == Len(packages) + 1
<1>1. TypeOK /\ Waiting /\ Counted
  BY DEF PackageInv
<1>2. /\ packages' = Append(packages, [device |-> d, last |-> last])
      /\ Len(packages) < MaxPackages
      /\ UNCHANGED <<records, quota, request, stored, taking, restarts, unspent>>
  BY DEF Join, coordinatorVars
<1>3. /\ packages' \in Seq([device : Devices, last : BOOLEAN])
      /\ Len(packages') = n /\ Len(packages) \in Nat
      /\ DOMAIN packages = 1..Len(packages) /\ DOMAIN packages' = 1..n
      /\ \A r \in 1..Len(packages) : packages'[r] = packages[r]
  <2>1. [device |-> d, last |-> last] \in [device : Devices, last : BOOLEAN]
    OBVIOUS
  <2>2. QED
    BY <1>1, <1>2, <2>1, Types
<1>4. n \in Refs /\ DOMAIN packages' = DOMAIN packages \union {n} /\ n \notin DOMAIN packages
      /\ DOMAIN packages \subseteq Refs /\ Len(packages') <= MaxPackages
  BY <1>1, <1>2, <1>3, Made DEF Refs
<1>5. \A r \in DOMAIN packages : IsLast(r)' = IsLast(r)
  BY <1>3 DEF IsLast
<1>6. /\ phase' = [phase EXCEPT ![d] = "publishing"]
      /\ phase' \in [Devices -> {"idle", "publishing", "requesting"}]
      /\ current' = [current EXCEPT ![d] = n]
      /\ tries' \in [Devices -> 0..MaxTries]
      /\ calls' = Sent(n)
  <2>1. Call(d, n)
    BY <1>3 DEF Join
  <2>2. QED
    BY <1>1, <2>1, CallTypes
<1>7. calls' \in [Refs -> 0..MaxTries] /\ \A q \in Refs : calls'[q] > 0 => calls[q] > 0 \/ q = n
  BY <1>1, <1>4, <1>6, Types DEF Sent
<1> HIDE DEF n
<1>8. /\ current' \in [Devices -> {None} \union DOMAIN packages']
      /\ \A e \in Devices : e # d => current'[e] = current[e]
      /\ current'[d] = n
  BY <1>1, <1>4, <1>6, Types
<1>9. TypeOK'
  <2>1. records' \in Seq(DOMAIN packages')
    <3>1. Seq(DOMAIN packages) \subseteq Seq(DOMAIN packages')
      BY <1>4
    <3>2. QED
      BY <1>1, <1>2, <3>1, Types
  <2>2. request' \in [ref : {None} \union DOMAIN packages', read : BOOLEAN]
    BY <1>1, <1>2, <1>4, Types
  <2>3. stored' \in [Devices -> {None} \union DOMAIN packages']
        /\ \A e \in Devices : stored'[e] # None => packages'[stored'[e]].last
    <3>1. stored' = stored /\ stored \in [Devices -> {None} \union DOMAIN packages]
          /\ \A e \in Devices : stored[e] # None => IsLast(stored[e])
      BY <1>1, <1>2, Types
    <3>2. \A r \in DOMAIN packages : IsLast(r) => packages'[r].last
      BY <1>5 DEF IsLast
    <3>3. \A e \in Devices : stored[e] # None => stored[e] \in DOMAIN packages
      BY <3>1
    <3>4. stored \in [Devices -> {None} \union DOMAIN packages']
      BY <1>4, <3>1
    <3>5. QED
      BY <3>1, <3>2, <3>3, <3>4
  <2>4. taking' \in {None} \union DOMAIN packages'
    BY <1>1, <1>2, <1>4, Types
  <2>5. QED
    BY <1>1, <1>2, <1>3, <1>4, <1>6, <1>7, <1>8, <2>1, <2>2, <2>3, <2>4, Types
       DEF TypeOK, Refs, None, IsLast
<1>10. Waiting'
  <2>1. \A e \in Devices : phase'[e] # "idle" => current'[e] \in DOMAIN packages'
    BY <1>1, <1>4, <1>6, <1>8, Types DEF Waiting
  <2>2. \A r \in Refs : calls'[r] > 0 => r \in DOMAIN packages'
    BY <1>1, <1>4, <1>7 DEF Waiting
  <2>3. QED
    BY <2>1, <2>2 DEF Waiting, Refs
<1>11. Counted'
  <2>1. Count(records, n) = 0 /\ unspent[n] = 0
    <3>1. n \notin Elements(records) /\ records \in Seq(DOMAIN packages)
      <4>1. records \in Seq(DOMAIN packages) /\ n \notin DOMAIN packages
        BY <1>1, <1>4, Types
      <4> HIDE DEF n
      <4>2. QED
        BY <4>1 DEF Elements
    <3>2. Count(records, n) = 0
      BY <3>1, CountOfNone
    <3>3. QED
      BY <1>1, <1>4, <3>2 DEF Counted
  <2>2. ASSUME NEW r \in DOMAIN packages', ~IsLast(r)'
        PROVE  unspent[r] >= Count(records, r)
    <3>1. CASE r = n
      BY <2>1, <3>1
    <3>2. CASE r # n
      BY <1>1, <1>4, <1>5, <2>2, <3>2 DEF Counted, IsOrdinary
    <3>3. QED
      BY <3>1, <3>2
  <2>3. ASSUME NEW r \in Refs, r \notin DOMAIN packages' \/ IsLast(r)'
        PROVE  unspent[r] = 0
    <3>1. CASE r = n
      BY <2>1, <3>1
    <3>2. CASE r # n
      BY <1>1, <1>4, <1>5, <2>3, <3>2 DEF Counted
    <3>3. QED
      BY <3>1, <3>2
  <2>4. QED
    BY <1>2, <2>2, <2>3 DEF Counted, IsOrdinary, Count, PlacesOf, Refs
<1>12. QED
  BY <1>9, <1>10, <1>11 DEF PackageInv

LEMMA JoinAgainKeeps ==
  ASSUME PackageInv, NEW d \in Devices, JoinAgain(d)
  PROVE  PackageInv'
<1>1. TypeOK /\ Waiting /\ Counted
  BY DEF PackageInv
<1>2. /\ UNCHANGED <<packages, records, quota, request, stored, taking, restarts, unspent>>
      /\ Call(d, stored[d])
      /\ stored[d] \in DOMAIN packages
  BY <1>1, Types DEF JoinAgain, coordinatorVars
<1>3. /\ phase' = [phase EXCEPT ![d] = "publishing"]
      /\ phase' \in [Devices -> {"idle", "publishing", "requesting"}]
      /\ current' = [current EXCEPT ![d] = stored[d]]
      /\ tries' \in [Devices -> 0..MaxTries]
      /\ calls' = Sent(stored[d])
  BY <1>1, <1>2, CallTypes
<1>4. calls' \in [Refs -> 0..MaxTries]
      /\ \A q \in Refs : calls'[q] > 0 => calls[q] > 0 \/ q = stored[d]
  BY <1>1, <1>2, <1>3, SentTypes
<1>5. /\ current' \in [Devices -> {None} \union DOMAIN packages]
      /\ \A e \in Devices : e # d => current'[e] = current[e]
      /\ current'[d] = stored[d]
  BY <1>1, <1>2, <1>3, Types
<1>6. TypeOK'
  BY <1>1, <1>2, <1>3, <1>4, <1>5, Types, SameTypes
<1>7. Waiting'
  <2>1. \A e \in Devices : phase'[e] # "idle" => current'[e] \in DOMAIN packages
    BY <1>1, <1>2, <1>3, <1>5, Types DEF Waiting
  <2>2. \A r \in Refs : calls'[r] > 0 => r \in DOMAIN packages
    BY <1>1, <1>2, <1>4 DEF Waiting
  <2>3. QED
    BY <1>2, <2>1, <2>2 DEF Waiting, Refs
<1>8. QED
  BY <1>1, <1>2, <1>6, <1>7, CountedStays DEF PackageInv

LEMMA HandleRequestKeeps ==
  ASSUME PackageInv, NEW d \in Devices, NEW heard \in BOOLEAN, HandleRequest(d, heard)
  PROVE  PackageInv'
<1>1. TypeOK /\ Waiting /\ Counted
  BY DEF PackageInv
<1>2. /\ UNCHANGED <<packages, records, quota, calls, current, tries, taking, restarts, unspent>>
      /\ request' = [ref |-> current[d], read |-> FALSE]
      /\ \/ UNCHANGED <<phase, stored>>
         \/ /\ phase' = [phase EXCEPT ![d] = "idle"]
            /\ stored' = [stored EXCEPT ![d] = KeptForRooms(d)]
      /\ current[d] \in DOMAIN packages
  BY <1>1 DEF HandleRequest, Waiting
<1>3. request' \in [ref : {None} \union DOMAIN packages, read : BOOLEAN]
  BY <1>2
<1>4. /\ phase' \in [Devices -> {"idle", "publishing", "requesting"}]
      /\ \A e \in Devices : phase'[e] # "idle" => phase[e] # "idle"
  BY <1>1, <1>2, Types
<1>5. /\ KeptForRooms(d) \in {None} \union DOMAIN packages
      /\ KeptForRooms(d) # None => IsLast(KeptForRooms(d))
  BY <1>1, <1>2, Types DEF KeptForRooms
<1>6. /\ stored' \in [Devices -> {None} \union DOMAIN packages]
      /\ \A e \in Devices : stored'[e] # None => IsLast(stored'[e])
  <2>1. stored \in [Devices -> {None} \union DOMAIN packages]
        /\ \A e \in Devices : stored[e] # None => IsLast(stored[e])
    BY <1>1, Types
  <2>2. CASE stored' = stored
    BY <2>1, <2>2
  <2>3. CASE stored' = [stored EXCEPT ![d] = KeptForRooms(d)]
    <3>1. stored' \in [Devices -> {None} \union DOMAIN packages]
          /\ stored'[d] = KeptForRooms(d)
          /\ \A e \in Devices : e # d => stored'[e] = stored[e]
      BY <1>5, <2>1, <2>3
    <3>2. ASSUME NEW e \in Devices, stored'[e] # None
          PROVE  IsLast(stored'[e])
      <4>1. CASE e = d
        BY <1>5, <3>1, <3>2, <4>1
      <4>2. CASE e # d
        BY <2>1, <3>1, <3>2, <4>2
      <4>3. QED
        BY <4>1, <4>2
    <3>3. QED
      BY <3>1, <3>2
  <2>4. QED
    BY <1>2, <2>2, <2>3
<1>7. TypeOK'
  BY <1>1, <1>2, <1>3, <1>4, <1>6, Types, SameTypes
<1>8. QED
  BY <1>1, <1>2, <1>4, <1>7, CountedStays, WaitingStays DEF PackageInv

LEMMA RetryKeeps ==
  ASSUME PackageInv, NEW d \in Devices, Retry(d)
  PROVE  PackageInv'
<1>1. TypeOK /\ Waiting /\ Counted
  BY DEF PackageInv
<1>2. /\ UNCHANGED <<packages, records, quota, request, current, stored, taking, restarts, unspent>>
      /\ phase[d] # "idle"
  BY DEF Retry, coordinatorVars
<1>3. current[d] \in DOMAIN packages
  BY <1>1, <1>2 DEF Waiting
<1>4. tries' \in [Devices -> 0..MaxTries]
  <2>1. tries \in [Devices -> 0..MaxTries] /\ MaxTries \in Nat /\ tries[d] \in 0..MaxTries
    BY <1>1, Types
  <2>2. CASE tries[d] < MaxTries
    <3>1. tries' = [tries EXCEPT ![d] = @ + 1] /\ tries[d] + 1 \in 0..MaxTries
      BY <2>1, <2>2 DEF Retry
    <3>2. QED
      BY <2>1, <3>1
  <2>3. CASE ~(tries[d] < MaxTries)
    BY <2>1, <2>3 DEF Retry
  <2>4. QED
    BY <2>2, <2>3
<1>5. calls' \in [Refs -> 0..MaxTries]
      /\ \A q \in Refs : calls'[q] > 0 => calls[q] > 0 \/ q = current[d]
  <2>1. calls' = calls \/ calls' = Sent(current[d])
    BY DEF Retry
  <2>2. /\ Sent(current[d]) \in [Refs -> 0..MaxTries]
        /\ \A q \in Refs : Sent(current[d])[q] > 0 => calls[q] > 0 \/ q = current[d]
    BY <1>1, <1>3, SentTypes
  <2>3. calls \in [Refs -> 0..MaxTries]
    BY <1>1, Types
  <2> HIDE DEF Sent
  <2>4. QED
    BY <2>1, <2>2, <2>3
<1>6. phase' \in [Devices -> {"idle", "publishing", "requesting"}]
      /\ \A e \in Devices : phase'[e] # "idle" => phase[e] # "idle"
  BY <1>1, Types DEF Retry
<1>7. TypeOK'
  BY <1>1, <1>2, <1>4, <1>5, <1>6, Types, SameTypes
<1>8. Waiting'
  BY <1>1, <1>2, <1>3, <1>5, <1>6 DEF Waiting, Refs
<1>9. QED
  BY <1>1, <1>2, <1>7, <1>8, CountedStays DEF PackageInv

LEMMA HandlePublishKeeps ==
  ASSUME PackageInv, NEW r \in Refs, NEW heard \in BOOLEAN, HandlePublish(r, heard)
  PROVE  PackageInv'
<1>1. TypeOK /\ Waiting /\ Counted
  BY DEF PackageInv
<1>2. PICK accepted \in BOOLEAN :
        /\ Publish(r, accepted)
        /\ LET d == packages[r].device IN
             \/ /\ phase[d] = "publishing"
                /\ phase' = [phase EXCEPT ![d] = "requesting"]
                /\ tries' = [tries EXCEPT ![d] = 1]
             \/ UNCHANGED <<phase, tries>>
  BY DEF HandlePublish
<1>3. /\ calls[r] > 0
      /\ calls' = [calls EXCEPT ![r] = @ - 1]
      /\ UNCHANGED <<quota, request, packages, current, stored, taking, restarts>>
  BY DEF HandlePublish
<1>4. r \in DOMAIN packages /\ packages[r].device \in Devices /\ IsLast(r) \in BOOLEAN
  BY <1>1, <1>3, Made DEF Waiting
<1>5. calls' \in [Refs -> 0..MaxTries] /\ \A q \in Refs : calls'[q] > 0 => calls[q] > 0
  BY <1>1, <1>3, Types
<1>6. /\ phase' \in [Devices -> {"idle", "publishing", "requesting"}]
      /\ \A e \in Devices : phase'[e] # "idle" => phase[e] # "idle"
      /\ tries' \in [Devices -> 0..MaxTries]
  <2>1. /\ phase \in [Devices -> {"idle", "publishing", "requesting"}]
        /\ tries \in [Devices -> 0..MaxTries]
        /\ 1 \in 0..MaxTries
    BY <1>1, Types
  <2>2. CASE UNCHANGED <<phase, tries>>
    BY <2>1, <2>2
  <2>3. CASE ~UNCHANGED <<phase, tries>>
    <3>1. PICK d \in Devices : /\ phase[d] = "publishing"
                               /\ phase' = [phase EXCEPT ![d] = "requesting"]
                               /\ tries' = [tries EXCEPT ![d] = 1]
      BY <1>2, <1>4, <2>3
    <3>2. QED
      BY <2>1, <3>1
  <2>4. QED
    BY <2>2, <2>3
<1>7. /\ MadeRoom(r) \in Seq(DOMAIN packages)
      /\ \A x : Count(MadeRoom(r), x) <= Count(records, x)
      /\ \A x : Count(records, x) \in Nat /\ Count(MadeRoom(r), x) \in Nat
  <2>1. /\ MadeRoom(r) \in Seq(DOMAIN packages) /\ records \in Seq(DOMAIN packages)
        /\ MadeRoom(r) = records \/ \A x : Count(MadeRoom(r), x) <= Count(records, x)
    BY <1>1, Types, Ordinaries DEF MadeRoom
  <2>2. \A x : Count(records, x) \in Nat /\ Count(MadeRoom(r), x) \in Nat
    BY <2>1, CountType
  <2>3. QED
    BY <2>1, <2>2
<1>8. /\ records' \in Seq(DOMAIN packages)
      /\ unspent' \in [Refs -> Int]
      /\ \A x \in DOMAIN packages :
           IsOrdinary(x) =>
             Count(records', x) - Count(records, x) <= unspent'[x] - unspent[x]
      /\ \A x \in Refs : x \notin DOMAIN packages \/ IsLast(x) => unspent'[x] = unspent[x]
  <2>0. unspent \in [Refs -> Int] /\ DOMAIN packages \subseteq Refs
    BY <1>1, Types, Made
  <2>1. CASE accepted
    <3>1. records' = Append(MadeRoom(r), r)
          /\ unspent' = IF IsLast(r) THEN unspent ELSE [unspent EXCEPT ![r] = @ + 1]
      BY <1>2, <2>1 DEF Publish, Published, Entitle
    <3>2. records' \in Seq(DOMAIN packages)
      BY <1>4, <1>7, <3>1
    <3>3. unspent' \in [Refs -> Int]
      BY <2>0, <3>1
    <3>4. ASSUME NEW x \in DOMAIN packages, IsOrdinary(x)
          PROVE  Count(records', x) - Count(records, x) <= unspent'[x] - unspent[x]
      <4>1. Count(records', x) = Count(MadeRoom(r), x) + (IF r = x THEN 1 ELSE 0)
        BY <1>4, <1>7, <3>1, CountOfAppend
      <4>2. /\ Count(MadeRoom(r), x) \in Nat /\ Count(records, x) \in Nat
            /\ Count(MadeRoom(r), x) <= Count(records, x) /\ unspent[x] \in Int
        BY <1>7, <2>0
      <4>3. unspent'[x] = unspent[x] + (IF r = x THEN 1 ELSE 0)
        <5>1. CASE r = x
          BY <2>0, <3>1, <3>4, <5>1 DEF IsOrdinary
        <5>2. CASE r # x
          BY <2>0, <3>1, <4>2, <5>2
        <5>3. QED
          BY <5>1, <5>2
      <4>4. QED
        BY <4>1, <4>2, <4>3
    <3>5. \A x \in Refs : x \notin DOMAIN packages \/ IsLast(x) => unspent'[x] = unspent[x]
      BY <1>4, <2>0, <3>1
    <3>6. QED
      BY <3>2, <3>3, <3>4, <3>5
  <2>2. CASE ~accepted
    <3>1. records' = MadeRoom(r)
      BY <1>2, <2>2 DEF Publish
    <3>2. unspent' = unspent
      <4>1. unspent' = IF IsLast(r) THEN unspent ELSE [unspent EXCEPT ![r] = @ + 0]
        BY <1>2, <2>2 DEF Publish, Entitle
      <4>2. unspent[r] + 0 = unspent[r] /\ [unspent EXCEPT ![r] = @] = unspent
        BY <2>0
      <4>3. QED
        BY <2>0, <4>1, <4>2
    <3>3. ASSUME NEW x \in DOMAIN packages
          PROVE  Count(records', x) - Count(records, x) <= unspent'[x] - unspent[x]
      <4>1. /\ Count(MadeRoom(r), x) \in Nat /\ Count(records, x) \in Nat
            /\ Count(MadeRoom(r), x) <= Count(records, x) /\ unspent[x] \in Int
        BY <1>7, <2>0
      <4>2. QED
        BY <3>1, <3>2, <4>1
    <3>4. QED
      BY <1>7, <2>0, <3>1, <3>2, <3>3
  <2>3. QED
    BY <2>1, <2>2
<1>9. TypeOK'
  BY <1>1, <1>3, <1>5, <1>6, <1>8, Types, SameTypes
<1>10. Waiting'
  BY <1>1, <1>3, <1>5, <1>6, WaitingStays
<1>11. Counted'
  <2>1. \A x \in DOMAIN packages : IsOrdinary(x) => Count(records', x) \in Nat
    BY <1>8, CountType
  <2>2. QED
    BY <1>1, <1>3, <1>8, <2>1, CountedFollows
<1>12. QED
  BY <1>9, <1>10, <1>11 DEF PackageInv

LEMMA RemoveKeeps ==
  ASSUME PackageInv, NEW r \in Refs, RemoveKeyPackage(r)
  PROVE  PackageInv'
<1>1. TypeOK /\ Waiting /\ Counted
  BY DEF PackageInv
<1>2. /\ r \in Elements(records) /\ records' = WithoutFirst(records, r)
      /\ UNCHANGED <<packages, quota, request, phase, current, stored, tries, calls, taking,
                     restarts, unspent>>
  BY DEF RemoveKeyPackage, deviceVars
<1>3. records \in Seq(DOMAIN packages)
  BY <1>1, Types
<1>4. records' \in Seq(DOMAIN packages) /\ \A x : Count(records', x) <= Count(records, x)
  BY <1>2, <1>3, CountOfWithoutFirst
<1>5. TypeOK'
  BY <1>1, <1>2, <1>4, Types, SameTypes
<1>6. Waiting'
  BY <1>1, <1>2, WaitingStays
<1>7. \A x \in DOMAIN packages :
        /\ Count(records', x) \in Nat
        /\ Count(records', x) - Count(records, x) <= unspent'[x] - unspent[x]
  <2>1. ASSUME NEW x \in DOMAIN packages
        PROVE  /\ Count(records', x) \in Nat
               /\ Count(records', x) - Count(records, x) <= unspent'[x] - unspent[x]
    <3>1. /\ Count(records', x) \in Nat /\ Count(records, x) \in Nat
          /\ Count(records', x) <= Count(records, x)
      BY <1>3, <1>4, CountType
    <3>2. unspent[x] \in Int /\ unspent'[x] = unspent[x]
      BY <1>1, <1>2, Types, Made
    <3>3. QED
      BY <3>1, <3>2
  <2>2. QED
    BY <2>1
<1>8. unspent' \in [Refs -> Int] /\ unspent' = unspent
  BY <1>1, <1>2, Types
<1>9. Counted'
  BY <1>1, <1>2, <1>7, <1>8, CountedFollows
<1>10. QED
  BY <1>5, <1>6, <1>9 DEF PackageInv

LEMMA FetchRequestKeeps ==
  ASSUME PackageInv, FetchRequest
  PROVE  PackageInv'
<1>1. TypeOK /\ Waiting /\ Counted
  BY DEF PackageInv
<1>2. /\ taking' = request.ref
      /\ request' = [request EXCEPT !.read = TRUE]
      /\ UNCHANGED <<packages, records, quota, phase, current, stored, tries, calls, restarts,
                     unspent>>
  BY DEF FetchRequest, deviceVars
<1>3. request' \in [ref : {None} \union DOMAIN packages, read : BOOLEAN]
      /\ taking' \in {None} \union DOMAIN packages
  BY <1>1, <1>2, Types
<1>4. TypeOK'
  BY <1>1, <1>2, <1>3, Types, SameTypes
<1>5. QED
  BY <1>1, <1>2, <1>4, CountedStays, WaitingStays DEF PackageInv

\* What is handed out is there.
LEMMA ConsumedIsThere ==
  ASSUME TypeOK, taking # None, records # <<>>
  PROVE  Consumed(taking) \in Elements(records)
<1>1. records \in Seq(DOMAIN packages) /\ Len(records) \in 1..Len(records)
  BY Types
<1>2. CASE taking \in Elements(records)
  BY <1>2 DEF Consumed
<1>3. CASE taking \notin Elements(records) /\ Ordinary # <<>>
  <2>1. Ordinary \in Seq(DOMAIN packages) /\ Elements(Ordinary) \subseteq Elements(records)
    BY Ordinaries
  <2>2. 1 \in 1..Len(Ordinary) /\ Head(Ordinary) = Ordinary[1]
    BY <1>3, <2>1
  <2>3. Head(Ordinary) \in Elements(Ordinary)
    BY <2>2 DEF Elements
  <2>4. QED
    BY <1>3, <2>1, <2>3 DEF Consumed
<1>4. CASE taking \notin Elements(records) /\ Ordinary = <<>>
  BY <1>1, <1>4 DEF Consumed, Elements
<1>5. QED
  BY <1>2, <1>3, <1>4

LEMMA NoRequestType == NoRequest \in [ref : {None} \union DOMAIN packages, read : BOOLEAN]
BY DEF NoRequest

LEMMA AdmitKeeps ==
  ASSUME PackageInv, NEW heard \in BOOLEAN, Admit(heard)
  PROVE  PackageInv'
<1>1. TypeOK /\ Waiting /\ Counted
  BY DEF PackageInv
<1>2. /\ taking # None /\ taking' = None
      /\ request' \in {request, NoRequest}
      /\ UNCHANGED <<packages, quota, phase, current, stored, tries, calls, restarts>>
  BY DEF Admit, deviceVars
<1>3. request' \in [ref : {None} \union DOMAIN packages, read : BOOLEAN]
  BY <1>1, <1>2, NoRequestType, Types
<1>4. Waiting'
  BY <1>1, <1>2, WaitingStays
<1>5. CASE records = <<>>
  <2>1. UNCHANGED <<records, unspent>>
    BY <1>5 DEF Admit
  <2>2. TypeOK'
    BY <1>1, <1>2, <1>3, <2>1, Types, SameTypes
  <2>3. QED
    BY <1>1, <1>2, <1>4, <2>1, <2>2, CountedStays DEF PackageInv
<1>6. CASE records # <<>>
  <2> DEFINE r == Consumed(taking)
  <2>1. records' = AfterConsuming(r) /\ Entitle(r, -1)
    BY <1>6 DEF Admit
  <2>2. r \in Elements(records)
    BY <1>1, <1>2, <1>6, ConsumedIsThere
  <2> HIDE DEF r
  <2>3. records \in Seq(DOMAIN packages) /\ r \in DOMAIN packages /\ r \in Refs
        /\ unspent \in [Refs -> Int] /\ DOMAIN packages \subseteq Refs
    <3>1. records \in Seq(DOMAIN packages) /\ unspent \in [Refs -> Int]
          /\ DOMAIN packages \subseteq Refs
      BY <1>1, Types, Made
    <3>2. r \in DOMAIN packages
      BY <2>2, <3>1 DEF Elements
    <3>3. QED
      BY <3>1, <3>2
  <2>4. CASE IsLast(r)
    <3>1. UNCHANGED <<records, unspent>>
      BY <2>1, <2>4 DEF AfterConsuming, Entitle
    <3>2. TypeOK'
      BY <1>1, <1>2, <1>3, <3>1, Types, SameTypes
    <3>3. QED
      BY <1>1, <1>2, <1>4, <3>1, <3>2, CountedStays DEF PackageInv
  <2>5. CASE ~IsLast(r)
    <3>1. records' = WithoutFirst(records, r) /\ unspent' = [unspent EXCEPT ![r] = @ + (-1)]
      BY <2>1, <2>5 DEF AfterConsuming, Entitle
    <3>2. /\ records' \in Seq(DOMAIN packages)
          /\ \A x : Count(records', x) <= Count(records, x)
          /\ Count(records', r) <= Count(records, r) - 1
      BY <2>2, <2>3, <3>1, CountOfWithoutFirst
    <3>3. /\ unspent' \in [Refs -> Int]
          /\ \A x \in Refs : x # r => unspent'[x] = unspent[x]
          /\ unspent'[r] = unspent[r] - 1
      BY <2>3, <3>1
    <3>4. ASSUME NEW x \in DOMAIN packages
          PROVE  /\ Count(records', x) \in Nat
                 /\ Count(records', x) - Count(records, x) <= unspent'[x] - unspent[x]
      <4>1. /\ Count(records', x) \in Nat /\ Count(records, x) \in Nat
            /\ Count(records', x) <= Count(records, x) /\ unspent[x] \in Int
        BY <2>3, <3>2, CountType
      <4>2. CASE x = r
        <5>1. Count(records', x) <= Count(records, x) - 1 /\ unspent'[x] = unspent[x] - 1
          BY <3>2, <3>3, <4>2, Zenon
        <5>2. QED
          BY <4>1, <5>1
      <4>3. CASE x # r
        <5>1. unspent'[x] = unspent[x]
          BY <2>3, <3>3, <4>3
        <5>2. QED
          BY <4>1, <5>1
      <4>4. QED
        BY <4>2, <4>3
    <3>5. \A x \in Refs : x \notin DOMAIN packages \/ IsLast(x) => unspent'[x] = unspent[x]
      BY <2>3, <2>5, <3>3
    <3>6. TypeOK'
      BY <1>1, <1>2, <1>3, <3>2, <3>3, Types, SameTypes
    <3>7. Counted'
      BY <1>1, <1>2, <3>3, <3>4, <3>5, CountedFollows
    <3>8. QED
      BY <1>4, <3>6, <3>7 DEF PackageInv
  <2>6. QED
    BY <2>4, <2>5
<1>7. QED
  BY <1>5, <1>6

LEMMA RestartKeeps ==
  ASSUME PackageInv, NEW q \in Quotas, NEW keeps \in BOOLEAN, Restart(q, keeps)
  PROVE  PackageInv'
<1>1. TypeOK /\ Waiting /\ Counted
  BY DEF PackageInv
<1>2. /\ restarts < MaxRestarts /\ restarts' = restarts + 1 /\ quota' = q
      /\ (records' = records /\ request' = request) \/ (records' = <<>> /\ request' = NoRequest)
      /\ calls' = [r \in Refs |-> 0]
      /\ UNCHANGED <<packages, phase, current, stored, tries, taking, unspent>>
  BY DEF Restart, deviceVars
<1>3. request' \in [ref : {None} \union DOMAIN packages, read : BOOLEAN]
      /\ records' \in Seq(DOMAIN packages)
  <2>1. records \in Seq(DOMAIN packages) /\ <<>> \in Seq(DOMAIN packages)
    BY <1>1, Types
  <2>2. request \in [ref : {None} \union DOMAIN packages, read : BOOLEAN]
    BY <1>1, Types
  <2>3. QED
    BY <1>2, <2>1, <2>2, NoRequestType
<1>4. calls' \in [Refs -> 0..MaxTries] /\ \A r \in Refs : ~(calls'[r] > 0)
  BY <1>1, <1>2, Types
<1>5. restarts' \in 0..MaxRestarts
  <2>1. restarts \in 0..MaxRestarts /\ MaxRestarts \in Nat
    BY <1>1, Types, KeyPackageAssumption
  <2>2. QED
    BY <1>2, <2>1
<1>6. TypeOK'
  BY <1>1, <1>2, <1>3, <1>4, <1>5, Types, SameTypes
<1>7. Waiting'
  BY <1>1, <1>2, <1>4, WaitingStays
<1>8. CASE records' = records
  BY <1>1, <1>2, <1>6, <1>7, <1>8, CountedStays DEF PackageInv
<1>9. CASE records' = <<>>
  <2>1. ASSUME NEW x \in DOMAIN packages
        PROVE  /\ Count(records', x) \in Nat
               /\ Count(records', x) - Count(records, x) <= unspent'[x] - unspent[x]
    <3>1. Count(records', x) = 0
      <4>1. x \notin Elements(<<>>)
        BY DEF Elements
      <4>2. QED
        BY <1>3, <1>9, <4>1, CountOfNone
    <3>2. Count(records, x) \in Nat /\ unspent[x] \in Int /\ unspent'[x] = unspent[x]
      BY <1>1, <1>2, Types, Made, CountType
    <3>3. QED
      BY <3>1, <3>2
  <2>2. unspent' \in [Refs -> Int] /\ unspent' = unspent
    BY <1>1, <1>2, Types
  <2>3. Counted'
    BY <1>1, <1>2, <2>1, <2>2, CountedFollows
  <2>4. QED
    BY <1>6, <1>7, <2>3 DEF PackageInv
<1>10. QED
  BY <1>2, <1>8, <1>9

LEMMA PackageStep == PackageInv /\ [Next]_vars => PackageInv'
<1> SUFFICES ASSUME PackageInv, [Next]_vars PROVE PackageInv'
  OBVIOUS
<1>1. CASE UNCHANGED vars
  <2>1. UNCHANGED <<packages, records, quota, request, phase, current, stored, tries, calls,
                    taking, restarts, unspent>>
    BY <1>1 DEF vars, coordinatorVars, deviceVars
  <2>2. TypeOK /\ Waiting /\ Counted
    BY DEF PackageInv
  <2>3. TypeOK'
    BY <2>1, <2>2, Types, SameTypes
  <2>4. QED
    BY <2>1, <2>2, <2>3, CountedStays, WaitingStays DEF PackageInv
<1>2. CASE Next
  BY <1>2, JoinKeeps, JoinAgainKeeps, HandleRequestKeeps, RetryKeeps, HandlePublishKeeps,
     RemoveKeeps, FetchRequestKeeps, AdmitKeeps, RestartKeeps DEF Next
<1>3. QED
  BY <1>1, <1>2

\* Every variable keeps the shape the code gives it; and the package that a device keeps
\* for the rooms to come is a last-resort one (createJoiningRoom, lastResortKeyPackage).
THEOREM PackageTypes == Spec => []TypeOK
<1>1. PackageInv => TypeOK
  BY DEF PackageInv
<1>2. QED
  BY <1>1, PackagesInitially, PackageStep, PTL DEF Spec

\* However often publications are sent again, however late they arrive, and whichever
\* quota the coordinator is started again with: an ordinary package is never handed out
\* more often than it was published (consumeKeyPackage, enforceKeyPackageQuota).
THEOREM OrdinaryPackagesAreSpentOnce == Spec => []HandedOutOnce
<1>1. PackageInv => HandedOutOnce
  <2>1. ASSUME PackageInv, NEW r \in DOMAIN packages
        PROVE  unspent[r] >= 0
    <3>1. TypeOK /\ Counted
      BY <2>1 DEF PackageInv
    <3>2. r \in Refs /\ IsLast(r) \in BOOLEAN /\ records \in Seq(DOMAIN packages)
          /\ unspent[r] \in Int
      BY <3>1, Made, Types
    <3>3. CASE IsLast(r)
      BY <3>1, <3>2, <3>3 DEF Counted
    <3>4. CASE ~IsLast(r)
      <4>1. unspent[r] >= Count(records, r) /\ Count(records, r) \in Nat
        BY <3>1, <3>2, <3>4, CountType DEF Counted, IsOrdinary
      <4>2. QED
        BY <3>2, <4>1
    <3>5. QED
      BY <3>3, <3>4
  <2>2. QED
    BY <2>1 DEF HandedOutOnce
<1>2. QED
  BY <1>1, PackagesInitially, PackageStep, PTL DEF Spec
-----------------------------------------------------------------------------
(* The rate limiter.  The products of the invariant are taken apart by     *)
(* lemmas, as the provers know no multiplication of variables.             *)

LEMMA OneMore ==
  ASSUME NEW a \in Int, NEW b \in Int
  PROVE  (a + 1) * b = a * b + b /\ a * b \in Int
OBVIOUS

LEMMA ProductIsNat ==
  ASSUME NEW a \in Nat, NEW b \in Nat
  PROVE  a * b \in Nat
OBVIOUS

LEMMA MoreOfThem ==
  ASSUME NEW a \in Nat, NEW b \in Nat, NEW c \in Nat, a <= b
  PROVE  a * c <= b * c
<1>1. b - a \in Nat /\ b = a + (b - a)
  OBVIOUS
<1>2. b * c = a * c + (b - a) * c
  BY <1>1
<1>3. (b - a) * c \in Nat /\ a * c \in Nat /\ b * c \in Nat
  BY <1>1, ProductIsNat
<1>4. QED
  BY <1>2, <1>3

Full == Burst * Parts

\* What the bucket b would give now.
Holds(b) == IF b = NoBucket THEN Full ELSE Least(Full, b.tokens + Elapsed(b) * Refill)

Buckets == [tokens : 0..Full, lastRefillAt : Nat, lastSeenAt : Nat]

LimitTypes ==
  /\ clock \in Nat
  /\ passed \in Nat
  /\ taken \in [Callers -> Nat]
  /\ buckets \in [Callers -> Buckets \union {NoBucket}]
  /\ \A c \in Callers : buckets[c].lastSeenAt = buckets[c].lastRefillAt

\* What was taken and what could be taken now are no more than the burst and the refill.
LimitInv ==
  /\ LimitTypes
  /\ \A c \in Callers : taken[c] * Parts + Holds(buckets[c]) <= Full + passed * Refill

LEMMA Constants ==
  /\ Parts \in Nat /\ Burst \in Nat /\ Refill \in Nat /\ IdleTtl \in Nat
  /\ Full \in Nat /\ IdleTtl * Refill \in Nat
  /\ Full <= IdleTtl * Refill
<1>1. Parts \in Nat /\ Burst \in Nat /\ Refill \in Nat /\ IdleTtl \in Nat
      /\ Full <= IdleTtl * Refill
  BY RateLimitAssumption DEF Full
<1>2. Full \in Nat /\ IdleTtl * Refill \in Nat
  BY <1>1, ProductIsNat DEF Full
<1>3. QED
  BY <1>1, <1>2

LEMMA NoBucketHoldsAll == Holds(NoBucket) = Full
BY DEF Holds

\* No bucket is mistaken for a missing one.
LEMMA BucketIsSome ==
  ASSUME NEW b \in Buckets
  PROVE  /\ b # NoBucket /\ b.tokens \in 0..Full
         /\ b.lastRefillAt \in Nat /\ b.lastSeenAt \in Nat
<1>1. b.tokens \in 0..Full /\ b.lastRefillAt \in Nat /\ b.lastSeenAt \in Nat
  BY DEF Buckets
<1>2. NoBucket.lastSeenAt = -1
  BY DEF NoBucket
<1>3. QED
  BY <1>1, <1>2

LEMMA ElapsedType ==
  ASSUME LimitTypes, NEW b \in Buckets
  PROVE  /\ Elapsed(b) \in Nat /\ Elapsed(b) * Refill \in Nat
         /\ Elapsed(b) = IF clock > b.lastRefillAt THEN clock - b.lastRefillAt ELSE 0
<1>1. clock \in Nat /\ b.lastRefillAt \in Nat
  BY BucketIsSome DEF LimitTypes
<1>2. Elapsed(b) = IF clock > b.lastRefillAt THEN clock - b.lastRefillAt ELSE 0
  BY DEF Elapsed
<1>3. Elapsed(b) \in Nat
  BY <1>1, <1>2
<1>4. QED
  BY <1>2, <1>3, ProductIsNat, Constants

LEMMA HoldsType ==
  ASSUME LimitTypes, NEW b \in Buckets \union {NoBucket}
  PROVE  Holds(b) \in 0..Full
<1>1. CASE b = NoBucket
  BY <1>1, NoBucketHoldsAll, Constants
<1>2. CASE b # NoBucket
  <2>1. b \in Buckets /\ b.tokens \in 0..Full /\ Elapsed(b) * Refill \in Nat
    BY <1>2, BucketIsSome, ElapsedType
  <2>2. Holds(b) = Least(Full, b.tokens + Elapsed(b) * Refill)
    BY <1>2 DEF Holds
  <2>3. QED
    BY <2>1, <2>2, Constants DEF Least
<1>3. QED
  BY <1>1, <1>2

\* A bucket that is thrown away was full: eviction changes what nobody can take.
LEMMA EvictionIsFree ==
  ASSUME LimitInv, NEW c \in Callers
  PROVE  /\ Evicted[c] \in {buckets[c], NoBucket}
         /\ Holds(Evicted[c]) = Holds(buckets[c])
<1>1. Evicted[c] = IF buckets[c] # NoBucket /\ clock - buckets[c].lastSeenAt >= IdleTtl
                   THEN NoBucket ELSE buckets[c]
  BY DEF Evicted
<1>2. CASE buckets[c] # NoBucket /\ clock - buckets[c].lastSeenAt >= IdleTtl
  <2> DEFINE b == buckets[c]
  <2>1. LimitTypes /\ b \in Buckets /\ b.lastSeenAt = b.lastRefillAt
    BY <1>2 DEF LimitInv, LimitTypes
  <2> HIDE DEF b
  <2>2. b.tokens \in 0..Full /\ b.lastRefillAt \in Nat /\ clock \in Nat
    BY <2>1, BucketIsSome DEF LimitTypes
  <2>3. clock - b.lastRefillAt >= IdleTtl
    BY <1>2, <2>1 DEF b
  <2>4. IdleTtl <= Elapsed(b) /\ Elapsed(b) \in Nat
    BY <2>1, <2>2, <2>3, ElapsedType, Constants
  <2>5. IdleTtl * Refill <= Elapsed(b) * Refill /\ Elapsed(b) * Refill \in Nat
    BY <2>1, <2>4, MoreOfThem, ElapsedType, Constants
  <2>6. Holds(b) = Least(Full, b.tokens + Elapsed(b) * Refill)
    BY <1>2 DEF Holds, b
  <2>7. Holds(b) = Full
    BY <2>2, <2>5, <2>6, Constants DEF Least
  <2>8. QED
    BY <1>1, <1>2, <2>7, NoBucketHoldsAll DEF b
<1>3. CASE ~(buckets[c] # NoBucket /\ clock - buckets[c].lastSeenAt >= IdleTtl)
  BY <1>1, <1>3
<1>4. QED
  BY <1>2, <1>3

LEMMA LimitHolds ==
  ASSUME LimitInv, NEW c \in Callers
  PROVE  /\ taken[c] \in Nat /\ taken[c] * Parts \in Nat
         /\ passed * Refill \in Nat
         /\ Holds(buckets[c]) \in 0..Full
         /\ taken[c] * Parts + Holds(buckets[c]) <= Full + passed * Refill
<1>1. /\ LimitTypes /\ taken[c] \in Nat /\ passed \in Nat
      /\ buckets[c] \in Buckets \union {NoBucket}
      /\ taken[c] * Parts + Holds(buckets[c]) <= Full + passed * Refill
  BY DEF LimitInv, LimitTypes
<1>2. QED
  BY <1>1, ProductIsNat, Constants, HoldsType

LEMMA AvailableIsHeld ==
  ASSUME LimitInv, NEW c \in Callers
  PROVE  Available(c) = Holds(buckets[c])
<1>1. Available(c) = Holds(Evicted[c])
  BY DEF Available, Holds, Full
<1>2. QED
  BY <1>1, EvictionIsFree

LEMMA LimitInitially == LimitInit => LimitInv
<1> SUFFICES ASSUME LimitInit PROVE LimitInv
  OBVIOUS
<1>1. LimitTypes
  BY DEF LimitInit, LimitTypes, NoBucket
<1>2. ASSUME NEW c \in Callers
      PROVE  taken[c] * Parts + Holds(buckets[c]) <= Full + passed * Refill
  <2>1. taken[c] = 0 /\ passed = 0 /\ buckets[c] = NoBucket
    BY DEF LimitInit
  <2>2. 0 * Parts = 0 /\ 0 * Refill = 0
    BY Constants
  <2>3. QED
    BY <2>1, <2>2, NoBucketHoldsAll, Constants
<1>3. QED
  BY <1>1, <1>2 DEF LimitInv

LEMMA CallIsLimited ==
  ASSUME LimitInv, NEW c \in Callers, LimitedCall(c)
  PROVE  LimitInv'
<1> DEFINE left == Available(c) - (IF IsAllowed(c) THEN Parts ELSE 0)
           b == [tokens |-> left, lastRefillAt |-> clock, lastSeenAt |-> clock]
<1>1. /\ buckets' = [Evicted EXCEPT ![c] = b]
      /\ taken' = [taken EXCEPT ![c] = @ + (IF IsAllowed(c) THEN 1 ELSE 0)]
      /\ clock' = clock /\ passed' = passed
  BY DEF LimitedCall
<1>2. LimitTypes
  BY DEF LimitInv
<1>3. left \in 0..Full /\ (IsAllowed(c) => left = Available(c) - Parts)
      /\ (~IsAllowed(c) => left = Available(c))
  <2>1. Available(c) \in 0..Full
    BY AvailableIsHeld, LimitHolds
  <2>2. QED
    BY <2>1, Constants DEF IsAllowed
<1>4. b \in Buckets /\ b.lastSeenAt = b.lastRefillAt /\ b.lastRefillAt = clock /\ b.tokens = left
  <2> HIDE DEF left
  <2>1. QED
    BY <1>2, <1>3 DEF Buckets, LimitTypes
<1> HIDE DEF left, b
<1>5. Evicted \in [Callers -> Buckets \union {NoBucket}]
      /\ \A d \in Callers : Evicted[d].lastSeenAt = Evicted[d].lastRefillAt
  <2>1. \A d \in Callers : Evicted[d] \in {buckets[d], NoBucket}
    BY EvictionIsFree
  <2>2. Evicted = [d \in Callers |-> Evicted[d]]
    BY DEF Evicted
  <2>3. NoBucket.lastSeenAt = NoBucket.lastRefillAt
    BY DEF NoBucket
  <2>4. QED
    BY <1>2, <2>1, <2>2, <2>3 DEF LimitTypes
<1>6. LimitTypes'
  <2>1. buckets' \in [Callers -> Buckets \union {NoBucket}]
    BY <1>1, <1>4, <1>5
  <2>2. \A d \in Callers : buckets'[d].lastSeenAt = buckets'[d].lastRefillAt
    BY <1>1, <1>4, <1>5
  <2>3. taken' \in [Callers -> Nat]
    BY <1>1, <1>2 DEF LimitTypes
  <2>4. QED
    BY <1>1, <1>2, <2>1, <2>2, <2>3 DEF LimitTypes, Buckets, Full
<1>7. Holds(b) = left
  <2>1. Elapsed(b) * Refill = 0
    <3>1. Elapsed(b) = 0
      BY <1>2, <1>4, ElapsedType DEF LimitTypes
    <3>2. 0 * Refill = 0
      BY Constants
    <3>3. QED
      BY <3>1, <3>2
  <2>2. b # NoBucket
    BY <1>4, BucketIsSome
  <2>3. Holds(b) = Least(Full, left)
    BY <1>3, <1>4, <2>1, <2>2, Constants DEF Holds
  <2>4. QED
    BY <1>3, <2>3, Constants DEF Least
<1>8. ASSUME NEW d \in Callers
      PROVE  taken'[d] * Parts + Holds(buckets'[d]) <= Full + passed * Refill
  <2>0. /\ taken[d] \in Nat /\ taken[d] * Parts \in Nat /\ passed * Refill \in Nat
        /\ Holds(buckets[d]) \in 0..Full
        /\ taken[d] * Parts + Holds(buckets[d]) <= Full + passed * Refill
    BY LimitHolds
  <2>1. CASE d # c
    <3>1. taken'[d] = taken[d] /\ buckets'[d] = Evicted[d]
      BY <1>1, <1>2, <1>5, <2>1 DEF LimitTypes
    <3>2. Holds(buckets'[d]) = Holds(buckets[d])
      BY <3>1, EvictionIsFree
    <3>3. QED
      BY <2>0, <3>1, <3>2
  <2>2. CASE d = c
    <3>1. buckets'[d] = b /\ Holds(buckets'[d]) = left
      BY <1>1, <1>5, <1>7, <2>2
    <3>2. taken'[d] = taken[d] + (IF IsAllowed(c) THEN 1 ELSE 0)
      BY <1>1, <1>2, <2>2 DEF LimitTypes
    <3>3. Available(c) = Holds(buckets[d])
      BY <2>2, AvailableIsHeld
    <3>4. CASE IsAllowed(c)
      <4>1. taken'[d] * Parts = taken[d] * Parts + Parts
        <5>1. taken'[d] = taken[d] + 1 /\ taken[d] \in Int /\ Parts \in Int
          BY <2>0, <3>2, <3>4, Constants
        <5>2. (taken[d] + 1) * Parts = taken[d] * Parts + Parts
          BY <5>1, OneMore
        <5>3. QED
          BY <5>1, <5>2
      <4>2. left = Holds(buckets[d]) - Parts
        BY <1>3, <3>3, <3>4
      <4>3. QED
        BY <2>0, <3>1, <4>1, <4>2, Constants
    <3>5. CASE ~IsAllowed(c)
      <4>1. taken'[d] = taken[d] /\ left = Holds(buckets[d])
        BY <1>3, <2>0, <3>2, <3>3, <3>5
      <4>2. QED
        BY <2>0, <3>1, <4>1
    <3>6. QED
      BY <3>4, <3>5
  <2>3. QED
    BY <2>1, <2>2
<1>9. ASSUME NEW x
      PROVE  Holds(x)' = Holds(x)
  BY <1>1 DEF Holds, Elapsed
<1>10. QED
  BY <1>1, <1>6, <1>8, <1>9 DEF LimitInv, Holds, Elapsed, Full

LEMMA TickIsLimited ==
  ASSUME LimitInv, Tick
  PROVE  LimitInv'
<1>1. clock' = clock + 1 /\ passed' = passed + 1 /\ buckets' = buckets /\ taken' = taken
  BY DEF Tick
<1>2. LimitTypes /\ LimitTypes'
  BY <1>1 DEF LimitInv, LimitTypes, Buckets, Full, NoBucket
<1>3. ASSUME NEW c \in Callers
      PROVE  (taken[c] * Parts + Holds(buckets[c]) <= Full + passed * Refill)'
  <2> DEFINE b == buckets[c]
  <2>0. /\ taken[c] * Parts \in Nat /\ passed * Refill \in Nat
        /\ Holds(b) \in 0..Full
        /\ taken[c] * Parts + Holds(b) <= Full + passed * Refill
    BY LimitHolds
  <2>1. passed' * Refill = passed * Refill + Refill
    BY <1>1, <1>2, OneMore, Constants DEF LimitTypes
  <2>2. Holds(b)' <= Holds(b) + Refill /\ Holds(b)' \in Int
    <3>1. CASE b = NoBucket
      BY <1>1, <2>0, <3>1, Constants DEF Holds, Full
    <3>2. CASE b # NoBucket
      <4>1. b \in Buckets /\ b.lastRefillAt \in Nat /\ b.tokens \in 0..Full /\ clock \in Nat
        BY <1>2, <3>2, BucketIsSome DEF LimitTypes
      <4>2. Elapsed(b) \in Nat /\ Elapsed(b) * Refill \in Nat
        BY <1>2, <4>1, ElapsedType
      <4>3. Elapsed(b)' \in Nat /\ Elapsed(b)' <= Elapsed(b) + 1
        BY <1>1, <4>1, <4>2 DEF Elapsed
      <4>4. /\ Elapsed(b)' * Refill \in Nat
            /\ Elapsed(b)' * Refill <= (Elapsed(b) + 1) * Refill
            /\ (Elapsed(b) + 1) * Refill = Elapsed(b) * Refill + Refill
        <5>1. Elapsed(b) + 1 \in Nat
          BY <4>2
        <5>2. QED
          BY <4>2, <4>3, <5>1, MoreOfThem, ProductIsNat, OneMore, Constants
      <4>5. /\ Holds(b) = Least(Full, b.tokens + Elapsed(b) * Refill)
            /\ Holds(b)' = Least(Full, b.tokens + Elapsed(b)' * Refill)
        BY <1>1, <3>2 DEF Holds, NoBucket, Full, Least
      <4>6. QED
        BY <4>1, <4>2, <4>4, <4>5, Constants DEF Least
    <3>3. QED
      BY <3>1, <3>2
  <2>3. QED
    BY <1>1, <2>0, <2>1, <2>2, Constants DEF Full
<1>4. QED
  BY <1>2, <1>3 DEF LimitInv

LEMMA SetBackIsLimited ==
  ASSUME LimitInv, NEW time \in 0..MaxClock, SetBack(time)
  PROVE  LimitInv'
<1>1. clock' = time /\ time < clock /\ passed' = passed /\ buckets' = buckets /\ taken' = taken
  BY DEF SetBack
<1>2. time \in Nat
  BY RateLimitAssumption
<1>3. LimitTypes /\ LimitTypes'
  BY <1>1, <1>2 DEF LimitInv, LimitTypes, Buckets, Full, NoBucket
<1>4. ASSUME NEW c \in Callers
      PROVE  (taken[c] * Parts + Holds(buckets[c]) <= Full + passed * Refill)'
  <2> DEFINE b == buckets[c]
  <2>0. /\ taken[c] * Parts \in Nat /\ passed * Refill \in Nat
        /\ Holds(b) \in 0..Full
        /\ taken[c] * Parts + Holds(b) <= Full + passed * Refill
    BY LimitHolds
  <2>1. Holds(b)' <= Holds(b) /\ Holds(b)' \in Int
    <3>1. CASE b = NoBucket
      BY <1>1, <2>0, <3>1, Constants DEF Holds, Full
    <3>2. CASE b # NoBucket
      <4>1. b \in Buckets /\ b.lastRefillAt \in Nat /\ b.tokens \in 0..Full /\ clock \in Nat
        BY <1>3, <3>2, BucketIsSome DEF LimitTypes
      <4>2. Elapsed(b) \in Nat /\ Elapsed(b) * Refill \in Nat
        BY <1>3, <4>1, ElapsedType
      <4>3. Elapsed(b)' \in Nat /\ Elapsed(b)' <= Elapsed(b)
        BY <1>1, <1>2, <4>1, <4>2 DEF Elapsed
      <4>4. /\ Elapsed(b)' * Refill \in Nat
            /\ Elapsed(b)' * Refill <= Elapsed(b) * Refill
        BY <4>2, <4>3, MoreOfThem, ProductIsNat, Constants
      <4>5. /\ Holds(b) = Least(Full, b.tokens + Elapsed(b) * Refill)
            /\ Holds(b)' = Least(Full, b.tokens + Elapsed(b)' * Refill)
        BY <1>1, <3>2 DEF Holds, NoBucket, Full, Least
      <4>6. QED
        BY <4>1, <4>2, <4>4, <4>5, Constants DEF Least
    <3>3. QED
      BY <3>1, <3>2
  <2>2. QED
    BY <1>1, <2>0, <2>1, Constants DEF Full
<1>5. QED
  BY <1>3, <1>4 DEF LimitInv

LEMMA LookIsLimited ==
  ASSUME LimitInv, Look
  PROVE  LimitInv'
<1>1. clock' = clock /\ passed' = 0 /\ buckets' = buckets /\ taken' = [c \in Callers |-> 0]
  BY DEF Look
<1>2. LimitTypes /\ LimitTypes'
  BY <1>1 DEF LimitInv, LimitTypes, Buckets, Full, NoBucket
<1>3. ASSUME NEW c \in Callers
      PROVE  (taken[c] * Parts + Holds(buckets[c]) <= Full + passed * Refill)'
  <2>1. Holds(buckets[c]) \in 0..Full
    BY LimitHolds
  <2>2. (Holds(buckets[c]))' = Holds(buckets[c])
    BY <1>1 DEF Holds, Elapsed, Full
  <2>3. taken'[c] = 0 /\ 0 * Parts = 0 /\ 0 * Refill = 0
    BY <1>1, Constants
  <2>4. QED
    BY <1>1, <2>1, <2>2, <2>3, Constants DEF Full
<1>4. QED
  BY <1>2, <1>3 DEF LimitInv

LEMMA LimitStep == LimitInv /\ [LimitNext]_limitVars => LimitInv'
<1> SUFFICES ASSUME LimitInv, [LimitNext]_limitVars PROVE LimitInv'
  OBVIOUS
<1>1. CASE UNCHANGED limitVars
  BY <1>1 DEF limitVars, LimitInv, LimitTypes, Holds, Elapsed, Buckets, Full, NoBucket, Least
<1>2. QED
  BY <1>1, CallIsLimited, TickIsLimited, SetBackIsLimited, LookIsLimited DEF LimitNext

\* In no span of time is a caller let through more often than the burst and the refill
\* of that time allow, however many callers there are and however often the clock is
\* set back; the bucket of an idle caller is thrown away when it is full again, so that
\* nobody gets a full one for it (TokenBucketRateLimiter.check).
THEOREM NobodyCallsTooOften == LimitSpec => []NoMoreThanTheRate
<1>1. LimitInv => NoMoreThanTheRate
  <2>1. ASSUME LimitInv, NEW c \in Callers
        PROVE  taken[c] * Parts <= Burst * Parts + passed * Refill
    BY <2>1, LimitHolds, Constants DEF Full
  <2>2. QED
    BY <2>1 DEF NoMoreThanTheRate
<1>2. QED
  BY <1>1, LimitInitially, LimitStep, PTL DEF LimitSpec

-----------------------------------------------------------------------------
(* PendingQueues.                                                          *)

Request == [pk : Guests, at : Nat, readAt : Nat, again : BOOLEAN]
Named == [pk : Guests, at : Nat]

QueuesTyped ==
  /\ now \in Nat \ {0}
  /\ requests \in [Rooms -> SUBSET Request]
  /\ admitting \in [Rooms -> SUBSET Named] /\ admitted \in [Rooms -> SUBSET Named]

\* Of a room: an identity has one request at most, and of those that the host deals with
\* the ones in the queue were read or made again within a millisecond; one that was
\* made now is in the queue still.
RoomInv(g) ==
  /\ \A q, r \in requests[g] : q.pk = r.pk => q = r
  /\ \A q \in requests[g] : q.at <= now
  /\ \A x \in admitting[g] \union admitted[g] : x.at <= now
  /\ \A q \in requests[g] : Queues!Name(q) \in admitting[g] \union admitted[g]
                              => q.readAt # Queues!Never \/ q.again
  /\ \A x \in admitting[g] \union admitted[g] :
       x.at = now /\ g \notin deleted => \E q \in requests[g] : q.pk = x.pk /\ q.at = now

QueuesInv == QueuesTyped /\ \A g \in Rooms : RoomInv(g)

\* What a step may do to the requests of a room.
RequestsKept(g) ==
  \A q \in requests[g] :
    q.readAt = Queues!Never /\ ~q.again /\ q.at >= now' - UnreadTtl
      => \E r \in requests'[g] : r.pk = q.pk /\ r.at >= q.at

LEMMA ReadKeeps ==
  ASSUME QueuesTyped, NEW q \in Request
  PROVE  /\ Queues!Read(q) \in Request
         /\ Queues!Read(q).pk = q.pk /\ Queues!Read(q).at = q.at
         /\ Queues!Read(q).again = q.again /\ Queues!Read(q).readAt # Queues!Never
         /\ Queues!Name(Queues!Read(q)) = Queues!Name(q)
<1>1. /\ Queues!Read(q) \in Request
      /\ Queues!Read(q).pk = q.pk /\ Queues!Read(q).at = q.at
      /\ Queues!Read(q).again = q.again
  BY DEF QueuesTyped, Queues!Read, Request
<1>2. Queues!Read(q).readAt # Queues!Never
  BY DEF QueuesTyped, Queues!Read, Request, Queues!Never
<1>3. QED
  BY <1>1, <1>2 DEF Queues!Name

\* A room nothing happens to.
LEMMA RoomStays ==
  ASSUME NEW g \in Rooms, RoomInv(g), now' = now, deleted \subseteq deleted',
         requests'[g] = requests[g],
         admitting'[g] \union admitted'[g] \subseteq admitting[g] \union admitted[g]
  PROVE  RoomInv(g)'
BY DEF RoomInv, Queues!Name

LEMMA StoredRequest ==
  ASSUME QueuesInv, NEW g \in Rooms, NEW p \in Guests, Queues!StoreJoinRequest(g, p)
  PROVE  QueuesInv' /\ \A h \in Rooms : RequestsKept(h)
<1>1. /\ UNCHANGED <<now, deleted, admitting, admitted>> /\ g \notin deleted
      /\ QueuesTyped /\ RoomInv(g)
  BY DEF Queues!StoreJoinRequest, Queues!hostVars, QueuesInv
<1>2. ASSUME NEW new \in Request, NEW old \in SUBSET requests[g],
             requests' = [requests EXCEPT ![g] = (@ \ old) \union {new}],
             new.pk = p, new.at = now, new.readAt = Queues!Never,
             \A q \in requests[g] : q.pk = p <=> q \in old,
             \A q \in old : q.at = now => new.again
      PROVE  QueuesInv' /\ \A h \in Rooms : RequestsKept(h)
  <2>1. /\ requests'[g] = (requests[g] \ old) \union {new}
        /\ \A h \in Rooms \ {g} : requests'[h] = requests[h]
        /\ requests' \in [Rooms -> SUBSET Request]
    BY <1>1, <1>2 DEF QueuesTyped
  <2>2. QueuesTyped'
    BY <1>1, <2>1 DEF QueuesTyped
  <2>3. RoomInv(g)'
    <3>1. \A q, r \in requests'[g] : q.pk = r.pk => q = r
      BY <1>1, <1>2, <2>1 DEF RoomInv
    <3>2. (\A q \in requests'[g] : q.at <= now) /\ \A x \in admitting[g] \union admitted[g] : x.at <= now
      BY <1>1, <1>2, <2>1 DEF RoomInv, QueuesTyped
    <3>3. ASSUME Queues!Name(new) \in admitting[g] \union admitted[g]
          PROVE  new.again
      <4>1. Queues!Name(new).at = now /\ Queues!Name(new).pk = p
        BY <1>2 DEF Queues!Name
      <4>2. PICK q \in requests[g] : q.pk = p /\ q.at = now
        BY <1>1, <3>3, <4>1 DEF RoomInv
      <4>3. QED
        BY <1>2, <4>2
    <3>4. \A q \in requests'[g] : Queues!Name(q) \in admitting[g] \union admitted[g]
                                    => q.readAt # Queues!Never \/ q.again
      BY <1>1, <2>1, <3>3 DEF RoomInv
    <3>5. ASSUME NEW x \in admitting[g] \union admitted[g], x.at = now
          PROVE  \E q \in requests'[g] : q.pk = x.pk /\ q.at = now
      <4>1. PICK q \in requests[g] : q.pk = x.pk /\ q.at = now
        BY <1>1, <3>5 DEF RoomInv
      <4>2. QED
        BY <1>2, <2>1, <4>1
    <3>6. QED
      BY <1>1, <3>1, <3>2, <3>4, <3>5 DEF RoomInv, Queues!Name
  <2>4. ASSUME NEW h \in Rooms \ {g}
        PROVE  RoomInv(h)'
    BY <1>1, <2>1, RoomStays DEF QueuesInv
  <2>5. RequestsKept(g)
    <3>1. \A q \in requests[g] : q.at <= now /\ q.at \in Nat /\ now \in Nat
      BY <1>1 DEF RoomInv, QueuesTyped, Request
    <3>2. QED
      BY <1>2, <2>1, <3>1 DEF RequestsKept
  <2>6. ASSUME NEW h \in Rooms \ {g}
        PROVE  RequestsKept(h)
    <3>1. \A q \in requests[h] : q.at >= q.at
      BY DEF QueuesInv, QueuesTyped, Request
    <3>2. QED
      BY <2>1, <3>1 DEF RequestsKept
  <2>7. QED
    BY <2>2, <2>3, <2>4, <2>5, <2>6 DEF QueuesInv
<1>3. CASE \E q \in requests[g] :
             /\ q.pk = p
             /\ requests' = [requests EXCEPT ![g] = (@ \ {q}) \union {Queues!Refreshed(q)}]
  <2>1. PICK q \in requests[g] :
          /\ q.pk = p
          /\ requests' = [requests EXCEPT ![g] = (@ \ {q}) \union {Queues!Refreshed(q)}]
    BY <1>3
  <2>2. q \in Request /\ now \in Nat
    BY <1>1 DEF QueuesTyped
  <2>3. /\ Queues!Refreshed(q) \in Request /\ Queues!Refreshed(q).pk = p
        /\ Queues!Refreshed(q).at = now /\ Queues!Refreshed(q).readAt = Queues!Never
        /\ (q.at = now => Queues!Refreshed(q).again)
    BY <2>1, <2>2 DEF Queues!Refreshed, Request, Queues!Never
  <2>4. \A r \in requests[g] : r.pk = p <=> r \in {q}
    BY <1>1, <2>1 DEF RoomInv
  <2>5. QED
    BY <1>2, <2>1, <2>3, <2>4
<1>4. CASE /\ \A q \in requests[g] : q.pk # p
           /\ requests' = [requests EXCEPT ![g] = @ \union
                {[pk |-> p, at |-> now, readAt |-> Queues!Never, again |-> FALSE]}]
  <2> DEFINE new == [pk |-> p, at |-> now, readAt |-> Queues!Never, again |-> FALSE]
  <2>1. /\ new \in Request /\ new.pk = p /\ new.at = now /\ new.readAt = Queues!Never
        /\ requests' = [requests EXCEPT ![g] = (@ \ {}) \union {new}]
    BY <1>1, <1>4 DEF QueuesTyped, Request, Queues!Never
  <2>2. /\ {} \in SUBSET requests[g] /\ \A q \in requests[g] : q.pk = p <=> q \in {}
        /\ \A q \in {} : q.at = now => new.again
    BY <1>4
  <2> HIDE DEF new
  <2>3. QED
    BY <1>2, <2>1, <2>2
<1>5. QED
  BY <1>3, <1>4 DEF Queues!StoreJoinRequest

\* The host reads the requests of its room, all or those it has not answered.
LEMMA ReadByHost ==
  ASSUME QueuesInv, NEW g \in Rooms, UNCHANGED <<now, deleted>>,
         NEW left \in SUBSET requests[g],
         \A q \in requests[g] \ left : q.readAt # Queues!Never \/ q.again,
         requests' = [requests EXCEPT ![g] = {Queues!Read(q) : q \in left}],
         NEW names \in SUBSET {Queues!Name(q) : q \in left},
         admitting' = [admitting EXCEPT ![g] = names], admitted' = [admitted EXCEPT ![g] = {}]
  PROVE  QueuesInv' /\ \A h \in Rooms : RequestsKept(h)
<1>1. QueuesTyped /\ RoomInv(g) /\ requests[g] \subseteq Request
  BY DEF QueuesInv, QueuesTyped
<1>2. /\ requests'[g] = {Queues!Read(q) : q \in left}
      /\ admitting'[g] = names /\ admitted'[g] = {}
      /\ \A h \in Rooms \ {g} : /\ requests'[h] = requests[h]
                                /\ admitting'[h] = admitting[h] /\ admitted'[h] = admitted[h]
  BY <1>1 DEF QueuesTyped
<1>3. QueuesTyped'
  <2>1. {Queues!Read(q) : q \in left} \subseteq Request
    BY <1>1, ReadKeeps
  <2>2. names \subseteq Named
    BY <1>1 DEF Queues!Name, Named, Request
  <2>3. QED
    BY <1>1, <2>1, <2>2 DEF QueuesTyped
<1>4. \A q \in left : /\ q \in Request /\ q.at <= now
                      /\ Queues!Read(q).pk = q.pk /\ Queues!Read(q).at = q.at
                      /\ Queues!Read(q).readAt # Queues!Never
  BY <1>1, ReadKeeps DEF RoomInv
<1>5. RoomInv(g)'
  <2>1. \A q, r \in requests'[g] : q.pk = r.pk => q = r
    BY <1>1, <1>2, <1>4 DEF RoomInv
  <2>2. \A q \in requests'[g] : q.at <= now /\ q.readAt # Queues!Never
    BY <1>2, <1>4
  <2>3. \A x \in names : \E q \in requests'[g] : q.pk = x.pk /\ q.at = x.at
    BY <1>2, <1>4 DEF Queues!Name
  <2>4. \A x \in names : x.at <= now
    BY <1>4 DEF Queues!Name
  <2>5. QED
    BY <1>2, <2>1, <2>2, <2>3, <2>4 DEF RoomInv, Queues!Never
<1>6. ASSUME NEW h \in Rooms \ {g}
      PROVE  RoomInv(h)'
  BY <1>2, RoomStays DEF QueuesInv
<1>7. ASSUME NEW h \in Rooms
      PROVE  RequestsKept(h)
  <2>1. \A q \in requests[h] : q.at >= q.at
    BY DEF QueuesInv, QueuesTyped, Request
  <2>2. QED
    BY <1>2, <1>4, <2>1 DEF RequestsKept
<1>8. QED
  BY <1>3, <1>5, <1>6, <1>7 DEF QueuesInv

\* The requests stay, and the host knows of no new ones.
LEMMA RequestsStay ==
  ASSUME QueuesInv, QueuesTyped', UNCHANGED now, deleted \subseteq deleted', UNCHANGED requests,
         \A g \in Rooms : admitting'[g] \union admitted'[g] \subseteq admitting[g] \union admitted[g]
  PROVE  QueuesInv' /\ \A h \in Rooms : RequestsKept(h)
<1>1. \A g \in Rooms : RoomInv(g)'
  BY RoomStays DEF QueuesInv
<1>2. ASSUME NEW h \in Rooms
      PROVE  RequestsKept(h)
  <2>1. \A q \in requests[h] : q.at >= q.at
    BY DEF QueuesInv, QueuesTyped, Request
  <2>2. QED
    BY <2>1 DEF RequestsKept
<1>3. QED
  BY <1>1, <1>2 DEF QueuesInv

LEMMA QueuesStep ==
  ASSUME QueuesInv, [Queues!Next]_Queues!vars
  PROVE  QueuesInv' /\ \A g \in Rooms \ deleted' : RequestsKept(g)
<1>0. QueuesTyped
  BY DEF QueuesInv
<1>1. CASE UNCHANGED Queues!vars
  BY <1>0, <1>1, RequestsStay DEF Queues!vars, Queues!hostVars, QueuesTyped
<1>2. ASSUME NEW g \in Rooms, NEW p \in Guests,
             Queues!StoreJoinRequest(g, p)
      PROVE  QueuesInv' /\ \A h \in Rooms : RequestsKept(h)
  BY <1>2, StoredRequest
<1>3. ASSUME NEW g \in Rooms, NEW p \in Guests, Queues!FetchWelcomes(p, g)
      PROVE  QueuesInv' /\ \A h \in Rooms : RequestsKept(h)
  BY <1>0, <1>3, RequestsStay DEF Queues!FetchWelcomes, Queues!hostVars, QueuesTyped
<1>4. ASSUME NEW g \in Rooms, Queues!FetchJoinRequests(g)
      PROVE  QueuesInv' /\ \A h \in Rooms : RequestsKept(h)
  <2>1. /\ UNCHANGED <<now, deleted, admitted>> /\ admitted[g] = {}
        /\ requests' = [requests EXCEPT ![g] = {Queues!Read(q) : q \in requests[g]}]
        /\ admitting' = [admitting EXCEPT ![g] = {Queues!Name(q) : q \in requests[g]}]
    BY <1>4 DEF Queues!FetchJoinRequests
  <2>2. admitted' = [admitted EXCEPT ![g] = {}]
    BY <1>0, <2>1 DEF QueuesTyped
  <2>3. QED
    BY <2>1, <2>2, ReadByHost
<1>5. ASSUME NEW g \in Rooms, NEW r \in admitting[g], Queues!StoreWelcome(g, r)
      PROVE  QueuesInv' /\ \A h \in Rooms : RequestsKept(h)
  <2>1. /\ UNCHANGED <<now, deleted, requests>>
        /\ admitting' = [admitting EXCEPT ![g] = @ \ {r}]
        /\ admitted' = [admitted EXCEPT ![g] = @ \union {r}]
    BY <1>5 DEF Queues!StoreWelcome
  <2>2. QueuesTyped'
    BY <1>0, <2>1 DEF QueuesTyped
  <2>3. \A h \in Rooms : admitting'[h] \union admitted'[h] \subseteq admitting[h] \union admitted[h]
    BY <1>0, <2>1 DEF QueuesTyped
  <2>4. QED
    BY <2>1, <2>2, <2>3, RequestsStay
<1>6. ASSUME NEW g \in Rooms, NEW arrives \in BOOLEAN, Queues!AckRequests(g, arrives)
      PROVE  QueuesInv' /\ \A h \in Rooms : RequestsKept(h)
  <2>1. /\ UNCHANGED <<now, deleted>>
        /\ admitting' = [admitting EXCEPT ![g] = {}]
        /\ admitted' = [admitted EXCEPT ![g] = {}]
    BY <1>6 DEF Queues!AckRequests
  <2>2. CASE UNCHANGED requests
    <3>1. QueuesTyped'
      BY <1>0, <2>1, <2>2 DEF QueuesTyped
    <3>2. \A h \in Rooms : admitting'[h] \union admitted'[h] \subseteq admitting[h] \union admitted[h]
      BY <1>0, <2>1 DEF QueuesTyped
    <3>3. QED
      BY <2>1, <2>2, <3>1, <3>2, RequestsStay
  <2>3. CASE requests' = [requests EXCEPT
               ![g] = {Queues!Read(q) : q \in Queues!Unanswered(@, admitted[g])}]
    <3> DEFINE left == Queues!Unanswered(requests[g], admitted[g])
    <3>1. left \in SUBSET requests[g]
      BY DEF Queues!Unanswered
    <3>2. \A q \in requests[g] \ left : q.readAt # Queues!Never \/ q.again
      BY DEF Queues!Unanswered, QueuesInv, RoomInv
    <3>3. requests' = [requests EXCEPT ![g] = {Queues!Read(q) : q \in left}]
      BY <2>3
    <3>4. QED
      BY <2>1, <3>1, <3>2, <3>3, ReadByHost
  <2>4. QED
    BY <1>6, <2>2, <2>3 DEF Queues!AckRequests
<1>7. ASSUME NEW g \in Rooms, Queues!DeleteGroup(g)
      PROVE  QueuesInv' /\ \A h \in Rooms \ deleted' : RequestsKept(h)
  <2>1. /\ UNCHANGED <<now, admitting, admitted>> /\ deleted' = deleted \union {g}
        /\ requests' = [requests EXCEPT ![g] = {}]
    BY <1>7 DEF Queues!DeleteGroup, Queues!hostVars
  <2>2. QueuesTyped' /\ requests'[g] = {} /\ \A h \in Rooms \ {g} : requests'[h] = requests[h]
    BY <1>0, <2>1 DEF QueuesTyped
  <2>3. RoomInv(g)'
    BY <2>1, <2>2 DEF QueuesInv, RoomInv
  <2>4. ASSUME NEW h \in Rooms \ {g}
        PROVE  RoomInv(h)' /\ RequestsKept(h)
    <3>1. \A q \in requests[h] : q.at >= q.at
      BY DEF QueuesInv, QueuesTyped, Request
    <3>2. RequestsKept(h)
      BY <2>2, <3>1 DEF RequestsKept
    <3>3. QED
      BY <2>1, <2>2, <3>2, RoomStays DEF QueuesInv
  <2>5. QED
    BY <2>1, <2>2, <2>3, <2>4 DEF QueuesInv
<1>8. ASSUME NEW p \in Guests, NEW arrives \in BOOLEAN, Queues!AckWelcome(p, arrives)
      PROVE  QueuesInv' /\ \A h \in Rooms : RequestsKept(h)
  BY <1>0, <1>8, RequestsStay DEF Queues!AckWelcome, Queues!hostVars, QueuesTyped
<1>9. CASE Queues!Tick
  <2>1. /\ now' = now + 1 /\ UNCHANGED <<deleted, admitting, admitted>>
        /\ \/ UNCHANGED requests
           \/ requests' = [g \in Rooms |-> {q \in requests[g] : Queues!IsKept(q, now')}]
    BY <1>9 DEF Queues!Tick, Queues!hostVars
  <2>2. requests' \in [Rooms -> SUBSET Request] /\ \A g \in Rooms : requests'[g] \subseteq requests[g]
    BY <1>0, <2>1 DEF QueuesTyped
  <2>3. QueuesTyped'
    BY <1>0, <2>1, <2>2 DEF QueuesTyped
  <2>4. ASSUME NEW g \in Rooms
        PROVE  RoomInv(g)'
    <3>1. now \in Nat /\ requests[g] \subseteq Request /\ admitting[g] \union admitted[g] \subseteq Named
      BY <1>0 DEF QueuesTyped
    <3>2. /\ \A q \in requests'[g] : q.at <= now'
          /\ \A x \in admitting[g] \union admitted[g] : x.at < now'
      BY <2>1, <2>2, <3>1 DEF QueuesInv, RoomInv, Request, Named
    <3>3. \A x \in admitting[g] \union admitted[g] : x.at <= now' /\ x.at # now'
      BY <2>1, <3>1, <3>2 DEF Named
    <3>4. QED
      BY <2>1, <2>2, <3>2, <3>3 DEF QueuesInv, RoomInv, Queues!Name
  <2>5. ASSUME NEW g \in Rooms
        PROVE  RequestsKept(g)
    <3>1. \A q \in requests[g] : q.at >= q.at
      BY <1>0 DEF QueuesTyped, Request
    <3>2. \A q \in requests[g] : q.readAt = Queues!Never /\ q.at >= now' - UnreadTtl
                                   => q \in requests'[g]
      BY <2>1 DEF Queues!IsKept
    <3>3. QED
      BY <3>1, <3>2 DEF RequestsKept
  <2>6. QED
    BY <2>3, <2>4, <2>5 DEF QueuesInv
<1>10. QED
  BY <1>1, <1>2, <1>3, <1>4, <1>5, <1>6, <1>7, <1>8, <1>9 DEF Queues!Next

\* A request nobody has read leaves the queue only with its room, after its time, or if it
\* was made twice within one millisecond; for any rooms, guests and times.
THEOREM RetriedRequestsAreKept == Queues!Spec => RetriedRequestIsKept
<1>1. Queues!Init => QueuesInv
  BY DEF Queues!Init, QueuesInv, QueuesTyped, RoomInv
<1>2. QueuesInv /\ [Queues!Next]_Queues!vars => QueuesInv'
  BY QueuesStep
<1>3. QueuesInv /\ [Queues!Next]_Queues!vars =>
        [\A g \in Rooms \ deleted' : \A q \in requests[g] :
           q.readAt = Queues!Never /\ ~q.again /\ q.at >= now' - UnreadTtl
             => \E r \in requests'[g] : r.pk = q.pk /\ r.at >= q.at]_Queues!vars
  BY QueuesStep DEF RequestsKept
<1>4. QED
  BY <1>1, <1>2, <1>3, PTL DEF Queues!Spec, RetriedRequestIsKept, Queues!RetriedRequestIsKept

-----------------------------------------------------------------------------
(* JoinSignals.                                                            *)

Calls == {"none", "joined", "resumes", "awaits", "answered", "failed"}

\* What a waiting guest has asked for is held until it is done.  It is known to the pass
\* its call waits for, and to one that began before its call goes on.
SignalsInv ==
  /\ call \in [Askers -> Calls]
  /\ running = "sync" => pendingSync
  /\ \A a \in Signals!Waiting :
       /\ a \in held \union welcomed
       /\ a \notin disturbed => subscribed
       /\ a \notin disturbed /\ running = "sync" /\ call[a] \in {"resumes", "awaits"}
            => a \in fetched \union welcomed

\* What a step may do to the calls.
Brought(a) == a \in Signals!Waiting /\ call'[a] = "answered" /\ a \notin disturbed' => a \in welcomed'

LEMMA AfterIs ==
  ASSUME NEW a \in Askers, NEW outcome, call \in [Askers -> Calls]
  PROVE  /\ Signals!After(outcome)[a] \in Calls
         /\ call[a] = "joined" => Signals!After(outcome)[a] \in {"resumes", "failed"}
         /\ call[a] = "awaits" => Signals!After(outcome)[a] \in {"answered", "failed"}
         /\ call[a] \notin {"joined", "awaits"} => Signals!After(outcome)[a] = call[a]
<1>1. call[a] \in Calls
  OBVIOUS
<1>2. CASE call[a] \in {"joined", "awaits"} /\ outcome = "throws"
  <2>1. Signals!After(outcome)[a] = "failed"
    BY <1>2, Zenon DEF Signals!After
  <2>2. QED
    BY <1>2, <2>1 DEF Calls
<1>3. CASE call[a] = "joined" /\ outcome # "throws"
  <2>1. Signals!After(outcome)[a] = "resumes"
    BY <1>3, Zenon DEF Signals!After
  <2>2. QED
    BY <1>3, <2>1 DEF Calls
<1>4. CASE call[a] = "awaits" /\ outcome # "throws"
  <2>1. Signals!After(outcome)[a] = "answered"
    BY <1>4, Zenon DEF Signals!After
  <2>2. QED
    BY <1>4, <2>1 DEF Calls
<1>5. CASE call[a] \notin {"joined", "awaits"}
  <2>1. call[a] # "joined" /\ call[a] # "awaits"
    BY <1>5
  <2>2. Signals!After(outcome)[a] = call[a]
    BY <2>1, <1>5, Zenon DEF Signals!After
  <2>3. QED
    BY <1>1, <1>5, <2>2
<1>6. QED
  BY <1>2, <1>3, <1>4, <1>5

LEMMA EndsWell ==
  ASSUME SignalsInv, NEW outcome, Signals!SyncEnds(outcome), running' = "none",
         UNCHANGED <<held, welcomed, subscribed>>,
         outcome = "done" => fetched = {}
  PROVE  SignalsInv' /\ \A a \in Askers : Brought(a)
<1>1. CASE running # "sync"
  BY <1>1 DEF SignalsInv, Signals!SyncEnds, Signals!Waiting, Brought
<1>2. CASE running = "sync"
  <2>1. /\ call' = Signals!After(outcome)
        /\ disturbed' = IF outcome = "done" THEN disturbed
                        ELSE disturbed \union {a \in Askers : call[a] = "awaits"}
    BY <1>2 DEF Signals!SyncEnds
  <2>2. \A a \in Askers :
          /\ call[a] \in Calls /\ call'[a] \in Calls
          /\ call[a] = "joined" => call'[a] \in {"resumes", "failed"}
          /\ call[a] = "awaits" => call'[a] \in {"answered", "failed"}
          /\ call[a] \notin {"joined", "awaits"} => call'[a] = call[a]
    BY <2>1, AfterIs DEF SignalsInv
  <2>3. call' \in [Askers -> Calls]
    BY <2>1, <2>2 DEF Signals!After
  <2>4. SignalsInv'
    BY <2>1, <2>2, <2>3 DEF SignalsInv, Signals!Waiting
  <2>5. ASSUME NEW a \in Askers
        PROVE  Brought(a)
    BY <1>2, <2>1, <2>2 DEF SignalsInv, Signals!Waiting, Brought
  <2>6. QED
    BY <2>4, <2>5
<1>3. QED
  BY <1>1, <1>2

LEMMA SignalsStep ==
  ASSUME SignalsInv, [Signals!Next]_Signals!signalVars
  PROVE  SignalsInv' /\ \A a \in Askers : Brought(a)
<1>1. CASE UNCHANGED Signals!signalVars
  BY <1>1 DEF Signals!signalVars, SignalsInv, Signals!Waiting, Brought
<1>2. CASE Signals!Attach \/ Signals!Poll \/ Signals!SendBegins
  BY <1>2 DEF Signals!Attach, Signals!Poll, Signals!SendBegins, SignalsInv, Signals!Waiting, Brought
<1>3. CASE Signals!SyncBegins
  BY <1>3 DEF Signals!SyncBegins, Signals!Fetched, SignalsInv, Signals!Waiting, Brought
<1>4. CASE Signals!OperationEnds
  BY <1>4, EndsWell DEF Signals!OperationEnds
<1>5. CASE Signals!OperationFails
  BY <1>5, EndsWell DEF Signals!OperationFails
<1>6. CASE Signals!Stop
  BY <1>6 DEF Signals!Stop, SignalsInv, Signals!Waiting, Brought
<1>7. ASSUME NEW a \in Askers, Signals!StoreJoinRequest(a)
      PROVE  SignalsInv' /\ \A b \in Askers : Brought(b)
  <2>1. /\ a \notin Signals!Waiting /\ held' = held \union {a} /\ welcomed' = welcomed \ {a}
        /\ disturbed' = disturbed \ {a} /\ UNCHANGED <<subscribed, running, fetched>>
        /\ pendingSync => pendingSync'
        /\ \E c \in {"joined", "awaits", "answered"} :
             /\ call' = [call EXCEPT ![a] = c]
             /\ c # "answered" => subscribed
             /\ c = "awaits" => ~pendingSync
    BY <1>7 DEF Signals!StoreJoinRequest, Signals!Signalled
  <2>2. PICK c \in {"joined", "awaits", "answered"} :
             /\ call' = [call EXCEPT ![a] = c]
             /\ c # "answered" => subscribed
             /\ c = "awaits" => ~pendingSync
    BY <2>1
  <2>3. call' \in [Askers -> Calls] /\ call'[a] = c /\ \A b \in Askers \ {a} : call'[b] = call[b]
    BY <2>2 DEF SignalsInv, Calls
  <2>4. SignalsInv'
    BY <2>1, <2>2, <2>3 DEF SignalsInv, Signals!Waiting
  <2>5. ASSUME NEW b \in Askers
        PROVE  Brought(b)
    BY <2>1, <2>3 DEF Signals!Waiting, Brought
  <2>6. QED
    BY <2>4, <2>5
<1>8. ASSUME NEW a \in Askers, Signals!Admit(a)
      PROVE  SignalsInv' /\ \A b \in Askers : Brought(b)
  BY <1>8 DEF Signals!Admit, SignalsInv, Signals!Waiting, Brought
<1>9. ASSUME NEW a \in Askers, Signals!Resume(a)
      PROVE  SignalsInv' /\ \A b \in Askers : Brought(b)
  <2>1. /\ call[a] = "resumes" /\ a \in Signals!Waiting
        /\ UNCHANGED <<held, welcomed, subscribed, running, fetched, disturbed>>
        /\ pendingSync => pendingSync'
    BY <1>9 DEF Signals!Resume, Signals!Waiting
  <2>2. /\ call' \in [Askers -> Calls] /\ \A b \in Askers \ {a} : call'[b] = call[b]
        /\ call'[a] = IF subscribed THEN "awaits" ELSE "answered"
    BY <1>9 DEF Signals!Resume, SignalsInv, Calls
  <2>3. SignalsInv'
    BY <2>1, <2>2 DEF SignalsInv, Signals!Waiting
  <2>4. ASSUME NEW b \in Askers
        PROVE  Brought(b)
    BY <2>1, <2>2 DEF SignalsInv, Signals!Waiting, Brought
  <2>5. QED
    BY <2>3, <2>4
<1>10. QED
  BY <1>1, <1>2, <1>3, <1>4, <1>5, <1>6, <1>7, <1>8, <1>9 DEF Signals!Next

\* A guest whose request was signalled to a session finds its welcome when it has the
\* answer, unless the pass failed or the session was stopped; for any number of guests.
THEOREM AnswersBringWelcomes == Signals!Spec => AnswerBringsWelcome
<1>1. Signals!Init => SignalsInv
  BY DEF Signals!Init, SignalsInv, Signals!Waiting, Calls
<1>2. SignalsInv /\ [Signals!Next]_Signals!signalVars => SignalsInv'
  BY SignalsStep
<1>3. SignalsInv /\ [Signals!Next]_Signals!signalVars =>
        [\A a \in Askers : a \in Signals!Waiting /\ call'[a] = "answered" /\ a \notin disturbed'
                             => a \in welcomed']_Signals!signalVars
  BY SignalsStep DEF Brought
<1>4. QED
  BY <1>1, <1>2, <1>3, PTL DEF Signals!Spec, AnswerBringsWelcome, Signals!AnswerBringsWelcome
===============================================================================
