------------------------------ MODULE SublistProofs ------------------------------
(***************************************************************************)
(* What Only keeps of a sequence.  The induction is over sets of numbers:  *)
(* a set of counterexamples that is not empty would have a least one.      *)
(***************************************************************************)
EXTENDS Sublists, Integers, WellFoundedInduction, TLAPS

Less == {p \in Nat \X Nat : p[1] < p[2]}

\* A set of natural numbers that is not empty has a least element.
LEMMA LeastNumber ==
  ASSUME NEW T \in SUBSET Nat, T # {}
  PROVE  \E n \in T : \A m \in T : n <= m
<1>1. IsWellFoundedOn(OpToRel(<, Nat), Nat)
  BY NatLessThanWellFounded
<1>2. OpToRel(<, Nat) = Less
  BY DEF OpToRel, Less
<1>3. PICK n \in T : \A m \in T : ~(<<m, n>> \in Less)
  BY <1>1, <1>2, WFMin
<1>4. ASSUME NEW m \in T
      PROVE  n <= m
  <2>1. m \in Nat /\ n \in Nat /\ ~(m < n)
    BY <1>3 DEF Less
  <2>2. QED
    BY <2>1
<1>5. QED
  BY <1>4

\* A set of numbers up to a bound that has the first and the next of each has all.
LEMMA UpTo ==
  ASSUME NEW lo \in Int, NEW hi \in Int, NEW G,
         lo <= hi => lo \in G,
         \A n \in lo..hi : n < hi /\ n \in G => n + 1 \in G
  PROVE  lo..hi \subseteq G
<1> SUFFICES ASSUME ~(lo..hi \subseteq G) PROVE FALSE
  OBVIOUS
<1> DEFINE Bad == {k \in Nat : lo + k \in lo..hi /\ lo + k \notin G}
<1>1. Bad # {}
  <2>1. PICK n \in lo..hi : n \notin G
    OBVIOUS
  <2>2. n - lo \in Nat /\ lo + (n - lo) = n
    OBVIOUS
  <2>3. QED
    BY <2>1, <2>2
<1>2. Bad \in SUBSET Nat
  OBVIOUS
<1>3. PICK k \in Bad : \A m \in Bad : k <= m
  BY <1>1, <1>2, LeastNumber
<1>4. k \in Nat /\ lo + k \in lo..hi /\ lo + k \notin G
  OBVIOUS
<1>5. k # 0
  BY <1>4
<1>6. k - 1 \in Nat /\ lo + (k - 1) \in lo..hi /\ lo + (k - 1) < hi /\ ~(k <= k - 1)
      /\ lo + (k - 1) + 1 = lo + k
  BY <1>4, <1>5
<1>7. lo + (k - 1) \in G
  BY <1>3, <1>6
<1>8. QED
  BY <1>4, <1>6, <1>7

-----------------------------------------------------------------------------
(* The recursive function of Only.                                         *)

Kept(seq, S) ==
  LET kept[n \in 0..Len(seq)] ==
        IF n = 0 THEN <<>>
        ELSE IF seq[n] \in S THEN Append(kept[n - 1], seq[n]) ELSE kept[n - 1]
  IN kept

\* One more element than prev.
Grown(seq, S, prev, n) == IF seq[n] \in S THEN Append(prev, seq[n]) ELSE prev

LEMMA OnlyIsKept == \A seq, S : Only(seq, S) = Kept(seq, S)[Len(seq)]
BY DEF Only, Kept

\* g is that function up to m.
Unfolds(seq, S, g, m) ==
  g = [n \in 0..m |-> IF n = 0 THEN <<>>
                      ELSE IF seq[n] \in S THEN Append(g[n - 1], seq[n]) ELSE g[n - 1]]

\* What that says of each value of g.
Follows(seq, S, g, m) ==
  g[0] = <<>> /\ \A n \in 1..m : g[n] = Grown(seq, S, g[n - 1], n)

LEMMA UnfoldsMeans ==
  \A seq, S, g : \A m \in Nat : Unfolds(seq, S, g, m) => Follows(seq, S, g, m)
<1> SUFFICES ASSUME NEW seq, NEW S, NEW g, NEW m \in Nat, Unfolds(seq, S, g, m)
             PROVE  Follows(seq, S, g, m)
  BY Zenon
<1>1. \A n \in 0..m : g[n] = IF n = 0 THEN <<>>
                             ELSE IF seq[n] \in S THEN Append(g[n - 1], seq[n]) ELSE g[n - 1]
  BY Zenon DEF Unfolds
<1>2. 0 \in 0..m
  OBVIOUS
<1>3. ASSUME NEW n \in 1..m
      PROVE  n \in 0..m /\ n # 0
  OBVIOUS
<1>4. ASSUME NEW n \in 1..m
      PROVE  g[n] = Grown(seq, S, g[n - 1], n)
  BY <1>1, <1>3, Zenon DEF Grown
<1>5. QED
  BY <1>1, <1>2, <1>4, Zenon DEF Follows

LEMMA UnfoldsStep ==
  ASSUME NEW seq, NEW S, NEW m \in Nat, NEW g, Unfolds(seq, S, g, m)
  PROVE  \E h : Unfolds(seq, S, h, m + 1)
<1>0. Follows(seq, S, g, m)
  BY UnfoldsMeans, Zenon
<1> DEFINE h == [n \in 0..(m + 1) |-> IF n = m + 1 THEN Grown(seq, S, g[m], m + 1) ELSE g[n]]
<1>1. /\ g[0] = <<>>
      /\ \A n \in 1..m : g[n] = IF seq[n] \in S THEN Append(g[n - 1], seq[n]) ELSE g[n - 1]
  BY <1>0 DEF Grown, Follows
<1>2. h = [n \in 0..(m + 1) |-> h[n]] /\ h[m + 1] = Grown(seq, S, g[m], m + 1)
      /\ \A n \in 0..m : h[n] = g[n]
  OBVIOUS
<1> HIDE DEF h
<1>3. h[0] = <<>>
  BY <1>1, <1>2
<1>4. ASSUME NEW n \in 1..(m + 1)
      PROVE  h[n] = IF seq[n] \in S THEN Append(h[n - 1], seq[n]) ELSE h[n - 1]
  <2>1. CASE n = m + 1
    <3>1. h[n - 1] = g[m]
      BY <1>2, <2>1
    <3>2. QED
      BY <1>2, <2>1, <3>1 DEF Grown
  <2>2. CASE n # m + 1
    <3>1. n \in 1..m /\ n \in 0..m /\ n - 1 \in 0..m
      BY <2>2
    <3>2. QED
      BY <1>1, <1>2, <3>1
  <2>3. QED
    BY <2>1, <2>2
<1>5. \A n \in 0..(m + 1) : n = 0 \/ n \in 1..(m + 1)
  OBVIOUS
<1>6. h = [n \in 0..(m + 1) |-> IF n = 0 THEN <<>>
             ELSE IF seq[n] \in S THEN Append(h[n - 1], seq[n]) ELSE h[n - 1]]
  BY <1>2, <1>3, <1>4, <1>5
<1>7. QED
  BY <1>6, Zenon DEF Unfolds

LEMMA KeptUnfolds ==
  ASSUME NEW T, NEW seq \in Seq(T), NEW S
  PROVE  Follows(seq, S, Kept(seq, S), Len(seq))
<1> DEFINE G == {m \in 0..Len(seq) : \E g : Unfolds(seq, S, g, m)}
<1>0. Len(seq) \in Nat
  OBVIOUS
<1>1. 0 \in G
  <2>1. Unfolds(seq, S, [n \in 0..0 |-> <<>>], 0)
    BY DEF Unfolds
  <2>2. QED
    BY <1>0, <2>1
<1>2. ASSUME NEW m \in 0..Len(seq), m < Len(seq), m \in G
      PROVE  m + 1 \in G
  BY <1>0, <1>2, UnfoldsStep
<1>3. 0..Len(seq) \subseteq G
  <2>1. \A m \in 0..Len(seq) : m < Len(seq) /\ m \in G => m + 1 \in G
    BY <1>2
  <2> HIDE DEF G
  <2>2. 0 \in Int /\ Len(seq) \in Int
    BY <1>0
  <2>3. QED
    BY <1>1, <2>1, <2>2, UpTo
<1>4. \E g : Unfolds(seq, S, g, Len(seq))
  BY <1>0, <1>3
<1>5. Kept(seq, S) = CHOOSE f : Unfolds(seq, S, f, Len(seq))
  BY DEF Kept, Unfolds
<1>6. Unfolds(seq, S, Kept(seq, S), Len(seq))
  BY <1>4, <1>5
<1>7. QED
  BY <1>0, <1>6, UnfoldsMeans, Zenon

LEMMA ElementsOfAppend ==
  ASSUME NEW T, NEW s \in Seq(T), NEW e \in T
  PROVE  Append(s, e) \in Seq(T) /\ Elements(Append(s, e)) = Elements(s) \union {e}
<1>1. /\ Append(s, e) \in Seq(T) /\ Len(Append(s, e)) = Len(s) + 1 /\ Len(s) \in Nat
      /\ Append(s, e)[Len(s) + 1] = e
      /\ \A i \in 1..Len(s) : Append(s, e)[i] = s[i]
  OBVIOUS
<1>2. 1..(Len(s) + 1) = 1..Len(s) \union {Len(s) + 1}
  BY <1>1
<1>3. QED
  BY <1>1, <1>2 DEF Elements

\* What is kept of the first n elements: those that are in the set, and all of them.
KeptFits(T, seq, S, n) ==
  /\ Kept(seq, S)[n] \in Seq(T)
  /\ Elements(Kept(seq, S)[n]) = {seq[i] : i \in 1..n} \intersect S

LEMMA KeptKeeps == \A T, S : \A seq \in Seq(T) : \A n \in 0..Len(seq) : KeptFits(T, seq, S, n)
<1> SUFFICES ASSUME NEW T, NEW S, NEW seq \in Seq(T)
             PROVE  \A n \in 0..Len(seq) : KeptFits(T, seq, S, n)
  OBVIOUS
<1> DEFINE First(n) == {seq[i] : i \in 1..n} \intersect S
           K == Kept(seq, S)
           G == {n \in 0..Len(seq) : K[n] \in Seq(T) /\ Elements(K[n]) = First(n)}
<1>0. Len(seq) \in Nat
  OBVIOUS
<1>1. 0 \in G
  <2>1. K[0] = <<>> /\ Elements(<<>>) = {} /\ First(0) = {}
    BY KeptUnfolds DEF Elements, Follows
  <2>2. K[0] \in Seq(T) /\ 0 \in 0..Len(seq)
    BY <1>0, <2>1
  <2> HIDE DEF K, First
  <2>3. QED
    BY <2>1, <2>2
<1>2. ASSUME NEW n \in 0..Len(seq), n < Len(seq), n \in G
      PROVE  n + 1 \in G
  <2>1. K[n] \in Seq(T) /\ Elements(K[n]) = First(n)
    BY <1>2
  <2>2. n + 1 \in 0..Len(seq) /\ n + 1 \in 1..Len(seq) /\ (n + 1) - 1 = n /\ seq[n + 1] \in T
    BY <1>0, <1>2
  <2>3. K[n + 1] = Grown(seq, S, K[n], n + 1)
    BY <2>2, KeptUnfolds DEF Follows
  <2>4. {seq[i] : i \in 1..(n + 1)} = {seq[i] : i \in 1..n} \union {seq[n + 1]}
    BY <1>2, <2>2
  <2> HIDE DEF K
  <2>5. CASE seq[n + 1] \in S
    <3>1. K[n + 1] = Append(K[n], seq[n + 1])
      BY <2>3, <2>5 DEF Grown
    <3>2. First(n + 1) = First(n) \union {seq[n + 1]}
      BY <2>4, <2>5
    <3>3. K[n + 1] \in Seq(T) /\ Elements(K[n + 1]) = Elements(K[n]) \union {seq[n + 1]}
      BY <2>1, <2>2, <3>1, ElementsOfAppend
    <3> HIDE DEF First
    <3>4. QED
      BY <2>1, <2>2, <3>2, <3>3
  <2>6. CASE seq[n + 1] \notin S
    <3>1. K[n + 1] = K[n]
      BY <2>3, <2>6 DEF Grown
    <3>2. First(n + 1) = First(n)
      BY <2>4, <2>6
    <3> HIDE DEF First
    <3>3. QED
      BY <2>1, <2>2, <3>1, <3>2
  <2>7. QED
    BY <2>5, <2>6
<1>3. 0..Len(seq) \subseteq G
  <2>1. \A n \in 0..Len(seq) : n < Len(seq) /\ n \in G => n + 1 \in G
    BY <1>2
  <2> HIDE DEF G
  <2>2. 0 \in Int /\ Len(seq) \in Int
    BY <1>0
  <2>3. QED
    BY <1>1, <2>1, <2>2, UpTo
<1>4. QED
  BY <1>3 DEF KeptFits

\* Only keeps elements of the sequence, those that are in the set, and all of them.
LEMMA OnlyKeeps ==
  ASSUME NEW T, NEW seq \in Seq(T), NEW S
  PROVE  /\ Only(seq, S) \in Seq(T)
         /\ Elements(Only(seq, S)) = Elements(seq) \intersect S
<1>1. Len(seq) \in 0..Len(seq)
  OBVIOUS
<1>2. Only(seq, S) = Kept(seq, S)[Len(seq)] /\ Elements(seq) = {seq[i] : i \in 1..Len(seq)}
  BY OnlyIsKept DEF Elements
<1>3. /\ Kept(seq, S)[Len(seq)] \in Seq(T)
      /\ Elements(Kept(seq, S)[Len(seq)]) = {seq[i] : i \in 1..Len(seq)} \intersect S
  <2>1. KeptFits(T, seq, S, Len(seq))
    BY <1>1, KeptKeeps, Zenon
  <2>2. QED
    BY <2>1, Zenon DEF KeptFits
<1>4. QED
  BY <1>2, <1>3, Zenon

-----------------------------------------------------------------------------
(* How what is kept of one sequence follows from another.                  *)

\* The induction on the number of elements that are looked at.
LEMMA UpToLength ==
  ASSUME NEW T, NEW seq \in Seq(T), NEW G, 0 \in G,
         \A n \in 0..Len(seq) : n < Len(seq) /\ n \in G => n + 1 \in G
  PROVE  0..Len(seq) \subseteq G
<1>1. 0 \in Int /\ Len(seq) \in Int
  OBVIOUS
<1>2. QED
  BY <1>1, UpTo

\* What is kept of the first n + 1 elements, by what is kept of n.
Grows(seq, S, n) ==
  /\ seq[n + 1] \in S => Kept(seq, S)[n + 1] = Append(Kept(seq, S)[n], seq[n + 1])
  /\ seq[n + 1] \notin S => Kept(seq, S)[n + 1] = Kept(seq, S)[n]

LEMMA KeptNext ==
  \A T, S : \A seq \in Seq(T) : \A n \in 0..Len(seq) : n < Len(seq) => Grows(seq, S, n)
<1> SUFFICES ASSUME NEW T, NEW S, NEW seq \in Seq(T), NEW n \in 0..Len(seq), n < Len(seq)
             PROVE  Grows(seq, S, n)
  OBVIOUS
<1>1. n + 1 \in 1..Len(seq) /\ (n + 1) - 1 = n
  OBVIOUS
<1>2. Kept(seq, S)[n + 1] = Grown(seq, S, Kept(seq, S)[n], n + 1)
  BY <1>1, KeptUnfolds DEF Follows
<1>3. QED
  BY <1>2 DEF Grown, Grows

LEMMA KeptOfNone == \A T, S : \A seq \in Seq(T) : Kept(seq, S)[0] = <<>>
<1> SUFFICES ASSUME NEW T, NEW S, NEW seq \in Seq(T) PROVE Kept(seq, S)[0] = <<>>
  OBVIOUS
<1>1. QED
  BY KeptUnfolds DEF Follows

\* Sets that have the same elements of a sequence keep the same of it.
LEMMA OnlyOfTheSame ==
  ASSUME NEW T, NEW seq \in Seq(T), NEW S, NEW R,
         Elements(seq) \intersect S = Elements(seq) \intersect R
  PROVE  Only(seq, S) = Only(seq, R)
<1> DEFINE G == {n \in 0..Len(seq) : Kept(seq, S)[n] = Kept(seq, R)[n]}
<1>1. 0 \in G
  BY KeptOfNone
<1>2. ASSUME NEW n \in 0..Len(seq), n < Len(seq), n \in G
      PROVE  n + 1 \in G
  <2>1. Kept(seq, S)[n] = Kept(seq, R)[n]
    BY <1>2
  <2>2. n + 1 \in 1..Len(seq) /\ n + 1 \in 0..Len(seq)
    BY <1>2
  <2>3. seq[n + 1] \in S <=> seq[n + 1] \in R
    BY <2>2 DEF Elements
  <2>4. Grows(seq, S, n) /\ Grows(seq, R, n)
    BY <1>2, KeptNext, Zenon
  <2>5. Kept(seq, S)[n + 1] = Kept(seq, R)[n + 1]
    BY <2>1, <2>3, <2>4, Zenon DEF Grows
  <2>6. QED
    BY <2>2, <2>5
<1>3. 0..Len(seq) \subseteq G
  <2>1. \A n \in 0..Len(seq) : n < Len(seq) /\ n \in G => n + 1 \in G
    BY <1>2
  <2> HIDE DEF G
  <2>2. QED
    BY <1>1, <2>1, UpToLength
<1>4. Len(seq) \in G
  <2>1. Len(seq) \in 0..Len(seq)
    OBVIOUS
  <2> HIDE DEF G
  <2>2. QED
    BY <1>3, <2>1
<1>5. QED
  BY <1>4, OnlyIsKept

\* What is kept of one more element.
KeepsOneMore(seq, x, S) ==
  Only(Append(seq, x), S) = IF x \in S THEN Append(Only(seq, S), x) ELSE Only(seq, S)

LEMMA OnlyOfAppend == \A T, S : \A seq \in Seq(T) : \A x \in T : KeepsOneMore(seq, x, S)
<1> SUFFICES ASSUME NEW T, NEW S, NEW seq \in Seq(T), NEW x \in T
             PROVE  KeepsOneMore(seq, x, S)
  OBVIOUS
<1> DEFINE more == Append(seq, x)
           G == {n \in 0..Len(seq) : Kept(seq, S)[n] = Kept(more, S)[n]}
<1>0. /\ more \in Seq(T) /\ Len(more) = Len(seq) + 1 /\ Len(seq) \in Nat
      /\ more[Len(seq) + 1] = x /\ \A i \in 1..Len(seq) : more[i] = seq[i]
  OBVIOUS
<1> HIDE DEF more
<1>1. 0 \in G
  BY <1>0, KeptOfNone
<1>2. ASSUME NEW n \in 0..Len(seq), n < Len(seq), n \in G
      PROVE  n + 1 \in G
  <2>1. Kept(seq, S)[n] = Kept(more, S)[n]
    BY <1>2
  <2>2. n + 1 \in 1..Len(seq) /\ n + 1 \in 0..Len(seq) /\ n \in 0..Len(more) /\ n < Len(more)
    BY <1>0, <1>2
  <2>3. more[n + 1] = seq[n + 1]
    BY <1>0, <2>2
  <2>4. Grows(seq, S, n) /\ Grows(more, S, n)
    BY <1>0, <1>2, <2>2, KeptNext, Zenon
  <2>5. Kept(seq, S)[n + 1] = Kept(more, S)[n + 1]
    BY <2>1, <2>3, <2>4, Zenon DEF Grows
  <2>6. QED
    BY <2>2, <2>5
<1>3. 0..Len(seq) \subseteq G
  <2>1. \A n \in 0..Len(seq) : n < Len(seq) /\ n \in G => n + 1 \in G
    BY <1>2
  <2> HIDE DEF G
  <2>2. QED
    BY <1>1, <2>1, UpToLength
<1>4. Kept(seq, S)[Len(seq)] = Kept(more, S)[Len(seq)]
  <2>1. Len(seq) \in 0..Len(seq)
    BY <1>0
  <2>2. QED
    BY <1>3, <2>1
<1>5. /\ x \in S => Kept(more, S)[Len(seq) + 1] = Append(Kept(more, S)[Len(seq)], x)
      /\ x \notin S => Kept(more, S)[Len(seq) + 1] = Kept(more, S)[Len(seq)]
  <2>1. Len(seq) \in 0..Len(more) /\ Len(seq) < Len(more)
    BY <1>0
  <2>2. Grows(more, S, Len(seq))
    BY <1>0, <2>1, KeptNext, Zenon
  <2>3. QED
    BY <1>0, <2>2 DEF Grows
<1>6. Only(more, S) = IF x \in S THEN Append(Only(seq, S), x) ELSE Only(seq, S)
  BY <1>0, <1>4, <1>5, OnlyIsKept
<1>7. QED
  BY <1>6 DEF more, KeepsOneMore

\* To keep one set of what is kept of another.
LEMMA OnlyOfOnly ==
  ASSUME NEW T, NEW seq \in Seq(T), NEW S, NEW R
  PROVE  Only(Only(seq, S), R) = Only(seq, S \intersect R)
<1> DEFINE K == Kept(seq, S)
           B == Kept(seq, S \intersect R)
           G == {n \in 0..Len(seq) : Only(K[n], R) = B[n]}
<1>1. 0 \in G
  <2>1. K[0] = <<>> /\ B[0] = <<>>
    BY KeptOfNone
  <2>2. Only(<<>>, R) = <<>>
    <3>1. <<>> \in Seq(T) /\ Len(<<>>) = 0
      OBVIOUS
    <3>2. QED
      BY <3>1, KeptOfNone, OnlyIsKept
  <2>3. 0 \in 0..Len(seq)
    OBVIOUS
  <2> HIDE DEF K, B
  <2>4. QED
    BY <2>1, <2>2, <2>3
<1>2. ASSUME NEW n \in 0..Len(seq), n < Len(seq), n \in G
      PROVE  n + 1 \in G
  <2> DEFINE x == seq[n + 1]
  <2>0. Grows(seq, S, n) /\ Grows(seq, S \intersect R, n) /\ KeptFits(T, seq, S, n)
    BY <1>2, KeptNext, KeptKeeps, Zenon
  <2>1. Only(K[n], R) = B[n] /\ K[n] \in Seq(T)
    BY <1>2, <2>0 DEF KeptFits
  <2>2. n + 1 \in 0..Len(seq) /\ x \in T
    BY <1>2
  <2>3. /\ x \in S => K[n + 1] = Append(K[n], x)
        /\ x \notin S => K[n + 1] = K[n]
    BY <2>0, Zenon DEF Grows
  <2>4. /\ x \in S \intersect R => B[n + 1] = Append(B[n], x)
        /\ x \notin S \intersect R => B[n + 1] = B[n]
    BY <2>0, Zenon DEF Grows
  <2> HIDE DEF K, B, x
  <2>5. Only(Append(K[n], x), R) = IF x \in R THEN Append(Only(K[n], R), x) ELSE Only(K[n], R)
    <3>1. KeepsOneMore(K[n], x, R)
      BY <2>1, <2>2, OnlyOfAppend, Zenon
    <3>2. QED
      BY <3>1 DEF KeepsOneMore
  <2>6. Only(K[n + 1], R) = B[n + 1]
    BY <2>1, <2>3, <2>4, <2>5
  <2>7. QED
    BY <2>2, <2>6
<1>3. 0..Len(seq) \subseteq G
  <2>1. \A n \in 0..Len(seq) : n < Len(seq) /\ n \in G => n + 1 \in G
    BY <1>2
  <2> HIDE DEF G
  <2>2. QED
    BY <1>1, <2>1, UpToLength
<1>4. Only(K[Len(seq)], R) = B[Len(seq)]
  <2>1. Len(seq) \in 0..Len(seq)
    OBVIOUS
  <2>2. QED
    BY <1>3, <2>1
<1>5. QED
  BY <1>4, OnlyIsKept

\* What is kept behind a first element.
LEMMA OnlyBehind ==
  ASSUME NEW T, NEW seq \in Seq(T), NEW x \in T, NEW S
  PROVE  Only(<<x>> \o seq, S) = (IF x \in S THEN <<x>> ELSE <<>>) \o Only(seq, S)
<1> DEFINE more == <<x>> \o seq
           first == IF x \in S THEN <<x>> ELSE <<>>
           G == {n \in 0..Len(seq) : Kept(more, S)[n + 1] = first \o Kept(seq, S)[n]}
<1>0. /\ more \in Seq(T) /\ Len(more) = Len(seq) + 1 /\ Len(seq) \in Nat
      /\ more[1] = x /\ \A i \in 1..Len(seq) : more[i + 1] = seq[i]
  OBVIOUS
<1>01. first \in Seq(T) /\ \A s \in Seq(T) : \A y \in T : first \o Append(s, y) = Append(first \o s, y)
  <2>1. first \in Seq(T)
    OBVIOUS
  <2> HIDE DEF first
  <2>2. QED
    BY <2>1
<1>02. first \o <<>> = first
  BY <1>01
<1> HIDE DEF more
<1>1. 0 \in G
  <2>1. 0 \in 0..Len(more) /\ 0 < Len(more) /\ 0 + 1 = 1 /\ 0 \in 0..Len(seq)
    BY <1>0
  <2>2. /\ x \in S => Kept(more, S)[1] = Append(<<>>, x)
        /\ x \notin S => Kept(more, S)[1] = <<>>
    <3>1. Grows(more, S, 0) /\ Kept(more, S)[0] = <<>>
      BY <1>0, <2>1, KeptNext, KeptOfNone, Zenon
    <3>2. QED
      BY <1>0, <2>1, <3>1, Zenon DEF Grows
  <2>3. Kept(more, S)[1] = first
    BY <2>2
  <2>4. Kept(seq, S)[0] = <<>>
    BY KeptOfNone
  <2> HIDE DEF first
  <2>5. QED
    BY <1>02, <2>1, <2>3, <2>4
<1>2. ASSUME NEW n \in 0..Len(seq), n < Len(seq), n \in G
      PROVE  n + 1 \in G
  <2> DEFINE y == seq[n + 1]
             m == n + 1
  <2>0. Grows(seq, S, n) /\ KeptFits(T, seq, S, n)
    BY <1>2, KeptNext, KeptKeeps, Zenon
  <2>1. Kept(more, S)[m] = first \o Kept(seq, S)[n] /\ Kept(seq, S)[n] \in Seq(T)
    BY <1>2, <2>0 DEF KeptFits
  <2>2. m \in 0..Len(seq) /\ y \in T /\ m \in 0..Len(more) /\ m < Len(more)
        /\ more[m + 1] = y
    BY <1>0, <1>2
  <2>3. /\ y \in S => Kept(seq, S)[m] = Append(Kept(seq, S)[n], y)
        /\ y \notin S => Kept(seq, S)[m] = Kept(seq, S)[n]
    BY <2>0, Zenon DEF Grows
  <2> HIDE DEF m
  <2>4. /\ y \in S => Kept(more, S)[m + 1] = Append(Kept(more, S)[m], y)
        /\ y \notin S => Kept(more, S)[m + 1] = Kept(more, S)[m]
    <3>1. Grows(more, S, m)
      BY <1>0, <2>2, KeptNext, Zenon
    <3>2. QED
      BY <2>2, <3>1, Zenon DEF Grows
  <2> HIDE DEF first, y
  <2>5. Kept(more, S)[m + 1] = first \o Kept(seq, S)[m]
    BY <1>01, <2>1, <2>2, <2>3, <2>4
  <2>6. QED
    BY <2>2, <2>5 DEF m
<1>3. 0..Len(seq) \subseteq G
  <2>1. \A n \in 0..Len(seq) : n < Len(seq) /\ n \in G => n + 1 \in G
    BY <1>2
  <2> HIDE DEF G
  <2>2. QED
    BY <1>1, <2>1, UpToLength
<1>4. Kept(more, S)[Len(seq) + 1] = first \o Kept(seq, S)[Len(seq)]
  <2>1. Len(seq) \in 0..Len(seq)
    BY <1>0
  <2>2. QED
    BY <1>3, <2>1
<1>5. Only(more, S) = first \o Only(seq, S)
  BY <1>0, <1>4, OnlyIsKept
<1>6. QED
  BY <1>5 DEF more

-----------------------------------------------------------------------------
(* Sequences that have each element once.                                  *)

Distinct(seq) == \A i, j \in 1..Len(seq) : seq[i] = seq[j] => i = j

\* An element that is not there can be added.
LEMMA DistinctAppend ==
  \A T : \A s \in Seq(T) : \A e \in T :
    Distinct(s) /\ e \notin Elements(s) => Distinct(Append(s, e))
<1> SUFFICES ASSUME NEW T, NEW s \in Seq(T), NEW e \in T, Distinct(s), e \notin Elements(s)
             PROVE  Distinct(Append(s, e))
  OBVIOUS
<1>1. /\ Append(s, e) \in Seq(T) /\ Len(Append(s, e)) = Len(s) + 1 /\ Len(s) \in Nat
      /\ Append(s, e)[Len(s) + 1] = e
      /\ \A i \in 1..Len(s) : Append(s, e)[i] = s[i] /\ s[i] # e
  BY DEF Elements
<1>2. \A i \in 1..(Len(s) + 1) : i \in 1..Len(s) \/ i = Len(s) + 1
  BY <1>1
<1>3. QED
  BY <1>1, <1>2 DEF Distinct

\* What is kept of such a sequence is one.
LEMMA OnlyIsDistinct ==
  ASSUME NEW T, NEW seq \in Seq(T), NEW S, Distinct(seq)
  PROVE  Distinct(Only(seq, S))
<1> DEFINE K == Kept(seq, S)
           G == {n \in 0..Len(seq) : Distinct(K[n])}
<1>1. 0 \in G
  <2>1. K[0] = <<>> /\ 0 \in 0..Len(seq)
    BY KeptOfNone
  <2>2. Distinct(<<>>)
    BY DEF Distinct
  <2> HIDE DEF K
  <2>3. QED
    BY <2>1, <2>2
<1>2. ASSUME NEW n \in 0..Len(seq), n < Len(seq), n \in G
      PROVE  n + 1 \in G
  <2> DEFINE x == seq[n + 1]
  <2>1. Grows(seq, S, n) /\ KeptFits(T, seq, S, n)
    BY <1>2, KeptNext, KeptKeeps, Zenon
  <2>2. /\ K[n] \in Seq(T) /\ Elements(K[n]) = {seq[i] : i \in 1..n} \intersect S
        /\ x \in S => K[n + 1] = Append(K[n], x)
        /\ x \notin S => K[n + 1] = K[n]
    BY <2>1, Zenon DEF KeptFits, Grows
  <2>3. n + 1 \in 0..Len(seq) /\ x \in T /\ Distinct(K[n])
    BY <1>2
  <2>4. x \notin Elements(K[n])
    <3>1. n + 1 \in 1..Len(seq) /\ \A i \in 1..n : i \in 1..Len(seq) /\ i # n + 1
      BY <1>2
    <3>2. \A i \in 1..n : seq[i] # x
      BY <3>1 DEF Distinct
    <3> HIDE DEF x, K
    <3>3. QED
      BY <2>2, <3>2
  <2> HIDE DEF x, K
  <2>5. Distinct(K[n + 1])
    <3>1. Distinct(Append(K[n], x))
      BY <2>2, <2>3, <2>4, DistinctAppend, Zenon
    <3>2. QED
      BY <2>2, <2>3, <3>1
  <2>6. QED
    BY <2>3, <2>5
<1>3. 0..Len(seq) \subseteq G
  <2>1. \A n \in 0..Len(seq) : n < Len(seq) /\ n \in G => n + 1 \in G
    BY <1>2
  <2> HIDE DEF G
  <2>2. QED
    BY <1>1, <2>1, UpToLength
<1>4. Distinct(K[Len(seq)])
  <2>1. Len(seq) \in 0..Len(seq)
    OBVIOUS
  <2> HIDE DEF K
  <2>2. QED
    BY <1>3, <2>1
<1>5. QED
  BY <1>4, OnlyIsKept, Zenon

\* A set that has every element keeps the sequence.
LEMMA OnlyOfAll ==
  ASSUME NEW T, NEW seq \in Seq(T), NEW S, Elements(seq) \subseteq S
  PROVE  Only(seq, S) = seq
<1> DEFINE K == Kept(seq, S)
           Same(n) == Len(K[n]) = n /\ \A i \in 1..n : K[n][i] = seq[i]
           G == {n \in 0..Len(seq) : Same(n)}
<1>1. 0 \in G
  <2>1. K[0] = <<>> /\ 0 \in 0..Len(seq)
    BY KeptOfNone
  <2> HIDE DEF K
  <2>2. QED
    BY <2>1
<1>2. ASSUME NEW n \in 0..Len(seq), n < Len(seq), n \in G
      PROVE  n + 1 \in G
  <2> DEFINE x == seq[n + 1]
  <2>1. Grows(seq, S, n) /\ KeptFits(T, seq, S, n)
    BY <1>2, KeptNext, KeptKeeps, Zenon
  <2>2. n + 1 \in 0..Len(seq) /\ n + 1 \in 1..Len(seq) /\ n \in Nat
    BY <1>2
  <2>3. x \in T /\ x \in S
    BY <2>2 DEF Elements
  <2>4. K[n] \in Seq(T) /\ K[n + 1] = Append(K[n], x)
    BY <2>1, <2>3, Zenon DEF KeptFits, Grows
  <2>5. Same(n)
    BY <1>2
  <2>6. \A i \in 1..(n + 1) : i \in 1..n \/ i = n + 1
    BY <2>2
  <2>7. Same(n + 1)
    <3>1. K[n] \in Seq(T) /\ K[n + 1] = Append(K[n], x) /\ Len(K[n]) = n /\ x \in T
          /\ \A i \in 1..n : K[n][i] = seq[i]
      BY <2>3, <2>4, <2>5
    <3>2. x = seq[n + 1]
      OBVIOUS
    <3> HIDE DEF K, x
    <3>3. Len(K[n + 1]) = n + 1 /\ K[n + 1][n + 1] = x /\ \A i \in 1..n : K[n + 1][i] = K[n][i]
      BY <2>2, <3>1
    <3>4. QED
      BY <2>6, <3>1, <3>2, <3>3
  <2>8. QED
    BY <2>2, <2>7
<1>3. 0..Len(seq) \subseteq G
  <2>1. \A n \in 0..Len(seq) : n < Len(seq) /\ n \in G => n + 1 \in G
    BY <1>2
  <2> HIDE DEF G
  <2>2. QED
    BY <1>1, <2>1, UpToLength
<1>4. Same(Len(seq)) /\ K[Len(seq)] \in Seq(T)
  <2>1. Len(seq) \in 0..Len(seq)
    OBVIOUS
  <2>2. KeptFits(T, seq, S, Len(seq))
    BY <2>1, KeptKeeps, Zenon
  <2>3. K[Len(seq)] \in Seq(T)
    BY <2>2, Zenon DEF KeptFits
  <2>4. Same(Len(seq))
    BY <1>3, <2>1
  <2>5. QED
    BY <2>3, <2>4
<1>5. Only(seq, S) = K[Len(seq)]
  BY OnlyIsKept, Zenon
<1> HIDE DEF K
<1>6. QED
  BY <1>4, <1>5

\* What is left of it without the element at place p: those behind it move up.
LEMMA WithoutAt ==
  ASSUME NEW T, NEW seq \in Seq(T), Distinct(seq), NEW p \in 1..Len(seq)
  PROVE  /\ Without(seq, seq[p]) \in Seq(T)
         /\ Len(Without(seq, seq[p])) = Len(seq) - 1
         /\ \A i \in 1..(Len(seq) - 1) :
              Without(seq, seq[p])[i] = IF i < p THEN seq[i] ELSE seq[i + 1]
<1> DEFINE S == Elements(seq) \ {seq[p]}
           K == Kept(seq, S)
           size(n) == IF n < p THEN n ELSE n - 1
           at(i) == IF i < p THEN seq[i] ELSE seq[i + 1]
           Left(n) == Len(K[n]) = size(n) /\ \A i \in 1..size(n) : K[n][i] = at(i)
           G == {n \in 0..Len(seq) : Left(n)}
<1>1. 0 \in G
  <2>1. K[0] = <<>> /\ 0 \in 0..Len(seq) /\ size(0) = 0
    BY KeptOfNone
  <2> HIDE DEF K, at
  <2>2. QED
    BY <2>1
<1>2. ASSUME NEW n \in 0..Len(seq), n < Len(seq), n \in G
      PROVE  n + 1 \in G
  <2> DEFINE x == seq[n + 1]
  <2>1. Grows(seq, S, n) /\ KeptFits(T, seq, S, n)
    BY <1>2, KeptNext, KeptKeeps, Zenon
  <2>2. n + 1 \in 0..Len(seq) /\ n + 1 \in 1..Len(seq) /\ n \in Nat /\ x \in T /\ p \in Nat
        /\ p >= 1
    BY <1>2
  <2>3. x \in S <=> n + 1 # p
    BY <2>2 DEF Elements, Distinct
  <2>4. /\ K[n] \in Seq(T)
        /\ x \in S => K[n + 1] = Append(K[n], x)
        /\ x \notin S => K[n + 1] = K[n]
    BY <2>1, Zenon DEF KeptFits, Grows
  <2>5. Left(n)
    BY <1>2
  <2> HIDE DEF S, K
  <2>6. CASE n + 1 = p
    <3>1. K[n + 1] = K[n] /\ size(n + 1) = size(n)
      BY <2>2, <2>3, <2>4, <2>6
    <3> HIDE DEF size, at
    <3>2. Left(n + 1)
      BY <2>5, <3>1
    <3>3. QED
      BY <2>2, <3>2
  <2>7. CASE n + 1 # p
    <3>1. /\ size(n + 1) = size(n) + 1 /\ at(size(n) + 1) = x /\ size(n) \in Nat
          /\ \A i \in 1..(size(n) + 1) : i \in 1..size(n) \/ i = size(n) + 1
      BY <2>2, <2>7
    <3>2. K[n + 1] = Append(K[n], x)
      BY <2>3, <2>4, <2>7
    <3> HIDE DEF size, at, x
    <3>3. /\ Len(K[n + 1]) = size(n) + 1 /\ K[n + 1][size(n) + 1] = x
          /\ \A i \in 1..size(n) : K[n + 1][i] = K[n][i]
      BY <2>2, <2>4, <2>5, <3>1, <3>2
    <3>4. \A i \in 1..(size(n) + 1) : K[n + 1][i] = at(i)
      BY <2>5, <3>1, <3>3
    <3>5. Left(n + 1)
      BY <3>1, <3>3, <3>4
    <3>6. QED
      BY <2>2, <3>5
  <2>8. QED
    BY <2>6, <2>7
<1>3. 0..Len(seq) \subseteq G
  <2>1. \A n \in 0..Len(seq) : n < Len(seq) /\ n \in G => n + 1 \in G
    BY <1>2
  <2> HIDE DEF G
  <2>2. QED
    BY <1>1, <2>1, UpToLength
<1>4. Len(seq) \in 0..Len(seq) /\ size(Len(seq)) = Len(seq) - 1
  OBVIOUS
<1>5. K[Len(seq)] \in Seq(T)
  <2>1. KeptFits(T, seq, S, Len(seq))
    BY <1>4, KeptKeeps, Zenon
  <2>2. QED
    BY <2>1, Zenon DEF KeptFits
<1>6. Left(Len(seq))
  BY <1>3, <1>4
<1>7. Without(seq, seq[p]) = K[Len(seq)]
  BY OnlyIsKept, Zenon DEF Without
<1> HIDE DEF K, size
<1>8. QED
  BY <1>4, <1>5, <1>6, <1>7
===============================================================================
