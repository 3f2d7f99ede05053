-------------------------- MODULE SequenceLemmas --------------------------
(***************************************************************************)
(* Facts about bijections, sequences and least numbers that the proofs of   *)
(* the other modules cite.  Least numbers stand in for induction.           *)
(***************************************************************************)
EXTENDS Naturals, Sequences, Functions, SequencesExt, TLAPS,
        SequenceTheorems, WellFoundedInduction

SmallerPairs == {pair \in Nat \X Nat : pair[1] < pair[2]}

LEMMA SmallerPairsWellFounded == IsWellFoundedOn(SmallerPairs, Nat)
  BY NatLessThanWellFounded, Zenon DEF OpToRel, SmallerPairs

LEMMA LeastNatural ==
    ASSUME NEW S \in SUBSET Nat, S # {}
    PROVE  \E n \in S : \A m \in S : n <= m
<1>1. PICK n \in S : \A m \in S : ~(<<m, n>> \in SmallerPairs)
  BY SmallerPairsWellFounded, WFMin
<1>2. ASSUME NEW m \in S PROVE n <= m
  <2>1. <<m, n>> \in Nat \X Nat /\ n \in Nat /\ m \in Nat
    OBVIOUS
  <2>2. ~(m < n)
    BY <1>1, <2>1 DEF SmallerPairs
  <2> QED
    BY <2>1, <2>2
<1> QED
  BY <1>2

\* A set of numbers up to n has a greatest one, which is what Max gives.
LEMMA GreatestBelow ==
    ASSUME NEW n \in Nat, NEW S \in SUBSET (1..n), S # {}
    PROVE  Max(S) \in S /\ \A y \in S : Max(S) >= y
<1> DEFINE Behind == {k \in Nat : n - k \in S}
<1>1. Behind # {} /\ Behind \in SUBSET Nat
  <2>1. PICK x \in S : x \in 1..n
    OBVIOUS
  <2>2. n - x \in Nat /\ n - (n - x) = x
    BY <2>1
  <2> QED
    BY <2>1, <2>2
<1>2. PICK k \in Behind : \A m \in Behind : k <= m
  BY <1>1, LeastNatural
<1>3. ASSUME NEW y \in S PROVE n - k >= y
  <2>1. n - y \in Nat /\ n - (n - y) = y
    OBVIOUS
  <2>2. k <= n - y /\ k \in Nat
    BY <1>2, <2>1
  <2> QED
    BY <2>2
<1>4. \E z \in S : \A y \in S : z >= y
  BY <1>2, <1>3
<1> QED
  BY <1>4 DEF Max

LEMMA BijectionFacts ==
    ASSUME NEW S, NEW f \in Bijection(S, S)
    PROVE  /\ f \in [S -> S]
           /\ \A a, b \in S : f[a] = f[b] => a = b
           /\ \A b \in S : \E a \in S : f[a] = b
  BY DEF Bijection, Injection, Surjection, IsInjective

\* An increasing bijection of 1..n is the identity: look at the least number
\* it moves.
LEMMA IncreasingIsIdentity ==
    ASSUME NEW n \in Nat, NEW f \in Bijection(1..n, 1..n),
           \A i, j \in 1..n : i < j => f[i] < f[j]
    PROVE  \A i \in 1..n : f[i] = i
<1> DEFINE Moved == {i \in 1..n : f[i] # i}
<1>1. /\ f \in [1..n -> 1..n]
      /\ \A a, b \in 1..n : f[a] = f[b] => a = b
      /\ \A b \in 1..n : \E a \in 1..n : f[a] = b
  BY BijectionFacts
<1>2. SUFFICES ASSUME Moved # {} PROVE FALSE
  OBVIOUS
<1>3. PICK i \in Moved : \A m \in Moved : i <= m
  <2>1. Moved \in SUBSET Nat
    OBVIOUS
  <2> QED
    BY <1>2, <2>1, LeastNatural
<1>4. i \in 1..n /\ f[i] \in 1..n /\ f[i] # i
  BY <1>1, <1>3
<1>5. \A j \in 1..n : j < i => f[j] = j
  BY <1>3, <1>4
<1>6. f[i] > i
  <2>1. ASSUME f[i] < i PROVE FALSE
    <3>1. f[f[i]] = f[i]
      BY <1>4, <1>5, <2>1
    <3> QED
      BY <1>1, <1>4, <3>1
  <2> QED
    BY <1>4, <2>1
<1>7. PICK k \in 1..n : f[k] = i
  BY <1>1, <1>4
<1>8. k > i
  <2>1. ~(k < i)
    BY <1>4, <1>5, <1>7
  <2>2. k # i
    BY <1>4, <1>7
  <2> QED
    BY <1>4, <2>1, <2>2
<1>9. f[k] > f[i]
  BY <1>4, <1>8
<1> QED
  BY <1>4, <1>6, <1>7, <1>9

\* Concatenation, as a relation that the provers can be told of by name.
Associates(x, y, z) == (x \o y) \o z = x \o (y \o z)

LEMMA Associative ==
    ASSUME NEW E, NEW x \in Seq(E), NEW y \in Seq(E), NEW z \in Seq(E)
    PROVE  Associates(x, y, z) /\ x \o y \in Seq(E)
<1>1. (x \o y) \o z = x \o (y \o z)
  BY ConcatAssociative
<1>2. x \o y \in Seq(E)
  BY ConcatProperties
<1> QED
  BY <1>1, <1>2 DEF Associates

LEMMA AppendHead ==
    ASSUME NEW E, NEW s \in Seq(E), NEW t \in Seq(E), t # <<>>
    PROVE  Append(s, Head(t)) \o Tail(t) = s \o t
<1>1. t = <<Head(t)>> \o Tail(t) /\ Head(t) \in E /\ Tail(t) \in Seq(E)
  BY HeadTailProperties, SMT
<1>2. <<Head(t)>> \in Seq(E)
  BY <1>1
<1>3. Append(s, Head(t)) = s \o <<Head(t)>>
  BY <1>1, <1>2
<1> QED
  BY <1>1, <1>2, <1>3, ConcatAssociative

\* What a sequence is after one of its elements is taken out.
LEMMA RemoveAtFacts ==
    ASSUME NEW E, NEW s \in Seq(E), NEW i \in DOMAIN s
    PROVE  /\ RemoveAt(s, i) \in Seq(E)
           /\ Len(RemoveAt(s, i)) = Len(s) - 1
           /\ \A j \in 1..(Len(s) - 1) :
                RemoveAt(s, i)[j] = IF j < i THEN s[j] ELSE s[j + 1]
<1> DEFINE front == SubSeq(s, 1, i - 1)
           back == SubSeq(s, i + 1, Len(s))
<1>1. Len(s) \in Nat /\ i \in 1..Len(s) /\ i \in Int
  BY LenProperties
<1>2. \A j \in 1..Len(s) : s[j] \in E
  BY <1>1, ElementOfSeq
<1>3. /\ front \in Seq(E) /\ Len(front) = i - 1
      /\ \A j \in 1..(i - 1) : front[j] = s[j]
  BY <1>1, <1>2
<1>4. /\ back \in Seq(E) /\ Len(back) = Len(s) - i
      /\ \A j \in 1..(Len(s) - i) : back[j] = s[i + j]
  BY <1>1, <1>2
<1> HIDE DEF front, back
<1>5. Len(front) + Len(back) = Len(s) - 1
  BY <1>1, <1>3, <1>4
<1>6. /\ front \o back \in Seq(E)
      /\ Len(front \o back) = Len(s) - 1
      /\ \A j \in 1..(Len(s) - 1) :
            (front \o back)[j] = IF j <= Len(front) THEN front[j]
                                 ELSE back[j - Len(front)]
  <2>1. front \in Seq(E) /\ back \in Seq(E)
    BY <1>3, <1>4
  <2> QED
    BY <1>5, <2>1, ConcatProperties
<1>7. ASSUME NEW j \in 1..(Len(s) - 1)
      PROVE  (front \o back)[j] = IF j < i THEN s[j] ELSE s[j + 1]
  <2>1. CASE j < i
    <3>1. j <= Len(front) /\ j \in 1..(i - 1)
      BY <1>1, <1>3, <2>1
    <3> QED
      BY <1>3, <1>6, <2>1, <3>1
  <2>2. CASE ~(j < i)
    <3>1. /\ ~(j <= Len(front))
          /\ j - Len(front) \in 1..(Len(s) - i)
          /\ i + (j - Len(front)) = j + 1
      BY <1>1, <1>3, <2>2
    <3>2. (front \o back)[j] = back[j - Len(front)]
      BY <1>6, <3>1
    <3>3. back[j - Len(front)] = s[i + (j - Len(front))]
      BY <1>4, <3>1
    <3> QED
      BY <2>2, <3>1, <3>2, <3>3
  <2> QED
    BY <2>1, <2>2
<1>8. RemoveAt(s, i) = front \o back
  BY DEF RemoveAt, front, back
<1> QED
  BY <1>6, <1>7, <1>8
=============================================================================
