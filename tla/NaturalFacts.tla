---------------------------- MODULE NaturalFacts ----------------------------
(***************************************************************************)
(* Facts about numbers, and about how many there are of something, that    *)
(* the proofs of several components use.  The first is also how what a     *)
(* recursive function computes is proved for every argument: a statement   *)
(* that does not hold of all of them has a least counterexample.           *)
(***************************************************************************)
EXTENDS Integers, FiniteSetTheorems, WellFoundedInduction, TLAPS

\* A set of numbers has a least one.
LEMMA LeastNat ==
    ASSUME NEW T, T \subseteq Nat, T # {}
    PROVE  \E n \in T : \A m \in T : n <= m
<1> DEFINE R == OpToRel(<, Nat)
<1>1. IsWellFoundedOn(R, Nat)
  BY NatLessThanWellFounded
<1>2. PICK n \in T : \A m \in T : ~(<<m, n>> \in R)
  <2> HIDE DEF R
  <2> QED
    BY <1>1, WFMin
<1>3. \A m \in T : ~(m < n)
  BY <1>2 DEF OpToRel
<1> QED
  BY <1>3

\* So has a finite set of them a largest member: a set with a bound has.
LEMMA LargestNat ==
    ASSUME NEW T, T \subseteq Nat, T # {}, NEW u \in Nat, \A m \in T : m <= u
    PROVE  \E n \in T : \A m \in T : m <= n
<1> DEFINE D == {u - m : m \in T}
<1>1. D \subseteq Nat /\ D # {}
  <2>1. \A m \in T : m \in Nat /\ u - m \in Nat
    OBVIOUS
  <2> QED
    BY <2>1
<1>2. PICK d \in D : \A k \in D : d <= k
  <2> HIDE DEF D
  <2> QED
    BY <1>1, LeastNat
<1>3. PICK n \in T : d = u - n
  BY <1>2
<1>4. \A m \in T : u - n <= u - m
  BY <1>2, <1>3
<1>5. \A m \in T : m \in Nat /\ n \in Nat
  OBVIOUS
<1>6. \A m \in T : m <= n
  BY <1>4, <1>5
<1> QED
  BY <1>6

\* Finitely many numbers have a bound.
LEMMA BoundedAbove ==
    ASSUME NEW N \in Nat, NEW q \in [1..N -> Nat]
    PROVE  \E u \in Nat : \A i \in 1..N : q[i] <= u
<1> DEFINE Bounded(n) == \E u \in Nat : \A i \in 1..n : q[i] <= u
           T == {n \in 0..N : ~Bounded(n)}
<1>1. SUFFICES ASSUME T # {} PROVE FALSE
  <2>1. N \in 0..N
    OBVIOUS
  <2>2. Bounded(N)
    BY <1>1, <2>1
  <2> QED
    BY <2>2
<1>2. PICK n \in T : \A k \in T : n <= k
  <2>1. T \subseteq Nat
    OBVIOUS
  <2> HIDE DEF T
  <2> QED
    BY <1>1, <2>1, LeastNat
<1>3. n \in 0..N /\ ~Bounded(n)
  BY <1>2
<1>4. Bounded(0)
  <2>1. 0 \in Nat /\ \A i \in 1..0 : q[i] <= 0
    OBVIOUS
  <2> QED
    BY <2>1
<1>5. n # 0
  BY <1>3, <1>4
<1>6. n \in 1..N /\ n - 1 \in 0..N /\ n - 1 \notin T
  <2> HIDE DEF Bounded
  <2> QED
    BY <1>2, <1>3, <1>5
<1>7. PICK u \in Nat : \A i \in 1..(n - 1) : q[i] <= u
  BY <1>6
<1>8. q[n] \in Nat /\ \A i \in 1..N : q[i] \in Nat
  BY <1>6
<1>9. PICK w \in Nat : u <= w /\ q[n] <= w
  <2>1. CASE u <= q[n]
    BY <1>8, <2>1
  <2>2. CASE ~(u <= q[n])
    BY <1>8, <2>2
  <2> QED
    BY <2>1, <2>2
<1>10. ASSUME NEW i \in 1..n PROVE q[i] <= w
  <2>1. i = n \/ i \in 1..(n - 1)
    BY <1>6
  <2>2. i \in 1..N
    BY <1>6
  <2> QED
    BY <1>7, <1>8, <1>9, <2>1, <2>2
<1> QED
  BY <1>3, <1>10

\* A set that changes in one element only changes its size by that element.
LEMMA SetMove ==
    ASSUME NEW S, NEW T, NEW x, IsFiniteSet(S), T \ {x} = S \ {x}
    PROVE  /\ IsFiniteSet(T)
           /\ (x \in S <=> x \in T) => Cardinality(T) = Cardinality(S)
           /\ x \in S /\ x \notin T => Cardinality(T) = Cardinality(S) - 1
           /\ x \notin S /\ x \in T => Cardinality(T) = Cardinality(S) + 1
<1> DEFINE R == T \ {x}
<1>1. IsFiniteSet(R) /\ Cardinality(R) = IF x \in S THEN Cardinality(S) - 1 ELSE Cardinality(S)
  BY FS_RemoveElement
<1>2. x \notin R /\ T = IF x \in T THEN R \cup {x} ELSE R
  OBVIOUS
<1> HIDE DEF R
<1>3. IsFiniteSet(R \cup {x}) /\ Cardinality(R \cup {x}) = Cardinality(R) + 1
  BY <1>1, <1>2, FS_AddElement
<1>4. Cardinality(S) \in Nat /\ Cardinality(R) \in Nat
  BY <1>1, FS_CardinalityType
<1>5. CASE x \in T
  <2>1. IsFiniteSet(T) /\ Cardinality(T) = Cardinality(R) + 1
    BY <1>2, <1>3, <1>5
  <2> QED
    BY <1>1, <1>4, <1>5, <2>1
<1>6. CASE x \notin T
  <2>1. T = R
    BY <1>2, <1>6
  <2> QED
    BY <1>1, <1>4, <1>6, <2>1
<1> QED
  BY <1>5, <1>6
=============================================================================
