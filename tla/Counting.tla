------------------------------ MODULE Counting ------------------------------
(***************************************************************************)
(* Facts about sets of natural numbers that the proofs about the benchmark  *)
(* count with.                                                             *)
(***************************************************************************)
EXTENDS Integers, FiniteSetTheorems, TLAPS

LEMMA Monotonic ==
    ASSUME NEW a \in Nat, NEW i \in Nat, NEW j \in Nat, i <= j
    PROVE  a * i <= a * j
<1>1. PICK d \in Nat : j = i + d
  BY j - i \in Nat
<1>2. a * j = a * i + a * d /\ a * d \in Nat /\ a * i \in Nat
  BY <1>1
<1>3. QED
  BY <1>2

\* Every set of natural numbers but the empty one has a least element.
LEMMA LeastNat ==
    ASSUME NEW S \in SUBSET Nat, S # {}
    PROVE  \E m \in S : \A k \in S : m <= k
<1>1. IsWellFoundedOn(OpToRel(<, Nat), Nat)
  BY NatLessThanWellFounded
<1>2. PICK m \in S : \A k \in S : ~(<<k, m>> \in OpToRel(<, Nat))
  BY <1>1, WFMin
<1>3. ASSUME NEW k \in S PROVE m <= k
  <2>1. k \in Nat /\ m \in Nat
    OBVIOUS
  <2>2. k < m => <<k, m>> \in OpToRel(<, Nat)
    BY <2>1 DEF OpToRel
  <2>3. ~(k < m)
    BY <1>2, <2>2, Zenon
  <2>4. QED
    BY <2>1, <2>3
<1>4. QED
  BY <1>3

LEMMA IntervalSize ==
    ASSUME NEW n \in Nat
    PROVE  /\ IsFiniteSet(1 .. n) /\ Cardinality(1 .. n) = n
           /\ IsFiniteSet(0 .. n - 1) /\ Cardinality(0 .. n - 1) = n
<1>1. 0 \in Int /\ 1 \in Int /\ n \in Int /\ n - 1 \in Int
  OBVIOUS
<1>2. Cardinality(1 .. n) = IF 1 > n THEN 0 ELSE n - 1 + 1
  BY <1>1, FS_Interval
<1>3. Cardinality(0 .. n - 1) = IF 0 > n - 1 THEN 0 ELSE (n - 1) - 0 + 1
  BY <1>1, FS_Interval
<1>4. IsFiniteSet(1 .. n) /\ IsFiniteSet(0 .. n - 1)
  BY <1>1, FS_Interval
<1>5. QED
  BY <1>2, <1>3, <1>4

LEMMA RangeSize ==
    ASSUME NEW a \in Int, NEW b \in Int, a <= b + 1
    PROVE  IsFiniteSet(a .. b) /\ Cardinality(a .. b) = b + 1 - a
<1>1. IsFiniteSet(a .. b) /\ Cardinality(a .. b) = IF a > b THEN 0 ELSE b - a + 1
  BY FS_Interval
<1>2. QED
  BY <1>1

\* How many elements of S are in front of k.
Before(S, k) == Cardinality({j \in S : j < k})

LEMMA BeforeBound ==
    ASSUME NEW S, IsFiniteSet(S), NEW k
    PROVE  Before(S, k) \in Nat /\ Before(S, k) <= Cardinality(S)
<1>1. {j \in S : j < k} \in SUBSET S
  OBVIOUS
<1>2. QED
  BY <1>1, FS_Subset, FS_CardinalityType DEF Before

LEMMA BeforeNext ==
    ASSUME NEW S \in SUBSET Nat, IsFiniteSet(S), NEW k \in Nat
    PROVE  Before(S, k + 1) = IF k \in S THEN Before(S, k) + 1 ELSE Before(S, k)
<1> DEFINE front == {j \in S : j < k}
<1>1. IsFiniteSet(front) /\ k \notin front
  BY FS_Subset
<1>2. {j \in S : j < k + 1} = IF k \in S THEN front \cup {k} ELSE front
  <2>1. \A j \in S : j < k + 1 <=> j < k \/ j = k
    OBVIOUS
  <2>2. QED
    BY <2>1, Zenon
<1>3. Cardinality(front \cup {k}) = Cardinality(front) + 1
  BY <1>1, FS_AddElement
<1>4. QED
  BY <1>2, <1>3 DEF Before

LEMMA BeforeEnds ==
    ASSUME NEW n \in Nat, NEW S \in SUBSET (1 .. n)
    PROVE  /\ IsFiniteSet(S)
           /\ Before(S, 1) = 0
           /\ Before(S, n + 1) = Cardinality(S)
<1>1. IsFiniteSet(1 .. n)
  BY IntervalSize
<1>2. {j \in S : j < 1} = {} /\ {j \in S : j < n + 1} = S
  <2>1. \A j \in S : ~(j < 1) /\ j < n + 1
    OBVIOUS
  <2>2. QED
    BY <2>1, Zenon
<1>3. QED
  BY <1>1, <1>2, FS_Subset, FS_EmptySet DEF Before

LEMMA BeforeGrows ==
    ASSUME NEW S \in SUBSET Nat, IsFiniteSet(S), NEW j \in S, NEW k \in Nat, j < k
    PROVE  Before(S, j) < Before(S, k)
<1> DEFINE front == {i \in S : i < j}
           more  == {i \in S : i < k}
<1>1. IsFiniteSet(front) /\ IsFiniteSet(more) /\ j \notin front
  BY FS_Subset
<1>2. Cardinality(front \cup {j}) = Cardinality(front) + 1
  BY <1>1, FS_AddElement
<1>3. front \cup {j} \in SUBSET more
  <2>1. \A i \in S : i < j => i < k
    OBVIOUS
  <2>2. QED
    BY <2>1
<1>4. Cardinality(front \cup {j}) <= Cardinality(more)
  BY <1>1, <1>3, FS_Subset
<1>5. Cardinality(front) \in Nat /\ Cardinality(more) \in Nat
  BY <1>1, FS_CardinalityType
<1>6. QED
  BY <1>2, <1>4, <1>5 DEF Before

\* The numbers of the elements of S, from 0, are those below its cardinality.
LEMMA Numbering ==
    ASSUME NEW S \in SUBSET Nat, IsFiniteSet(S)
    PROVE  [k \in S |-> Before(S, k)] \in Bijection(S, 0 .. Cardinality(S) - 1)
<1> DEFINE number == [k \in S |-> Before(S, k)]
           T == 0 .. Cardinality(S) - 1
<1>1. Cardinality(S) \in Nat
  BY FS_CardinalityType
<1>2. IsFiniteSet(T) /\ Cardinality(T) = Cardinality(S)
  BY <1>1, IntervalSize
<1>3. ASSUME NEW k \in S PROVE Before(S, k) \in T
  <2>1. PICK n \in Nat : Before(S, k) = n /\ Before(S, k + 1) = n + 1 /\ n + 1 <= Cardinality(S)
    BY BeforeNext, BeforeBound
  <2>2. QED
    BY <1>1, <2>1
<1>4. ASSUME NEW j \in S, NEW k \in S, Before(S, j) = Before(S, k) PROVE j = k
  <2>1. ~(j < k) /\ ~(k < j)
    BY <1>4, BeforeGrows, BeforeBound
  <2>2. QED
    BY <2>1
<1>5. number \in Injection(S, T)
  BY <1>3, <1>4 DEF Injection, IsInjective
<1>6. number \in Surjection(S, T)
  BY <1>2, <1>5, FS_Injection
<1>7. QED
  BY <1>5, <1>6 DEF Bijection
=============================================================================
