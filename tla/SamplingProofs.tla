--------------------------- MODULE SamplingProofs ---------------------------
(***************************************************************************)
(* Theorems about SampleUntilStable and TimerResolution, for all durations  *)
(* and parameters: the two sorts order the samples and keep them, a         *)
(* majority is the median and the half sample mode, whose loop stays in the *)
(* array, and the whole is an Estimator that comes nearer to its end with   *)
(* every step.                                                              *)
(***************************************************************************)
EXTENDS SampleUntilStable, Counting

Word == 0 .. Ticks - 1

\* Where values has v, is less, or is no more.
At(values, v) == {i \in DOMAIN values : values[i] = v}
Less(values, v) == {i \in DOMAIN values : values[i] < v}
NoMore(values, v) == {i \in DOMAIN values : values[i] <= v}

UpTo(values, v) == Below(values, v) + Frequency(values, v)

Ascending(values) == \A i, j \in DOMAIN values : i <= j => values[i] <= values[j]

\* Samples are a finite sequence of ticks.
LEMMA SequenceFacts ==
    ASSUME NEW values \in Seq(Word)
    PROVE  /\ Len(values) \in Nat /\ DOMAIN values = 1 .. Len(values)
           /\ IsFiniteSet(DOMAIN values) /\ Cardinality(DOMAIN values) = Len(values)
           /\ \A i \in DOMAIN values : values[i] \in Word /\ values[i] \in Nat
           /\ Range(values) \subseteq Word /\ Word \subseteq Nat
<1>1. Word \subseteq Nat
  BY SamplingAssumption DEF Word
<1>2. Len(values) \in Nat /\ DOMAIN values = 1 .. Len(values)
  OBVIOUS
<1>3. \A i \in DOMAIN values : values[i] \in Word
  OBVIOUS
<1>4. IsFiniteSet(1 .. Len(values)) /\ Cardinality(1 .. Len(values)) = Len(values)
  BY <1>2, IntervalSize
<1>5. QED
  BY <1>1, <1>2, <1>3, <1>4 DEF Range

\* Samples are counted with natural numbers.
LEMMA Counts ==
    ASSUME NEW values \in Seq(Word), NEW v
    PROVE  /\ At(values, v) \in SUBSET Nat /\ IsFiniteSet(At(values, v))
           /\ IsFiniteSet(Less(values, v)) /\ IsFiniteSet(NoMore(values, v))
           /\ Frequency(values, v) = Cardinality(At(values, v))
           /\ Below(values, v) = Cardinality(Less(values, v))
           /\ Frequency(values, v) \in Nat /\ Below(values, v) \in Nat
           /\ Cardinality(NoMore(values, v)) \in Nat
<1>1. /\ At(values, v) \in SUBSET (DOMAIN values) /\ Less(values, v) \in SUBSET (DOMAIN values)
      /\ NoMore(values, v) \in SUBSET (DOMAIN values)
  BY DEF At, Less, NoMore
<1>2. IsFiniteSet(DOMAIN values) /\ DOMAIN values \in SUBSET Nat
  BY SequenceFacts
<1>3. IsFiniteSet(At(values, v)) /\ IsFiniteSet(Less(values, v)) /\ IsFiniteSet(NoMore(values, v))
  BY <1>1, <1>2, FS_Subset
<1>4. Frequency(values, v) = Cardinality(At(values, v))
  BY DEF Frequency, Quantify, At
<1>5. Below(values, v) = Cardinality(Less(values, v))
  BY DEF Below, Quantify, Less
<1>6. QED
  BY <1>1, <1>2, <1>3, <1>4, <1>5, FS_CardinalityType

\* Samples that are less and samples that are equal are different ones.
LEMMA UpToCount ==
    ASSUME NEW values \in Seq(Word), NEW v \in Word
    PROVE  UpTo(values, v) = Cardinality(NoMore(values, v))
<1>1. Cardinality(Less(values, v) \cup At(values, v))
        = Cardinality(Less(values, v)) + Cardinality(At(values, v))
          - Cardinality(Less(values, v) \cap At(values, v))
  BY Counts, FS_Union
<1>2. \A i \in DOMAIN values : values[i] <= v <=> values[i] < v \/ values[i] = v
  BY SequenceFacts
<1>3. Less(values, v) \cup At(values, v) = NoMore(values, v)
  BY <1>2, Zenon DEF Less, At, NoMore
<1>4. \A i \in DOMAIN values : ~(values[i] < v /\ values[i] = v)
  BY SequenceFacts
<1>5. Cardinality(Less(values, v) \cap At(values, v)) = 0
  BY <1>4, FS_EmptySet DEF Less, At
<1>6. Cardinality(NoMore(values, v)) = Cardinality(Less(values, v) \cup At(values, v))
  BY <1>3, Zenon
<1>7. QED
  BY <1>1, <1>5, <1>6, Counts DEF UpTo

\* The ranks of smaller values end in front of those of greater ones.
LEMMA RanksApart ==
    ASSUME NEW values \in Seq(Word), NEW v \in Word, NEW w \in Word, v < w
    PROVE  UpTo(values, v) <= Below(values, w)
<1>1. \A i \in DOMAIN values : values[i] <= v => values[i] < w
  BY SequenceFacts
<1>2. NoMore(values, v) \in SUBSET Less(values, w)
  BY <1>1 DEF NoMore, Less
<1>3. Cardinality(NoMore(values, v)) <= Cardinality(Less(values, w))
  BY <1>2, Counts, FS_Subset
<1>4. QED
  BY <1>3, UpToCount, Counts

\* Every rank is that of one value.
LEMMA Rank ==
    ASSUME NEW values \in Seq(Word), NEW i \in 1 .. Len(values)
    PROVE  \E v \in Range(values) : Below(values, v) < i /\ i <= UpTo(values, v)
<1> DEFINE S == {v \in Word : i <= Cardinality(NoMore(values, v))}
<1>1. i \in Nat /\ i >= 1 /\ Ticks \in Nat \ {0}
  BY SequenceFacts, SamplingAssumption
<1>2. Ticks - 1 \in S
  <2>1. \A j \in DOMAIN values : values[j] <= Ticks - 1
    BY SequenceFacts DEF Word
  <2>2. NoMore(values, Ticks - 1) = DOMAIN values
    BY <2>1, Zenon DEF NoMore
  <2>3. i <= Cardinality(NoMore(values, Ticks - 1))
    BY <2>2, SequenceFacts
  <2>4. QED
    BY <1>1, <2>3 DEF Word
<1>3. PICK v \in S : \A w \in S : v <= w
  <2>1. S \in SUBSET Nat
    BY SequenceFacts
  <2>2. QED
    BY <1>2, <2>1, LeastNat
<1>4. Below(values, v) < i
  <2>1. CASE v = 0
    <3>1. \A j \in DOMAIN values : ~(values[j] < v)
      BY <2>1, SequenceFacts
    <3>2. Less(values, v) = {}
      BY <3>1 DEF Less
    <3>3. Below(values, v) = 0
      BY <3>2, Counts, FS_EmptySet
    <3>4. QED
      BY <1>1, <3>3
  <2>2. CASE v # 0
    <3>1. v \in Nat /\ v - 1 \in Word /\ v - 1 \notin S
      BY <1>1, <1>3, <2>2 DEF Word
    <3>2. \A j \in DOMAIN values : values[j] < v <=> values[j] <= v - 1
      BY <3>1, SequenceFacts
    <3>3. Less(values, v) = NoMore(values, v - 1)
      BY <3>2, Zenon DEF Less, NoMore
    <3>4. ~(i <= Cardinality(NoMore(values, v - 1)))
      BY <3>1
    <3>5. Below(values, v) = Cardinality(NoMore(values, v - 1))
      BY <3>3, Counts
    <3>6. QED
      BY <1>1, <3>4, <3>5, Counts
  <2>3. QED
    BY <2>1, <2>2
<1>5. i <= UpTo(values, v)
  BY <1>3, UpToCount
<1>6. v \in Range(values)
  <2>1. Frequency(values, v) # 0
    BY <1>1, <1>4, <1>5, Counts DEF UpTo
  <2>2. At(values, v) # {}
    BY <2>1, Counts, FS_EmptySet
  <2>3. QED
    BY <2>2 DEF At, Range
<1>7. QED
  BY <1>4, <1>5, <1>6

\* A value of a lower rank is no greater.
LEMMA RankUnique ==
    ASSUME NEW values \in Seq(Word), NEW v \in Word, NEW w \in Word, NEW i \in Nat, NEW j \in Nat,
           Below(values, v) < i, i <= UpTo(values, v),
           Below(values, w) < j, j <= UpTo(values, w), i <= j
    PROVE  v <= w
<1>1. v \in Nat /\ w \in Nat
  BY SequenceFacts
<1>2. SUFFICES ASSUME w < v PROVE FALSE
  BY <1>1
<1>3. UpTo(values, w) <= Below(values, v)
  BY <1>2, RanksApart
<1>4. UpTo(values, w) \in Nat /\ Below(values, v) \in Nat
  BY Counts DEF UpTo
<1>5. QED
  BY <1>3, <1>4

\* What a sort puts at place i has rank i.
LEMMA SortElement ==
    ASSUME NEW values \in Seq(Word), NEW i \in 1 .. Len(values)
    PROVE  LET v == Sort(values)[i]
           IN  /\ v \in Range(values) /\ v \in Word
               /\ Below(values, v) < i /\ i <= UpTo(values, v)
<1>1. \E v \in Range(values) :
        Below(values, v) < i /\ i <= Below(values, v) + Frequency(values, v)
  BY Rank DEF UpTo
<1>2. i \in DOMAIN values
  BY SequenceFacts
<1>3. QED
  BY <1>1, <1>2, SequenceFacts DEF Sort, UpTo

\* std::sort neither loses nor adds a value.
LEMMA SortFacts ==
    ASSUME NEW values \in Seq(Word)
    PROVE  /\ Sort(values) \in Seq(Word) /\ Len(Sort(values)) = Len(values)
           /\ Ascending(Sort(values))
           /\ \A v : Frequency(Sort(values), v) = Frequency(values, v)
<1> DEFINE s == Sort(values)
<1>1. Len(values) \in Nat /\ DOMAIN values = 1 .. Len(values)
  BY SequenceFacts
<1>2. DOMAIN s = 1 .. Len(values) /\ s = [i \in 1 .. Len(values) |-> s[i]]
  BY <1>1 DEF Sort
<1>3. \A i \in 1 .. Len(values) : s[i] \in Word
  BY SortElement
<1> HIDE DEF s
<1>4. s \in Seq(Word) /\ Len(s) = Len(values)
  BY <1>1, <1>2, <1>3
<1>5. ASSUME NEW i \in DOMAIN s, NEW j \in DOMAIN s, i <= j PROVE s[i] <= s[j]
  BY <1>1, <1>2, <1>5, SortElement, RankUnique DEF s
<1>6. ASSUME NEW v PROVE Frequency(s, v) = Frequency(values, v)
  <2>1. CASE v \in Range(values)
    <3>1. v \in Word
      BY <2>1, SequenceFacts
    <3>2. \A i \in 1 .. Len(values) :
            s[i] = v <=> i \in Below(values, v) + 1 .. UpTo(values, v)
      <4>1. TAKE i \in 1 .. Len(values)
      <4>2. i \in Nat /\ Below(values, v) \in Nat /\ UpTo(values, v) \in Nat
        BY <1>1, Counts DEF UpTo
      <4>3. s[i] \in Word /\ Below(values, s[i]) < i /\ i <= UpTo(values, s[i])
        BY SortElement DEF s
      <4>4. ASSUME Below(values, v) < i, i <= UpTo(values, v) PROVE s[i] = v
        <5>1. v <= s[i] /\ s[i] <= v
          BY <3>1, <4>2, <4>3, <4>4, RankUnique
        <5>2. QED
          BY <3>1, <4>3, <5>1, SequenceFacts
      <4>5. QED
        BY <4>2, <4>3, <4>4
    <3>3. Below(values, v) + 1 .. UpTo(values, v) \subseteq 1 .. Len(values)
      <4>1. NoMore(values, v) \in SUBSET (DOMAIN values)
        BY DEF NoMore
      <4>2. Cardinality(NoMore(values, v)) <= Cardinality(DOMAIN values)
        BY <4>1, SequenceFacts, FS_Subset
      <4>3. UpTo(values, v) <= Len(values)
        BY <3>1, <4>2, UpToCount, SequenceFacts
      <4>4. QED
        BY <1>1, <4>3, Counts DEF UpTo
    <3>4. At(s, v) = Below(values, v) + 1 .. UpTo(values, v)
      BY <1>2, <3>2, <3>3 DEF At
    <3>5. Cardinality(Below(values, v) + 1 .. UpTo(values, v)) = Frequency(values, v)
      <4>1. PICK a \in Nat, c \in Nat : a = Below(values, v) /\ c = Frequency(values, v)
        BY Counts
      <4>2. Cardinality(a + 1 .. a + c) = IF a + 1 > a + c THEN 0 ELSE a + c - (a + 1) + 1
        BY a + 1 \in Int, a + c \in Int, FS_Interval
      <4>3. QED
        BY <4>1, <4>2 DEF UpTo
    <3>6. QED
      BY <1>4, <3>4, <3>5, Counts, Zenon
  <2>2. CASE v \notin Range(values)
    <3>1. At(values, v) = {}
      BY <2>2 DEF At, Range
    <3>2. At(s, v) = {}
      BY <1>2, <2>2, SortElement DEF At, s
    <3>3. QED
      BY <1>4, <3>1, <3>2, Counts
  <2>3. QED
    BY <2>1, <2>2
<1>7. QED
  BY <1>4, <1>5, <1>6 DEF s, Ascending

\* As many copies of smaller values are in front as there are smaller elements.
LEMMA CopiesInFront ==
    ASSUME NEW values \in Seq(Word), NEW v
    PROVE  Cardinality(UNION {Copies(values, x) : x \in {y \in Range(values) : y < v}})
             = Below(values, v)
<1> DEFINE J == Less(values, v)
           C == UNION {Copies(values, x) : x \in {y \in Range(values) : y < v}}
           place(j) == Before(At(values, values[j]), j)
           g == [j \in J |-> <<values[j], place(j) + 1>>]
<1>1. IsFiniteSet(J) /\ J \subseteq Nat /\ J \subseteq DOMAIN values
  <2>1. IsFiniteSet(J)
    BY Counts
  <2>2. J \subseteq DOMAIN values /\ DOMAIN values \subseteq Nat
    BY SequenceFacts DEF Less
  <2>3. QED
    BY <2>1, <2>2
<1>2. ASSUME NEW x
      PROVE  /\ IsFiniteSet(At(values, x)) /\ Frequency(values, x) \in Nat
             /\ [k \in At(values, x) |-> Before(At(values, x), k)]
                  \in Bijection(At(values, x), 0 .. Frequency(values, x) - 1)
  BY Counts, Numbering
<1>3. ASSUME NEW j \in J
      PROVE  j \in At(values, values[j]) /\ place(j) \in 0 .. Frequency(values, values[j]) - 1
  <2>1. j \in At(values, values[j])
    BY DEF At, Less
  <2>2. QED
    BY <1>2, <2>1 DEF Bijection, Injection
<1>4. ASSUME NEW j \in J PROVE g[j] \in C
  <2>1. place(j) + 1 \in 1 .. Frequency(values, values[j])
    <3>1. ASSUME NEW f \in Nat, NEW n \in 0 .. f - 1 PROVE n + 1 \in 1 .. f
      OBVIOUS
    <3>2. Frequency(values, values[j]) \in Nat /\ place(j) \in 0 .. Frequency(values, values[j]) - 1
      BY <1>2, <1>3
    <3>3. QED
      BY <3>1, <3>2
  <2>2. values[j] \in {y \in Range(values) : y < v}
    BY <1>1 DEF Less, Range
  <2>3. g[j] \in Copies(values, values[j])
    BY <2>1 DEF Copies
  <2>4. QED
    BY <2>2, <2>3
<1>5. ASSUME NEW i \in J, NEW j \in J, g[i] = g[j] PROVE i = j
  <2>1. values[i] = values[j] /\ place(i) = place(j)
    BY <1>2, <1>3, <1>5
  <2>2. i \in At(values, values[j]) /\ j \in At(values, values[j])
    BY <1>3, <2>1
  <2>3. QED
    BY <1>2, <2>1, <2>2 DEF Bijection, Injection, IsInjective
<1>6. ASSUME NEW c \in C PROVE \E j \in J : g[j] = c
  <2>1. PICK x \in Range(values) : x < v /\ c \in Copies(values, x)
    OBVIOUS
  <2>2. PICK n \in 1 .. Frequency(values, x) : c = <<x, n>>
    BY <2>1 DEF Copies
  <2>3. n - 1 \in 0 .. Frequency(values, x) - 1
    <3>1. ASSUME NEW f \in Nat, NEW k \in 1 .. f PROVE k - 1 \in 0 .. f - 1
      OBVIOUS
    <3>2. Frequency(values, x) \in Nat
      BY <1>2
    <3>3. QED
      BY <3>1, <3>2
  <2>4. PICK k \in At(values, x) : Before(At(values, x), k) = n - 1
    BY <1>2, <2>3 DEF Bijection, Surjection
  <2>5. k \in J /\ values[k] = x
    BY <2>1 DEF At, Less
  <2>6. place(k) + 1 = n
    BY <1>2, <2>4, <2>5
  <2>7. QED
    BY <2>2, <2>5, <2>6
<1> HIDE DEF C
<1>7. g \in Injection(J, C)
  BY <1>4, <1>5 DEF Injection, IsInjective
<1>8. g \in Surjection(J, C)
  BY <1>6, <1>7 DEF Injection, Surjection
<1>9. Cardinality(C) = Cardinality(J)
  BY <1>1, <1>7, <1>8, FS_Surjection
<1>10. QED
  BY <1>9, Counts DEF C

\* The counting sort has room for every copy of a value.
LEMMA CopiesCount ==
    ASSUME NEW values \in Seq(Word), NEW v
    PROVE  Cardinality(Copies(values, v)) = Frequency(values, v)
<1>1. Frequency(values, v) \in Nat
  BY Counts
<1>2. IsFiniteSet(1 .. Frequency(values, v)) /\ Cardinality(1 .. Frequency(values, v)) = Frequency(values, v)
  BY <1>1, IntervalSize
<1>3. IsFiniteSet({v}) /\ Cardinality({v}) = 1
  BY FS_Singleton
<1>4. Cardinality({v} \X (1 .. Frequency(values, v)))
        = Cardinality({v}) * Cardinality(1 .. Frequency(values, v))
  BY <1>2, <1>3, FS_Product
<1>5. QED
  BY <1>1, <1>2, <1>3, <1>4 DEF Copies

\* CountingSort sorts: each value is written to the places of its ranks.
LEMMA CountingIsSort ==
    ASSUME NEW values \in Seq(Word)
    PROVE  CountingSort(values) = Sort(values)
<1>1. ASSUME NEW v
      PROVE  Written(values, v) = Below(values, v) + 1 .. UpTo(values, v)
  BY CopiesInFront, CopiesCount DEF Written, UpTo
<1>2. DOMAIN values = 1 .. Len(values) /\ Len(values) \in Nat
  BY SequenceFacts
<1>3. ASSUME NEW i \in DOMAIN values PROVE CountingSort(values)[i] = Sort(values)[i]
  <2> DEFINE here == {v \in Range(values) : i \in Written(values, v)}
             x == Sort(values)[i]
  <2>1. x \in Range(values) /\ x \in Word /\ Below(values, x) < i /\ i <= UpTo(values, x)
    BY <1>2, SortElement
  <2>2. x \in here
    BY <1>1, <1>2, <2>1, Counts DEF UpTo
  <2>3. ASSUME NEW v \in here PROVE v = x
    <3>1. v \in Word /\ Below(values, v) < i /\ i <= UpTo(values, v)
      BY <1>1, <1>2, SequenceFacts, Counts DEF UpTo
    <3>2. i \in Nat
      BY <1>2
    <3>3. v <= x /\ x <= v
      BY <2>1, <3>1, <3>2, RankUnique
    <3>4. QED
      BY <2>1, <3>1, <3>3, SequenceFacts
  <2>4. CountingSort(values)[i] = IF here = {} THEN values[i] ELSE CHOOSE v \in here : TRUE
    BY DEF CountingSort
  <2> HIDE DEF here, x
  <2>5. here # {} /\ (CHOOSE v \in here : TRUE) = x
    BY <2>2, <2>3
  <2>6. QED
    BY <2>4, <2>5 DEF x
<1>4. QED
  BY <1>3 DEF CountingSort, Sort

-----------------------------------------------------------------------------
(* Median and mode of sorted samples.                                      *)

\* The mean of two equal ticks is that tick, below half of their range.
LEMMA AverageFacts ==
    ASSUME NEW x \in Word, NEW y \in Word
    PROVE  /\ Average(x, y) \in Word
           /\ x = y /\ x <= (Ticks \div 2) - 1 => Average(x, y) = x
<1>1. Ticks \in Nat \ {0} /\ x \in Nat /\ y \in Nat
  BY SamplingAssumption, SequenceFacts DEF Word
<1>2. (x + y + 1) % Ticks \in 0 .. Ticks - 1
  BY <1>1
<1>3. Average(x, y) \in Word
  BY <1>1, <1>2 DEF Average, Word
<1>4. ASSUME x = y, x <= (Ticks \div 2) - 1 PROVE Average(x, y) = x
  <2>1. x + y + 1 = 2 * x + 1 /\ 2 * x + 1 < Ticks
    BY <1>1, <1>4
  <2>2. (x + y + 1) % Ticks = 2 * x + 1
    BY <1>1, <2>1
  <2>3. (2 * x + 1) \div 2 = x
    BY <1>1
  <2>4. QED
    BY <2>2, <2>3 DEF Average
<1>5. QED
  BY <1>3, <1>4

\* Of twice half elements in order, a value that more than half of them have
\* has the middle, and the element half places behind its first.
LEMMA Majority ==
    ASSUME NEW s \in Seq(Word), Ascending(s), NEW h \in Nat, 2 * h <= Len(s), NEW v,
           Frequency(SubSeq(s, 1, 2 * h), v) > h
    PROVE  \E p \in 1 .. h : \A i \in p .. p + h : s[i] = v
<1> DEFINE P == {i \in 1 .. 2 * h : s[i] = v}
           Q == {i \in Nat : i \in 1 .. 2 * h /\ 2 * h + 1 - i \in P}
<1>1. Len(s) \in Nat /\ DOMAIN s = 1 .. Len(s) /\ 1 .. 2 * h \subseteq DOMAIN s
  BY SequenceFacts
<1>2. Frequency(SubSeq(s, 1, 2 * h), v) = Cardinality(P)
  <2>1. DOMAIN SubSeq(s, 1, 2 * h) = 1 .. 2 * h /\ \A i \in 1 .. 2 * h : SubSeq(s, 1, 2 * h)[i] = s[i]
    BY <1>1
  <2>2. {i \in DOMAIN SubSeq(s, 1, 2 * h) : SubSeq(s, 1, 2 * h)[i] = v} = P
    BY <2>1
  <2>3. QED
    BY <2>2, Zenon DEF Frequency, Quantify
<1>3. IsFiniteSet(1 .. 2 * h) /\ P \in SUBSET (1 .. 2 * h) /\ P \in SUBSET Nat
  BY 2 * h \in Nat, IntervalSize
<1>4. IsFiniteSet(P) /\ Cardinality(P) \in Nat /\ Cardinality(P) > h /\ P # {}
  <2>1. IsFiniteSet(P) /\ Cardinality(P) \in Nat /\ Cardinality(P) > h
    BY <1>2, <1>3, FS_Subset, FS_CardinalityType
  <2>2. P # {}
    BY <2>1, FS_EmptySet
  <2>3. QED
    BY <2>1, <2>2
<1>5. PICK p \in P : \A i \in P : p <= i
  BY <1>3, <1>4, LeastNat
<1>6. PICK q \in P : \A i \in P : i <= q
  <2>1. PICK j \in Q : \A i \in Q : j <= i
    <3>1. Q \in SUBSET Nat
      OBVIOUS
    <3>2. PICK i \in P : TRUE
      BY <1>4
    <3>3. 2 * h + 1 - i \in Nat /\ 2 * h + 1 - i \in 1 .. 2 * h /\ 2 * h + 1 - (2 * h + 1 - i) = i
      BY <1>3
    <3>4. 2 * h + 1 - i \in Q
      BY <3>2, <3>3
    <3>5. QED
      BY <3>1, <3>4, LeastNat
  <2>2. 2 * h + 1 - j \in P /\ j \in Nat
    OBVIOUS
  <2>3. ASSUME NEW i \in P PROVE i <= 2 * h + 1 - j
    <3>1. i \in Nat /\ 2 * h + 1 - i \in Nat /\ 2 * h + 1 - i \in 1 .. 2 * h
          /\ 2 * h + 1 - (2 * h + 1 - i) = i
      BY <1>3
    <3>2. 2 * h + 1 - i \in Q
      BY <2>3, <3>1
    <3>3. j <= 2 * h + 1 - i
      BY <2>1, <3>2
    <3>4. QED
      BY <2>2, <3>1, <3>3
  <2>4. QED
    BY <2>2, <2>3
<1>7. p \in 1 .. 2 * h /\ q \in 1 .. 2 * h /\ p \in Nat /\ q \in Nat /\ s[p] = v /\ s[q] = v
  BY <1>3
<1>8. p + h <= q
  <2>1. P \in SUBSET (p .. q)
    BY <1>3, <1>5, <1>6
  <2>2. p <= q
    BY <1>5
  <2>3. IsFiniteSet(p .. q) /\ Cardinality(p .. q) = q + 1 - p
    <3>1. p \in Int /\ q \in Int /\ p <= q + 1
      BY <1>7, <2>2
    <3>2. QED
      BY <3>1, RangeSize
  <2>4. Cardinality(P) <= Cardinality(p .. q)
    BY <2>1, <2>3, FS_Subset
  <2>5. QED
    BY <1>4, <1>7, <2>3, <2>4
<1>9. ASSUME NEW i \in p .. p + h PROVE s[i] = v
  <2>1. i \in DOMAIN s /\ p \in DOMAIN s /\ q \in DOMAIN s /\ p <= i /\ i <= q
    BY <1>1, <1>7, <1>8
  <2>2. s[p] <= s[i] /\ s[i] <= s[q]
    BY <2>1 DEF Ascending
  <2>3. s[i] \in Nat /\ s[p] \in Nat
    BY <2>1, SequenceFacts
  <2>4. QED
    BY <1>7, <2>2, <2>3
<1>10. p \in 1 .. h
  BY <1>7, <1>8
<1>11. QED
  BY <1>9, <1>10

\* The least range of a window that one value fills for half of it and one
\* element more is a range of that value.
LEMMA MinRangeFacts ==
    ASSUME NEW s \in Seq(Word), Ascending(s), NEW b \in Nat, NEW h \in Nat \ {0},
           b + 2 * h <= Len(s)
    PROVE  LET r == MinRange(s, b, h)
           IN  /\ r \in Nat /\ r + h < Len(s)
               /\ \A v : (Ticks > 1 /\ \E p \in b + 1 .. b + h : \A i \in p .. p + h : s[i] = v)
                           => \A i \in r + 1 .. r + h + 1 : s[i] = v
<1> DEFINE window == b .. b + h - 1
           width == [idx \in window |-> s[idx + h + 1] - s[idx + 1]]
           found == {idx \in window : width[idx] < Ticks - 1}
           least == {idx \in found : \A j \in window : width[idx] <= width[j]}
           r == MinRange(s, b, h)
<1>1. Len(s) \in Nat /\ DOMAIN s = 1 .. Len(s) /\ \A i \in DOMAIN s : s[i] \in Nat
  BY SequenceFacts
<1>2. ASSUME NEW idx \in window
      PROVE  /\ idx \in Nat /\ idx + 1 \in DOMAIN s /\ idx + h + 1 \in DOMAIN s
             /\ idx + h < Len(s) /\ width[idx] \in Nat
  <2>1. idx \in Nat /\ idx + 1 \in DOMAIN s /\ idx + h + 1 \in DOMAIN s /\ idx + h < Len(s)
    BY <1>1
  <2>2. s[idx + 1] <= s[idx + h + 1]
    BY <2>1 DEF Ascending
  <2>3. s[idx + h + 1] - s[idx + 1] \in Nat
    BY <1>1, <2>1, <2>2
  <2>4. QED
    BY <2>1, <2>3
<1>3. r = IF found = {} THEN 0 ELSE Min(least)
  BY DEF MinRange
<1>4. ASSUME found # {} PROVE r \in least
  <2>1. PICK idx \in least : TRUE
    <3> DEFINE W == {width[j] : j \in found}
    <3>1. W \in SUBSET Nat /\ W # {}
      BY <1>2, <1>4
    <3>2. PICK m \in W : \A k \in W : m <= k
      BY <3>1, LeastNat
    <3>3. PICK idx \in found : width[idx] = m
      OBVIOUS
    <3>4. ASSUME NEW j \in window PROVE width[idx] <= width[j]
      <4>1. CASE j \in found
        BY <3>2, <3>3, <4>1
      <4>2. CASE j \notin found
        <5>1. width[idx] < Ticks - 1 /\ ~(width[j] < Ticks - 1)
          BY <4>2
        <5>2. width[idx] \in Nat /\ width[j] \in Nat /\ Ticks \in Nat
          BY <1>2, SamplingAssumption
        <5>3. QED
          BY <5>1, <5>2
      <4>3. QED
        BY <4>1, <4>2
    <3>5. QED
      BY <3>4
  <2>2. least \in SUBSET Nat /\ least # {}
    BY <1>2, <2>1
  <2>3. \E m \in least : \A k \in least : m <= k
    BY <2>2, LeastNat
  <2>4. Min(least) \in least
    BY <2>3 DEF Min
  <2>5. QED
    BY <1>3, <1>4, <2>4
<1> HIDE DEF r
<1>5. r \in Nat /\ r + h < Len(s)
  <2>1. CASE found = {}
    <3>1. r = 0
      BY <1>3, <2>1, Zenon
    <3>2. h < Len(s)
      BY <1>1
    <3>3. QED
      BY <3>1, <3>2
  <2>2. CASE found # {}
    BY <1>2, <1>4, <2>2
  <2>3. QED
    BY <2>1, <2>2
<1>6. ASSUME NEW v, Ticks > 1, NEW p \in b + 1 .. b + h, \A i \in p .. p + h : s[i] = v,
             NEW i \in r + 1 .. r + h + 1
      PROVE  s[i] = v
  <2>1. p - 1 \in window /\ (p - 1) + 1 = p /\ (p - 1) + h + 1 = p + h
        /\ p \in p .. p + h /\ p + h \in p .. p + h
    OBVIOUS
  <2>2. width[p - 1] = 0
    <3>1. s[p] = v /\ s[p + h] = v
      BY <1>6, <2>1
    <3>2. p \in DOMAIN s
      BY <1>1
    <3>3. width[p - 1] = s[p + h] - s[p]
      BY <2>1
    <3>4. QED
      BY <1>1, <3>1, <3>2, <3>3
  <2>3. p - 1 \in found
    BY <1>6, <2>1, <2>2, SamplingAssumption
  <2>4. r \in least
    BY <1>4, <2>3
  <2>5. r \in window /\ width[r] <= 0
    BY <2>1, <2>2, <2>4
  <2>6. s[r + 1] = s[r + h + 1] /\ r \in Nat /\ r + 1 \in DOMAIN s /\ r + h + 1 \in DOMAIN s
    <3>1. r \in Nat /\ r + 1 \in DOMAIN s /\ r + h + 1 \in DOMAIN s /\ width[r] \in Nat
      BY <1>2, <2>5
    <3>2. width[r] = s[r + h + 1] - s[r + 1]
      BY <2>5
    <3>3. QED
      BY <1>1, <2>5, <3>1, <3>2
  <2>7. ASSUME NEW j \in r + 1 .. r + h + 1 PROVE s[j] = s[r + 1]
    <3>1. j \in DOMAIN s /\ r + 1 <= j /\ j <= r + h + 1
      BY <1>1, <2>6
    <3>2. s[r + 1] <= s[j] /\ s[j] <= s[r + h + 1]
      BY <2>6, <3>1 DEF Ascending
    <3>3. QED
      BY <1>1, <2>6, <3>1, <3>2
  <2>8. b + h \in p .. p + h /\ b + h \in r + 1 .. r + h + 1
    BY <2>5
  <2>9. s[b + h] = v /\ s[b + h] = s[r + 1] /\ s[i] = s[r + 1]
    BY <1>6, <2>7, <2>8
  <2>10. QED
    BY <2>9
<1>7. QED
  BY <1>5, <1>6 DEF r

-----------------------------------------------------------------------------
Places == {"timer", "idle", "loop", "median of", "mode of", "mode", "estimated",
           "returned", "aborted", "rejected"}

Callers == {"TimerResolution", "last", "SampleUntilStable"}

Typed ==
    /\ at \in Places /\ caller \in Callers
    /\ samples \in Seq(Word) /\ repetitions \in Seq(Word)
    /\ samples_per_eval \in Nat /\ evaluation \in 0 .. max_evals
    /\ estimate \in Word

\* Who runs where, and with which samples and evaluations.
Control ==
    /\ at = "timer" => caller = "TimerResolution"
    /\ at \in {"idle", "loop", "median of", "estimated"} => caller = "SampleUntilStable"
    /\ at = "idle" => evaluation = 0
    /\ at \in {"median of", "mode of", "mode", "estimated"} /\ caller = "SampleUntilStable"
         => evaluation < max_evals
    /\ at \in {"loop", "median of", "mode of", "mode", "estimated"} => Len(samples) > 0

\* The interval of ModeOfSorted.
Window ==
    at = "mode" =>
      /\ Ascending(samples)
      /\ idx_begin \in Nat /\ half_count \in Nat
      /\ idx_begin + 2 * half_count <= Len(samples)
      /\ idx_begin < Len(samples)

\* More than half of the samples are v.
Most(v) ==
    LET half == Len(samples) \div 2
    IN  Frequency(SubSeq(samples, 1, 2 * half), v) > half

\* Half of the interval and one element more are v.
Run(v) ==
    IF half_count = 0 THEN samples[idx_begin + 1] = v
    ELSE \E p \in idx_begin + 1 .. idx_begin + half_count :
           \A i \in p .. p + half_count : samples[i] = v

Robust ==
    \A v \in 0 .. (Ticks \div 2) - 1 :
      Most(v) => /\ at = "mode" => Run(v)
                 /\ at = "estimated" => estimate = v

SamplingInv == Typed /\ Control /\ Window /\ Robust

\* What the loops append is a sequence.
LEMMA NewSamples ==
    ASSUME NEW n \in Nat, NEW new \in [1 .. n -> Durations]
    PROVE  new \in Seq(Word) /\ Len(new) = n
<1>1. Durations \subseteq Word
  BY SamplingAssumption DEF Word
<1>2. new \in [1 .. n -> Word]
  BY <1>1
<1>3. QED
  BY <1>2

\* Each step keeps the inductive invariant: the samples and their order, the
\* sizes of the loops, the window of the mode, and what is known of a majority.
LEMMA SInitInv == SInit => SamplingInv
<1>1. SUFFICES ASSUME SInit PROVE SamplingInv
  OBVIOUS
<1>2. 0 \in Word /\ 0 \in 0 .. max_evals
  BY SamplingAssumption DEF Word
<1>3. Typed
  <2>1. << >> \in Seq(Word) /\ 0 \in Nat
    OBVIOUS
  <2>2. at \in Places /\ caller \in Callers
    BY <1>1 DEF SInit, Places, Callers
  <2>3. QED
    BY <1>1, <1>2, <2>1, <2>2 DEF SInit, Typed
<1>4. Control /\ Window /\ Robust
  BY <1>1 DEF SInit, Control, Window, Robust
<1>5. QED
  BY <1>3, <1>4 DEF SamplingInv

LEMMA TimerSamplesInv ==
    ASSUME SamplingInv, NEW new \in [1 .. kTimerSamples -> Durations], TimerSamples(new)
    PROVE  SamplingInv'
<1>1. new \in Seq(Word) /\ Len(new) = kTimerSamples
  BY SamplingAssumption, NewSamples
<1>2. /\ samples' \in Seq(Word) /\ Len(samples') > 0
      /\ caller' \in {"TimerResolution", "last"}
  <2>1. repetitions \in Seq(Word)
    BY DEF SamplingInv, Typed
  <2>2. caller = "TimerResolution"
    BY DEF SamplingInv, Control, TimerSamples
  <2>3. CASE Len(repetitions) < kTimerSamples
    <3>1. samples' = new /\ caller' = caller
      BY <2>3 DEF TimerSamples
    <3>2. QED
      BY <1>1, <2>2, <3>1, SamplingAssumption
  <2>4. CASE ~(Len(repetitions) < kTimerSamples)
    <3>1. samples' = repetitions /\ caller' = "last"
      BY <2>4 DEF TimerSamples
    <3>2. Len(repetitions) \in Nat
      BY <2>1
    <3>3. Len(repetitions) > 0
      BY <2>4, <3>2, SamplingAssumption
    <3>4. QED
      BY <2>1, <3>1, <3>3
  <2>5. QED
    BY <2>3, <2>4
<1>3. Typed'
  BY <1>2 DEF SamplingInv, Typed, Places, Callers, TimerSamples, settings
<1>4. Control' /\ Window' /\ Robust'
  BY <1>2 DEF Control, Window, Robust, TimerSamples
<1>5. QED
  BY <1>3, <1>4 DEF SamplingInv

LEMMA BeginInv ==
    ASSUME SamplingInv, NEW t \in Durations, NEW tolerance, Begin(t, tolerance)
    PROVE  SamplingInv'
<1> DEFINE n == IF t = 0 THEN 0 ELSE ticks_per_eval \div t
<1>1. t \in Word /\ t \in Nat
  BY SamplingAssumption DEF Word
<1>2. n \in Nat /\ min_samples_per_eval \in Nat
  BY <1>1, SamplingAssumption
<1>3. Max({n, min_samples_per_eval}) \in Nat
  <2>1. \E x \in {n, min_samples_per_eval} : \A y \in {n, min_samples_per_eval} : x >= y
    BY <1>2
  <2>2. Max({n, min_samples_per_eval}) \in {n, min_samples_per_eval}
    BY <2>1 DEF Max
  <2>3. QED
    BY <1>2, <2>2
<1>4. samples' \in Seq(Word) /\ Len(samples') > 0 /\ samples_per_eval' \in Nat
  BY <1>1, <1>3 DEF Begin
<1>5. Typed'
  BY <1>1, <1>4 DEF SamplingInv, Typed, Places, Callers, Begin
<1>6. Control' /\ Window' /\ Robust'
  BY <1>4 DEF SamplingInv, Control, Window, Robust, Begin
<1>7. QED
  BY <1>5, <1>6 DEF SamplingInv

LEMMA SampleInv ==
    ASSUME SamplingInv, Sample
    PROVE  SamplingInv'
<1>1. PICK new \in [1 .. samples_per_eval -> Durations] : samples' = samples \o new
  BY DEF Sample
<1>2. new \in Seq(Word) /\ Len(new) \in Nat
  BY NewSamples DEF SamplingInv, Typed
<1>3. samples \in Seq(Word) /\ Len(samples) > 0
  BY DEF SamplingInv, Typed, Control, Sample
<1>4. samples' \in Seq(Word) /\ Len(samples') > 0
  BY <1>1, <1>2, <1>3
<1>5. Typed'
  BY <1>4 DEF SamplingInv, Typed, Places, Sample, settings
<1>6. evaluation < max_evals
  BY DEF Sample, MoreEvaluations
<1>7. Control' /\ Window' /\ Robust'
  BY <1>4, <1>6 DEF SamplingInv, Control, Window, Robust, Sample
<1>8. QED
  BY <1>5, <1>7 DEF SamplingInv

\* The middle of sorted samples, and a majority has it.
LEMMA MedianFacts ==
    ASSUME NEW s \in Seq(Word), Ascending(s), Len(s) > 0
    PROVE  /\ Median(s) \in Word
           /\ \A v \in 0 .. (Ticks \div 2) - 1 :
                LET half == Len(s) \div 2
                IN  Frequency(SubSeq(s, 1, 2 * half), v) > half => Median(s) = v
<1> DEFINE half == Len(s) \div 2
<1>1. Len(s) \in Nat /\ DOMAIN s = 1 .. Len(s) /\ \A i \in DOMAIN s : s[i] \in Word
  BY SequenceFacts
<1>2. /\ half \in Nat /\ 2 * half <= Len(s)
      /\ Len(s) % 2 = 1 => half + 1 \in DOMAIN s
      /\ Len(s) % 2 # 1 => half \in DOMAIN s /\ half + 1 \in DOMAIN s
  BY <1>1
<1>3. Median(s) = IF Len(s) % 2 = 1 THEN s[half + 1] ELSE Average(s[half + 1], s[half])
  BY DEF Median
<1> HIDE DEF half
<1>4. Median(s) \in Word
  BY <1>1, <1>2, <1>3, AverageFacts
<1>5. ASSUME NEW v \in 0 .. (Ticks \div 2) - 1, Frequency(SubSeq(s, 1, 2 * half), v) > half
      PROVE  Median(s) = v
  <2>1. PICK p \in 1 .. half : \A i \in p .. p + half : s[i] = v
    BY <1>2, <1>5, Majority
  <2>2. half \in p .. p + half /\ half + 1 \in p .. p + half
    BY <1>2
  <2>3. s[half] = v /\ s[half + 1] = v
    BY <2>1, <2>2
  <2>4. v \in Word /\ v <= (Ticks \div 2) - 1
    BY SamplingAssumption DEF Word
  <2>5. QED
    BY <1>3, <2>3, <2>4, AverageFacts
<1>6. QED
  BY <1>4, <1>5 DEF half

LEMMA EstimateMedianInv ==
    ASSUME SamplingInv, EstimateMedian
    PROVE  SamplingInv'
<1>1. /\ samples \in Seq(Word) /\ Len(samples) > 0 /\ caller = "SampleUntilStable"
      /\ evaluation < max_evals
  BY DEF SamplingInv, Typed, Control, EstimateMedian
<1>2. samples' = Sort(samples) /\ estimate' = Median(samples')
      /\ at' \in {"estimated", "rejected"}
  BY DEF EstimateMedian, Checked
<1>3. samples' \in Seq(Word) /\ Len(samples') > 0 /\ Ascending(samples')
  BY <1>1, <1>2, SortFacts
<1>4. /\ estimate' \in Word
      /\ \A v \in 0 .. (Ticks \div 2) - 1 :
           LET half == Len(samples') \div 2
           IN  Frequency(SubSeq(samples', 1, 2 * half), v) > half => estimate' = v
  BY <1>2, <1>3, MedianFacts
<1>5. Typed'
  BY <1>2, <1>3, <1>4 DEF SamplingInv, Typed, Places, EstimateMedian, settings
<1>6. Control' /\ Window'
  BY <1>1, <1>2, <1>3 DEF Control, Window, EstimateMedian
<1>7. Robust'
  BY <1>2, <1>4 DEF Robust, Most
<1>8. QED
  BY <1>5, <1>6, <1>7 DEF SamplingInv

\* The first half of an interval that begins at 0.
LEMMA FromZero ==
    ASSUME NEW b, b = 0, NEW n \in Nat, NEW p \in 1 .. n
    PROVE  n # 0 /\ p \in b + 1 .. b + n
  OBVIOUS

LEMMA BeginModeInv ==
    ASSUME SamplingInv, BeginMode
    PROVE  SamplingInv'
<1> DEFINE n == Len(samples)
<1>1. samples \in Seq(Word) /\ Len(samples) > 0
  BY DEF SamplingInv, Typed, Control, BeginMode
<1> DEFINE h == n \div 2
<1>0. n \in Nat /\ h \in Nat /\ 2 * h <= n /\ n > 0
  <2>1. n \in Nat
    BY <1>1
  <2>2. QED
    BY <1>1, <2>1
<1>2. /\ samples' = Sort(samples) /\ idx_begin' = 0 /\ half_count' = h
      /\ at' = "mode" /\ at = "mode of"
  BY <1>1, CountingIsSort DEF BeginMode
<1>3. samples' \in Seq(Word) /\ Len(samples') = n /\ Ascending(samples')
  BY <1>1, <1>2, SortFacts
<1> HIDE DEF n, h
<1>4. half_count' \in Nat /\ 2 * half_count' <= Len(samples')
  BY <1>0, <1>2, <1>3
<1>5. Typed'
  BY <1>2, <1>3 DEF SamplingInv, Typed, Places, BeginMode, settings
<1>6. Control'
  BY <1>0, <1>2, <1>3 DEF SamplingInv, Control, BeginMode
<1>7. Window'
  <2>1. /\ idx_begin' = 0 /\ 0 < Len(samples') /\ half_count' \in Nat
        /\ 2 * half_count' <= Len(samples') /\ Len(samples') \in Nat
    BY <1>0, <1>2, <1>3, <1>4
  <2>2. idx_begin' + 2 * half_count' <= Len(samples')
    BY <2>1
  <2>3. QED
    BY <1>3, <2>1, <2>2 DEF Window
<1>8. ASSUME NEW v, Most(v)' PROVE Run(v)'
  <2>1. Frequency(SubSeq(samples', 1, 2 * half_count'), v) > half_count'
    BY <1>2, <1>3, <1>8 DEF Most, h
  <2>2. PICK p \in 1 .. half_count' : \A i \in p .. p + half_count' : samples'[i] = v
    BY <1>3, <1>4, <2>1, Majority
  <2>3. half_count' # 0 /\ p \in idx_begin' + 1 .. idx_begin' + half_count'
    BY <1>2, <1>4, <2>2, FromZero
  <2>4. QED
    BY <2>2, <2>3 DEF Run
<1>9. Robust'
  BY <1>2, <1>8 DEF Robust
<1>10. QED
  BY <1>5, <1>6, <1>7, <1>9 DEF SamplingInv

LEMMA HalveInv ==
    ASSUME SamplingInv, Halve
    PROVE  SamplingInv'
<1> DEFINE r == MinRange(samples, idx_begin, half_count)
           n == half_count \div 2
<1>1. /\ samples \in Seq(Word) /\ Ascending(samples) /\ Len(samples) \in Nat
      /\ idx_begin \in Nat /\ half_count \in Nat \ {0}
      /\ idx_begin + 2 * half_count <= Len(samples) /\ at = "mode"
  BY DEF SamplingInv, Typed, Window, Halve
<1>2. /\ idx_begin' = r /\ half_count' = n
      /\ UNCHANGED <<at, caller, samples, repetitions, settings, evaluation, estimate>>
  BY DEF Halve, Halved
<1>3. /\ r \in Nat /\ r + half_count < Len(samples)
      /\ \A v : (Ticks > 1 /\ \E p \in idx_begin + 1 .. idx_begin + half_count :
                                \A i \in p .. p + half_count : samples[i] = v)
                  => \A i \in r + 1 .. r + half_count + 1 : samples[i] = v
  BY <1>1, MinRangeFacts
<1>4. n \in Nat /\ 2 * n <= half_count
  BY <1>1
<1> HIDE DEF r, n
<1>5. Typed' /\ Control'
  BY <1>2 DEF SamplingInv, Typed, Control, settings
<1>6. Window'
  BY <1>1, <1>2, <1>3, <1>4 DEF Window
<1>7. ASSUME NEW v \in 0 .. (Ticks \div 2) - 1, Run(v) PROVE Run(v)'
  <2>1. Ticks > 1
    BY <1>7, SamplingAssumption
  <2>2. \A i \in r + 1 .. r + half_count + 1 : samples[i] = v
    BY <1>1, <1>3, <1>7, <2>1 DEF Run
  <2>3. CASE n = 0
    <3>1. r + 1 \in r + 1 .. r + half_count + 1
      BY <1>1, <1>3
    <3>2. QED
      BY <1>2, <2>2, <2>3, <3>1 DEF Run
  <2>4. CASE n # 0
    <3>1. r + 1 \in r + 1 .. r + n
      BY <1>3, <1>4, <2>4
    <3>2. \A i \in r + 1 .. (r + 1) + n : i \in r + 1 .. r + half_count + 1
      BY <1>1, <1>3, <1>4
    <3>3. \A i \in r + 1 .. (r + 1) + n : samples[i] = v
      BY <2>2, <3>2
    <3>4. QED
      BY <1>2, <2>4, <3>1, <3>3 DEF Run
  <2>5. QED
    BY <2>3, <2>4
<1>8. \A v : Most(v)' <=> Most(v)
  BY <1>2 DEF Most
<1>9. Robust'
  BY <1>1, <1>2, <1>7, <1>8 DEF SamplingInv, Robust
<1>10. QED
  BY <1>5, <1>6, <1>9 DEF SamplingInv

\* What ModeOfSorted returns.
LEMMA ModeFacts ==
    ASSUME SamplingInv, ModeDone
    PROVE  LET mode == ModeOf(samples, idx_begin, half_count)
           IN  /\ mode \in Word
               /\ \A v \in 0 .. (Ticks \div 2) - 1 : Most(v) => mode = v
<1>1. /\ samples \in Seq(Word) /\ Len(samples) \in Nat /\ at = "mode"
      /\ idx_begin \in Nat /\ (half_count = 0 \/ half_count = 1)
      /\ idx_begin + 2 * half_count <= Len(samples) /\ idx_begin < Len(samples)
  BY DEF SamplingInv, Typed, Window, ModeDone
<1>2. CASE half_count = 0
  <2>1. idx_begin + 1 \in DOMAIN samples
    BY <1>1
  <2>2. samples[idx_begin + 1] \in Word
    BY <1>1, <2>1
  <2>3. QED
    BY <1>1, <1>2, <2>2 DEF ModeOf, SamplingInv, Robust, Run
<1>3. CASE half_count = 1
  <2>1. idx_begin + 1 \in DOMAIN samples /\ idx_begin + 2 \in DOMAIN samples
    BY <1>1, <1>3
  <2>2. samples[idx_begin + 1] \in Word /\ samples[idx_begin + 2] \in Word
    BY <1>1, <2>1
  <2>3. ModeOf(samples, idx_begin, half_count)
          = Average(samples[idx_begin + 1], samples[idx_begin + 2])
    BY <1>3 DEF ModeOf
  <2>4. ASSUME NEW v \in 0 .. (Ticks \div 2) - 1, Most(v)
        PROVE  ModeOf(samples, idx_begin, half_count) = v
    <3>1. PICK p \in idx_begin + 1 .. idx_begin + 1 : \A i \in p .. p + 1 : samples[i] = v
      BY <1>1, <1>3, <2>4 DEF SamplingInv, Robust, Run
    <3>2. idx_begin + 1 \in p .. p + 1 /\ idx_begin + 2 \in p .. p + 1
      BY <1>1
    <3>3. samples[idx_begin + 1] = v /\ samples[idx_begin + 2] = v
      BY <3>1, <3>2
    <3>4. v <= (Ticks \div 2) - 1
      BY SamplingAssumption
    <3>5. QED
      BY <2>2, <2>3, <3>3, <3>4, AverageFacts
  <2>5. QED
    BY <2>2, <2>3, <2>4, AverageFacts
<1>4. QED
  BY <1>1, <1>2, <1>3

LEMMA EstimateModeInv ==
    ASSUME SamplingInv, EstimateMode
    PROVE  SamplingInv'
<1>1. /\ ModeDone /\ caller = "SampleUntilStable" /\ at = "mode"
      /\ estimate' = ModeOf(samples, idx_begin, half_count)
      /\ at' \in {"estimated", "rejected"}
      /\ UNCHANGED <<caller, samples, repetitions, settings, evaluation>>
  BY DEF EstimateMode, ModeDone, Checked
<1>2. estimate' \in Word /\ \A v \in 0 .. (Ticks \div 2) - 1 : Most(v) => estimate' = v
  BY <1>1, ModeFacts
<1>3. Typed'
  BY <1>1, <1>2 DEF SamplingInv, Typed, Places, settings
<1>4. Control' /\ Window'
  BY <1>1 DEF SamplingInv, Control, Window
<1>5. Robust'
  BY <1>1, <1>2 DEF Robust, Most
<1>6. QED
  BY <1>3, <1>4, <1>5 DEF SamplingInv

LEMMA TimerModeInv ==
    ASSUME SamplingInv, TimerMode
    PROVE  SamplingInv'
<1> DEFINE mode == ModeOf(samples, idx_begin, half_count)
<1>1. mode \in Word
  BY ModeFacts DEF TimerMode
<1>2. /\ samples' = << >> /\ UNCHANGED <<caller, settings, evaluation>>
      /\ \/ /\ estimate' = mode /\ at' = "returned" /\ UNCHANGED repetitions
         \/ /\ repetitions' = Append(repetitions, mode) /\ at' = "timer"
            /\ caller = "TimerResolution" /\ UNCHANGED estimate
  BY DEF TimerMode, Recorded
<1> HIDE DEF mode
<1>3. repetitions' \in Seq(Word) /\ samples' \in Seq(Word) /\ estimate' \in Word
  BY <1>1, <1>2 DEF SamplingInv, Typed
<1>4. Typed'
  BY <1>2, <1>3 DEF SamplingInv, Typed, Places, settings
<1>5. Control' /\ Window' /\ Robust'
  BY <1>2 DEF Control, Window, Robust
<1>6. QED
  BY <1>4, <1>5 DEF SamplingInv

LEMMA DecideInv ==
    ASSUME SamplingInv, Decide
    PROVE  SamplingInv'
<1>1. /\ at = "estimated" /\ evaluation < max_evals /\ Len(samples) > 0
      /\ caller = "SampleUntilStable" /\ evaluation \in Nat /\ max_evals \in Nat
      /\ UNCHANGED <<caller, samples, repetitions, estimate, idx_begin, half_count>>
  BY SamplingAssumption DEF SamplingInv, Typed, Control, Decide, interval
<1>2. /\ \/ at' = "returned" /\ UNCHANGED <<evaluation, samples_per_eval>>
         \/ /\ at' = "loop" /\ evaluation' = evaluation + 1
            /\ samples_per_eval' = 2 * samples_per_eval
  BY DEF Decide
<1>3. Typed'
  <2>1. /\ caller \in Callers /\ samples \in Seq(Word) /\ repetitions \in Seq(Word)
        /\ samples_per_eval \in Nat /\ evaluation \in 0 .. max_evals /\ estimate \in Word
    BY DEF SamplingInv, Typed
  <2>2. samples_per_eval' \in Nat /\ evaluation' \in 0 .. max_evals
    BY <1>1, <1>2, <2>1
  <2>3. at' \in Places
    BY <1>2 DEF Places
  <2>4. QED
    BY <1>1, <2>1, <2>2, <2>3 DEF Typed
<1>4. Control' /\ Window' /\ Robust'
  BY <1>1, <1>2 DEF Control, Window, Robust
<1>5. QED
  BY <1>3, <1>4 DEF SamplingInv

LEMMA SamplingStep == SamplingInv /\ [SNext]_svars => SamplingInv'
<1>1. SUFFICES ASSUME SamplingInv, [SNext]_svars PROVE SamplingInv'
  OBVIOUS
<1>2. ASSUME NEW t \in Durations, NEW tolerance \in Tolerances, Begin(t, tolerance)
      PROVE  SamplingInv'
  BY <1>1, <1>2, BeginInv
<1>3. ASSUME NEW new \in [1 .. kTimerSamples -> Durations], TimerSamples(new)
      PROVE  SamplingInv'
  BY <1>1, <1>3, TimerSamplesInv
<1>4. CASE GiveUp
  <2>1. Typed'
    BY <1>1, <1>4 DEF SamplingInv, Typed, Places, GiveUp, settings
  <2>2. Control' /\ Window' /\ Robust'
    BY <1>4 DEF Control, Window, Robust, GiveUp
  <2>3. QED
    BY <2>1, <2>2 DEF SamplingInv
<1>5. CASE UNCHANGED svars
  <2>1. Typed' /\ Control' /\ Window'
    BY <1>1, <1>5 DEF SamplingInv, Typed, Control, Window, svars, settings, interval
  <2>2. Robust'
    BY <1>1, <1>5 DEF SamplingInv, Robust, Most, Run, svars, interval
  <2>3. QED
    BY <2>1, <2>2 DEF SamplingInv
<1>6. QED
  BY <1>1, <1>2, <1>3, <1>4, <1>5, SampleInv, EstimateMedianInv, BeginModeInv, HalveInv,
     EstimateModeInv, TimerModeInv, DecideInv DEF SNext, Step

LEMMA SamplingInvariant == SSpec => []SamplingInv
  BY SInitInv, SamplingStep, PTL DEF SSpec

-----------------------------------------------------------------------------
(* The properties.                                                         *)

\* The halving loop of ModeOfSorted stays inside the array of samples, for
\* any number of them and any parameters.
THEOREM HalvesInside == SSpec => []ReadsInside
<1>1. SamplingInv => ReadsInside
  BY DEF SamplingInv, Window, ReadsInside
<1>2. QED
  BY <1>1, SamplingInvariant, PTL

\* A duration that most samples have is what the median and the half sample
\* mode of SampleUntilStable and TimerResolution make of them.
THEOREM MajorityIsEstimate == SSpec => []MajorityWins
<1>1. ASSUME SamplingInv PROVE MajorityWins
  <2>1. ASSUME NEW v \in 0 .. (Ticks \div 2) - 1, Most(v), ModeDone
        PROVE  ModeOf(samples, idx_begin, half_count) = v
    BY <1>1, <2>1, ModeFacts
  <2>2. ASSUME NEW v \in 0 .. (Ticks \div 2) - 1, Most(v), at = "estimated"
        PROVE  estimate = v
    BY <1>1, <2>2 DEF SamplingInv, Robust
  <2>3. QED
    BY <2>1, <2>2 DEF MajorityWins, Most
<1>2. QED
  BY <1>1, SamplingInvariant, PTL

\* The earlier samples are in front.
LEMMA Appended ==
    ASSUME NEW s \in Seq(Word), NEW new \in Seq(Word)
    PROVE  IsPrefix(s, s \o new)
<1>1. Len(s) \in Nat /\ Len(new) \in Nat /\ Len(s \o new) = Len(s) + Len(new)
  OBVIOUS
<1>2. \A i \in 1 .. Len(s) : (s \o new)[i] = s[i]
  BY <1>1
<1>3. SubSeq(s, 1, Len(s)) = SubSeq(s \o new, 1, Len(s))
  BY <1>1, <1>2
<1>4. QED
  BY <1>1, <1>3 DEF IsPrefix

\* Neighbours in order, and as many of each value as before.
LEMMA Sorted ==
    ASSUME NEW s \in Seq(Word)
    PROVE  /\ \A i \in 1 .. Len(Sort(s)) - 1 : Sort(s)[i] <= Sort(s)[i + 1]
           /\ \A v : Frequency(s, v) = Frequency(Sort(s), v)
<1>1. /\ Sort(s) \in Seq(Word) /\ Ascending(Sort(s))
      /\ \A v : Frequency(Sort(s), v) = Frequency(s, v)
  BY SortFacts
<1>2. DOMAIN Sort(s) = 1 .. Len(Sort(s)) /\ Len(Sort(s)) \in Nat
  BY <1>1, SequenceFacts
<1>3. ASSUME NEW i \in 1 .. Len(Sort(s)) - 1 PROVE Sort(s)[i] <= Sort(s)[i + 1]
  <2>1. i \in DOMAIN Sort(s) /\ i + 1 \in DOMAIN Sort(s) /\ i <= i + 1
    BY <1>2
  <2>2. QED
    BY <1>1, <2>1 DEF Ascending
<1>4. QED
  BY <1>1, <1>3

\* Sampling leaves the earlier samples as they are, and the sorts inside of
\* Median and Mode, one of them by counting, order the same samples.
THEOREM SamplesKept == SSpec => KeepsSamples
<1> DEFINE Kept ==
      /\ at = "loop" => IsPrefix(samples, samples')
      /\ at \in {"median of", "mode of"} =>
           /\ \A i \in 1 .. Len(samples') - 1 : samples'[i] <= samples'[i + 1]
           /\ \A v \in Range(samples) \cup Range(samples') :
                Frequency(samples, v) = Frequency(samples', v)
<1>1. ASSUME SamplingInv, [SNext]_svars PROVE [Kept]_svars
  <2>1. samples \in Seq(Word)
    BY <1>1 DEF SamplingInv, Typed
  <2>2. CASE Sample
    <3>1. PICK new \in [1 .. samples_per_eval -> Durations] : samples' = samples \o new
      BY <2>2 DEF Sample
    <3>2. new \in Seq(Word)
      BY <1>1, NewSamples DEF SamplingInv, Typed
    <3>3. IsPrefix(samples, samples')
      BY <2>1, <3>1, <3>2, Appended
    <3>4. QED
      BY <2>2, <3>3 DEF Sample
  <2>3. CASE GiveUp
    <3>1. samples' = samples /\ Len(samples) \in Nat
      BY <2>1, <2>3 DEF GiveUp
    <3>2. IsPrefix(samples, samples')
      BY <3>1 DEF IsPrefix
    <3>3. QED
      BY <2>3, <3>2 DEF GiveUp
  <2>4. CASE EstimateMedian \/ BeginMode
    <3>1. samples' = Sort(samples) /\ at # "loop"
      BY <2>1, <2>4, CountingIsSort DEF EstimateMedian, BeginMode
    <3>2. QED
      BY <2>1, <3>1, Sorted
  <2>5. CASE at \notin {"loop", "median of", "mode of"} \/ UNCHANGED svars
    BY <2>5
  <2>6. ASSUME NEW t \in Durations, NEW tolerance \in Tolerances, Begin(t, tolerance)
        PROVE  at = "idle"
    BY <2>6 DEF Begin
  <2>7. ASSUME NEW new \in [1 .. kTimerSamples -> Durations], TimerSamples(new)
        PROVE  at = "timer"
    BY <2>7 DEF TimerSamples
  <2>8. Halve \/ EstimateMode \/ TimerMode \/ Decide => at \in {"mode", "estimated"}
    BY DEF Halve, EstimateMode, TimerMode, Decide, ModeDone
  <2>9. QED
    BY <1>1, <2>2, <2>3, <2>4, <2>5, <2>6, <2>7, <2>8 DEF SNext, Step
<1>2. QED
  BY <1>1, SamplingInvariant, PTL DEF SSpec, KeepsSamples

-----------------------------------------------------------------------------
(* The refinement of module Estimator.                                     *)

\* Its state, of the mapping of Promise.
Sampler == IF Failed THEN "aborted" ELSE IF Sampling THEN "busy" ELSE "idle"

Evaluated ==
    IF Sampling \/ Failed
    THEN evaluation + (IF at \in {"estimated", "rejected"} THEN 1 ELSE 0)
    ELSE 0

Estimated == IF Sampling \/ Failed THEN estimate ELSE 0

Mapped == <<Sampler, Evaluated, Estimated>>

\* What is added to evaluation while no estimate is there.
LEMMA EvaluationCounts ==
    ASSUME SamplingInv
    PROVE  /\ evaluation \in Nat /\ max_evals \in Nat
           /\ evaluation + 0 = evaluation
<1>1. evaluation \in 0 .. max_evals /\ max_evals \in Nat
  BY SamplingAssumption DEF SamplingInv, Typed
<1>2. evaluation \in Nat
  BY <1>1
<1>3. QED
  BY <1>1, <1>2

\* An estimate, if the checks reject it or not, is an evaluation.
LEMMA Evaluates ==
    ASSUME SamplingInv, SamplingInv', caller = "SampleUntilStable", UNCHANGED <<caller, evaluation>>,
           at \in {"median of", "mode"}, at' = Checked(estimate')
    PROVE  Promise!Evaluate(estimate')
<1>1. /\ evaluation \in Nat /\ evaluation < max_evals /\ max_evals \in Nat
      /\ evaluation + 0 = evaluation
  BY EvaluationCounts DEF SamplingInv, Control
<1>2. Sampling /\ ~Failed /\ at \notin {"estimated", "rejected"}
  BY DEF Sampling, Failed
<1>3. Sampler = "busy" /\ Evaluated = evaluation
  BY <1>1, <1>2, Zenon DEF Sampler, Evaluated
<1>4. CASE Promise!Rejected(estimate')
  <2>1. at' = "rejected" /\ Failed'
    BY <1>4 DEF Checked, Promise!Rejected, Failed
  <2>2. Sampler' = "aborted" /\ Evaluated' = evaluation + 1 /\ Estimated' = estimate'
    BY <2>1 DEF Sampler, Evaluated, Estimated
  <2>3. QED
    BY <1>1, <1>3, <1>4, <2>2
    DEF Promise!Evaluate, Promise!MoreEvals, Sampler, Evaluated, Estimated
<1>5. CASE ~Promise!Rejected(estimate')
  <2>1. at' = "estimated" /\ ~Failed' /\ Sampling'
    BY <1>5 DEF Checked, Promise!Rejected, Failed, Sampling
  <2>2. Sampler' = "busy" /\ Evaluated' = evaluation + 1 /\ Estimated' = estimate'
    BY <2>1 DEF Sampler, Evaluated, Estimated
  <2>3. QED
    BY <1>1, <1>3, <1>5, <2>2
    DEF Promise!Evaluate, Promise!MoreEvals, Sampler, Evaluated, Estimated
<1>6. QED
  BY <1>4, <1>5

\* The single measurement is the estimator's beginning.
LEMMA Begins ==
    ASSUME SamplingInv, NEW t \in Durations, NEW tolerance, Begin(t, tolerance)
    PROVE  Promise!SampleBegin(t)
<1>1. at = "idle" /\ caller = "SampleUntilStable" /\ evaluation = 0
  BY DEF SamplingInv, Control, Begin
<1>2. /\ estimate' = t /\ UNCHANGED <<caller, evaluation>>
      /\ at' \in IF t = 0 THEN {"loop", "aborted"} ELSE {"loop"}
  BY DEF Begin
<1>3. Sampler = "idle"
  BY <1>1 DEF Sampler, Sampling, Failed
<1>4. /\ Sampler' \in IF t = 0 THEN {"busy", "aborted"} ELSE {"busy"}
      /\ Sampling' \/ Failed'
  BY <1>1, <1>2 DEF Sampler, Sampling, Failed
<1>5. Evaluated' = 0 /\ Estimated' = t
  BY <1>1, <1>2, <1>4 DEF Evaluated, Estimated
<1>6. QED
  BY <1>3, <1>4, <1>5 DEF Promise!SampleBegin, Sampler, Evaluated, Estimated

\* From "estimated", or from "loop" when all evaluations are made.
LEMMA Returns ==
    ASSUME SamplingInv, caller = "SampleUntilStable", at' = "returned",
           \/ at = "estimated"
           \/ at = "loop" /\ ~MoreEvaluations
    PROVE  Promise!SampleReturn(estimate)
<1>1. evaluation \in Nat /\ max_evals \in Nat
  BY SamplingAssumption DEF SamplingInv, Typed
<1>2. Sampling /\ ~Failed
  BY DEF Sampling, Failed
<1>3. Sampler = "busy" /\ Estimated = estimate
  BY <1>2 DEF Sampler, Estimated
<1>4. Evaluated > 0 \/ max_evals = 0
  BY <1>1, <1>2 DEF Evaluated, MoreEvaluations
<1>5. Sampler' = "idle" /\ Evaluated' = 0 /\ Estimated' = 0
  BY DEF Sampler, Evaluated, Estimated, Sampling, Failed
<1>6. QED
  BY <1>3, <1>4, <1>5 DEF Promise!SampleReturn, Sampler, Evaluated, Estimated

\* What happens between evaluations and inside of one, and all that
\* TimerResolution does, changes nothing of it.
LEMMA Stutters ==
    ASSUME \/ /\ Sampling /\ Sampling' /\ UNCHANGED <<evaluation, estimate>>
              /\ at # "estimated" /\ at' # "estimated"
           \/ /\ ~Sampling /\ ~Sampling' /\ ~Failed /\ ~Failed'
    PROVE  UNCHANGED Mapped
<1>1. CASE Sampling
  <2>1. Sampling' /\ UNCHANGED <<evaluation, estimate>> /\ ~Failed /\ ~Failed'
        /\ at \notin {"estimated", "rejected"} /\ at' \notin {"estimated", "rejected"}
    BY <1>1 DEF Sampling, Failed
  <2>2. UNCHANGED Sampler /\ UNCHANGED Evaluated /\ UNCHANGED Estimated
    BY <1>1, <2>1 DEF Sampler, Evaluated, Estimated
  <2>3. QED
    BY <2>2 DEF Mapped
<1>2. CASE ~Sampling
  <2>1. UNCHANGED Sampler /\ UNCHANGED Evaluated /\ UNCHANGED Estimated
    BY <1>2 DEF Sampler, Evaluated, Estimated
  <2>2. QED
    BY <2>1 DEF Mapped
<1>3. QED
  BY <1>1, <1>2

\* The timer runs before anything is estimated.
LEMMA SamplerInit == SInit => Promise!EstimatorInit
  BY DEF SInit, Promise!EstimatorInit, Sampling, Failed

\* Begin begins, the two ways to an estimate evaluate, Decide returns or goes
\* on, GiveUp returns, and every other step is the estimator's own business.
LEMMA SamplerStep ==
    ASSUME SamplingInv, SamplingInv', [SNext]_svars
    PROVE  [Promise!EstimatorNext]_Mapped
<1>1. estimate \in Promise!Tick /\ estimate' \in Promise!Tick /\ Durations \subseteq Promise!Tick
  BY SamplingAssumption DEF SamplingInv, Typed, Word, Promise!Tick
<1>2. at \in {"loop", "median of", "estimated"} => caller = "SampleUntilStable"
  BY DEF SamplingInv, Control
<1>3. ASSUME NEW t \in Durations, NEW tolerance \in Tolerances, Begin(t, tolerance)
      PROVE  Promise!EstimatorNext
  BY <1>1, <1>3, Begins DEF Promise!EstimatorNext
<1>4. ASSUME NEW new \in [1 .. kTimerSamples -> Durations], TimerSamples(new)
      PROVE  UNCHANGED Mapped
  <2>1. at = "timer" /\ at' = "mode of" /\ caller' # "SampleUntilStable"
    BY <1>4 DEF SamplingInv, Control, TimerSamples
  <2>2. QED
    BY <2>1, Stutters DEF Sampling, Failed
<1>5. CASE Sample
  <2>1. /\ at = "loop" /\ at' \in {"mode of", "median of"}
        /\ UNCHANGED <<caller, evaluation, estimate>>
    BY <1>5 DEF Sample
  <2>2. QED
    BY <1>2, <2>1, Stutters DEF Sampling
<1>6. CASE EstimateMedian
  <2>1. at = "median of" /\ at' = Checked(estimate') /\ UNCHANGED <<caller, evaluation>>
    BY <1>6 DEF EstimateMedian
  <2>2. QED
    BY <1>1, <1>2, <2>1, Evaluates DEF Promise!EstimatorNext
<1>7. CASE BeginMode \/ Halve
  <2>1. /\ at \in {"mode of", "mode"} /\ at' \in {"mode of", "mode"}
        /\ UNCHANGED <<caller, evaluation, estimate>>
    BY <1>7 DEF BeginMode, Halve
  <2>2. QED
    BY <2>1, Stutters DEF Sampling, Failed
<1>8. CASE EstimateMode
  <2>1. /\ at = "mode" /\ at' = Checked(estimate') /\ UNCHANGED <<caller, evaluation>>
        /\ caller = "SampleUntilStable"
    BY <1>8 DEF EstimateMode, ModeDone
  <2>2. QED
    BY <1>1, <2>1, Evaluates DEF Promise!EstimatorNext
<1>9. CASE TimerMode
  <2>1. /\ at = "mode" /\ at' \in {"returned", "timer"} /\ caller # "SampleUntilStable"
    BY <1>9 DEF TimerMode, ModeDone
  <2>2. QED
    BY <2>1, Stutters DEF Sampling, Failed
<1>10. CASE Decide
  <2>1. CASE Stable
    <3>1. at = "estimated" /\ at' = "returned"
      BY <1>10, <2>1 DEF Decide
    <3>2. QED
      BY <1>1, <1>2, <3>1, Returns DEF Promise!EstimatorNext
  <2>2. CASE ~Stable
    <3>1. /\ at = "estimated" /\ at' = "loop" /\ evaluation' = evaluation + 1
          /\ UNCHANGED <<caller, estimate>>
      BY <1>10, <2>2 DEF Decide
    <3>2. Sampling /\ Sampling' /\ ~Failed /\ ~Failed'
      BY <1>2, <3>1 DEF Sampling, Failed
    <3>3. (evaluation + 1) + 0 = evaluation + 1
      BY DEF SamplingInv, Typed
    <3>4. UNCHANGED Sampler /\ UNCHANGED Estimated
      BY <3>1, <3>2 DEF Sampler, Estimated
    <3>5. Evaluated = evaluation + 1 /\ Evaluated' = (evaluation + 1) + 0
      BY <3>1, <3>2 DEF Evaluated
    <3>6. QED
      BY <3>3, <3>4, <3>5 DEF Mapped
  <2>3. QED
    BY <2>1, <2>2
<1>11. CASE GiveUp
  <2>1. at = "loop" /\ ~MoreEvaluations /\ at' = "returned"
    BY <1>11 DEF GiveUp
  <2>2. QED
    BY <1>1, <1>2, <2>1, Returns DEF Promise!EstimatorNext
<1>12. CASE UNCHANGED svars
  BY <1>12 DEF svars, settings, interval, Mapped, Sampler, Evaluated, Estimated, Sampling, Failed
<1>13. QED
  BY <1>3, <1>4, <1>5, <1>6, <1>7, <1>8, <1>9, <1>10, <1>11, <1>12 DEF SNext, Step

\* SampleUntilStable, with its samples, sorts and interval loop, does what
\* Measure takes it for: at most max_evals evaluations after the first
\* measurement, and a result that is the last one's estimate.
THEOREM SamplingIsEstimator == SSpec => ImplementsEstimator
<1>1. SamplingInv /\ SamplingInv' /\ [SNext]_svars => [Promise!EstimatorNext]_(Promise!estVars)
  BY SamplerStep DEF Mapped, Promise!estVars, Sampler, Evaluated, Estimated
<1>2. QED
  BY <1>1, SamplerInit, SamplingInvariant, PTL
  DEF SSpec, ImplementsEstimator, Promise!EstimatorSpec

-----------------------------------------------------------------------------
(* The way to the end.                                                     *)

\* Rounds of the loop that is running: repetitions of TimerResolution, and the
\* mode of them, or evaluations.
RoundsLeft ==
    CASE caller = "TimerResolution"   -> kTimerSamples - Len(repetitions) + 1
      [] caller = "SampleUntilStable" -> max_evals - evaluation
      [] OTHER                        -> 0

\* Steps of a round.
StepsLeft ==
    CASE at \in {"timer", "idle"}         -> 5
      [] at = "loop"                      -> 4
      [] at \in {"mode of", "median of"}  -> 3
      [] at = "mode"                      -> 2
      [] at = "estimated"                 -> 1
      [] OTHER                            -> 0

SamplingDescends ==
    \/ RoundsLeft' < RoundsLeft
    \/ /\ RoundsLeft' = RoundsLeft
       /\ \/ StepsLeft' < StepsLeft
          \/ StepsLeft' = StepsLeft /\ half_count' < half_count

\* The repetitions of TimerResolution, and the window as a number.
Repeating ==
    /\ Len(repetitions) <= kTimerSamples
    /\ caller = "TimerResolution" /\ at \in {"mode of", "mode"}
         => Len(repetitions) < kTimerSamples
    /\ half_count \in Nat

LEMMA HalfOf ==
    ASSUME NEW n \in Nat
    PROVE  n \div 2 \in Nat
  OBVIOUS

LEMMA RepeatingStep ==
    ASSUME SamplingInv, SamplingInv', Repeating, [SNext]_svars
    PROVE  Repeating'
<1>1. PICK r \in Nat : r = Len(repetitions)
  BY DEF SamplingInv, Typed
<1>2. kTimerSamples \in Nat \ {0}
  BY SamplingAssumption
<1>3. ASSUME NEW t \in Durations, NEW tolerance \in Tolerances, Begin(t, tolerance)
      PROVE  Repeating'
  BY <1>3 DEF Repeating, Begin, interval
<1>4. ASSUME NEW new \in [1 .. kTimerSamples -> Durations], TimerSamples(new)
      PROVE  Repeating'
  BY <1>4 DEF Repeating, TimerSamples, interval
<1>5. CASE Sample
  <2>1. caller = "SampleUntilStable"
    BY <1>5 DEF SamplingInv, Control, Sample
  <2>2. QED
    BY <1>5, <2>1 DEF Repeating, Sample, interval
<1>6. CASE EstimateMedian
  <2>1. caller = "SampleUntilStable"
    BY <1>6 DEF SamplingInv, Control, EstimateMedian
  <2>2. QED
    BY <1>6, <2>1 DEF Repeating, EstimateMedian, interval
<1>7. CASE BeginMode
  <2>1. PICK n \in Nat : n = Len(samples)
    BY DEF SamplingInv, Typed
  <2>2. half_count' = n \div 2
    BY <1>7, <2>1 DEF BeginMode
  <2>3. half_count' \in Nat
    BY <2>2, HalfOf
  <2>4. QED
    BY <1>7, <2>3 DEF Repeating, BeginMode
<1>8. CASE Halve
  <2>1. half_count' \in Nat
    BY <1>8 DEF Repeating, Halve, Halved
  <2>2. QED
    BY <1>8, <2>1 DEF Repeating, Halve
<1>9. CASE EstimateMode
  BY <1>9 DEF Repeating, EstimateMode
<1>10. CASE TimerMode
  <2>1. at = "mode" /\ half_count' = 0 /\ caller' = caller
    BY <1>10 DEF TimerMode, ModeDone
  <2>2. CASE caller = "last"
    BY <1>10, <2>1, <2>2 DEF TimerMode, Repeating
  <2>3. CASE caller # "last"
    <3>1. caller = "TimerResolution" /\ at' = "timer"
      BY <1>10, <2>3 DEF TimerMode
    <3>2. PICK v : repetitions' = Append(repetitions, v)
      BY <1>10, <2>3 DEF TimerMode, Recorded
    <3>3. r < kTimerSamples
      BY <1>1, <2>1, <3>1 DEF Repeating
    <3>4. Len(repetitions') = r + 1
      BY <1>1, <3>2 DEF SamplingInv, Typed
    <3>5. QED
      BY <1>2, <2>1, <3>1, <3>3, <3>4 DEF Repeating
  <2>4. QED
    BY <2>2, <2>3
<1>11. CASE Decide
  <2>1. at' \in {"returned", "loop"} /\ UNCHANGED <<repetitions, half_count>>
    BY <1>11 DEF Decide, interval
  <2>2. QED
    BY <2>1 DEF Repeating
<1>12. CASE GiveUp
  BY <1>12 DEF Repeating, GiveUp, interval
<1>13. CASE UNCHANGED svars
  BY <1>13 DEF Repeating, svars, interval
<1>14. QED
  BY <1>3, <1>4, <1>5, <1>6, <1>7, <1>8, <1>9, <1>10, <1>11, <1>12, <1>13
     DEF SNext, Step

LEMMA RepeatingInvariant == SSpec => [](SamplingInv /\ Repeating)
<1>1. ASSUME SInit
      PROVE  Repeating
  <2>1. repetitions = << >> /\ half_count = 0 /\ at \in {"timer", "idle"}
    BY <1>1 DEF SInit
  <2>2. Len(repetitions) = 0
    BY <2>1
  <2>3. kTimerSamples \in Nat
    BY SamplingAssumption
  <2>4. Len(repetitions) <= kTimerSamples /\ half_count \in Nat
    BY <2>1, <2>2, <2>3
  <2>5. ~ (at \in {"mode of", "mode"})
    BY <2>1
  <2>6. QED
    BY <2>4, <2>5, Zenon DEF Repeating
<1>2. QED
  BY <1>1, SamplingInvariant, RepeatingStep, PTL DEF SSpec

LEMMA SamplingRanks ==
    ASSUME SamplingInv, Repeating
    PROVE  RoundsLeft \in Nat /\ StepsLeft \in Nat
<1>1. /\ Len(repetitions) \in Nat /\ kTimerSamples \in Nat
      /\ max_evals \in Nat /\ evaluation \in 0 .. max_evals
  BY SamplingAssumption DEF SamplingInv, Typed
<1>2. RoundsLeft \in Nat
  <2>1. PICK r \in Nat : r = Len(repetitions)
    BY <1>1
  <2>2. r <= kTimerSamples
    BY <2>1 DEF Repeating
  <2>3. kTimerSamples - r + 1 \in Nat /\ max_evals - evaluation \in Nat
    BY <1>1, <2>2
  <2>4. QED
    BY <2>1, <2>3 DEF RoundsLeft
<1>3. QED
  BY <1>2 DEF StepsLeft

\* The steps within a round.
LEMMA SameRound ==
    ASSUME UNCHANGED <<caller, repetitions, evaluation>>
    PROVE  RoundsLeft' = RoundsLeft
  BY DEF RoundsLeft

LEMMA FewerSteps ==
    ASSUME RoundsLeft' = RoundsLeft, StepsLeft' < StepsLeft
    PROVE  SamplingDescends
  BY DEF SamplingDescends

\* Every step of SampleUntilStable and of TimerResolution has fewer rounds
\* left, or fewer steps of the round, or a shorter interval of the half sample
\* mode: for all durations and parameters there are only finitely many.
THEOREM SamplingIsFinite ==
    SSpec => /\ [](RoundsLeft \in Nat /\ StepsLeft \in Nat /\ half_count \in Nat)
             /\ [][SamplingDescends]_svars
<1>1. ASSUME SamplingInv, Repeating, SNext
      PROVE  SamplingDescends
  <2>1. PICK r \in Nat : r = Len(repetitions)
    BY <1>1 DEF SamplingInv, Typed
  <2>2. kTimerSamples \in Nat /\ max_evals \in Nat /\ evaluation \in Nat
    BY <1>1, SamplingAssumption DEF SamplingInv, Typed
  <2>3. ASSUME NEW t \in Durations, NEW tolerance \in Tolerances, Begin(t, tolerance)
        PROVE  SamplingDescends
    <3>1. at = "idle" /\ at' \in {"loop", "aborted"}
      BY <2>3 DEF Begin
    <3>2. RoundsLeft' = RoundsLeft
      BY <2>3, SameRound DEF Begin
    <3>3. StepsLeft = 5 /\ StepsLeft' \in {0, 4}
      BY <3>1 DEF StepsLeft
    <3>4. StepsLeft' < StepsLeft
      BY <3>3
    <3>5. QED
      BY <3>2, <3>4, FewerSteps
  <2>4. ASSUME NEW new \in [1 .. kTimerSamples -> Durations], TimerSamples(new)
        PROVE  SamplingDescends
    <3>1. at = "timer" /\ at' = "mode of" /\ caller = "TimerResolution"
      BY <1>1, <2>4 DEF TimerSamples, SamplingInv, Control
    <3>2. CASE r < kTimerSamples
      <4>1. UNCHANGED <<caller, repetitions, evaluation>>
        BY <2>1, <2>4, <3>2 DEF TimerSamples
      <4>2. RoundsLeft' = RoundsLeft
        BY <4>1, SameRound
      <4>3. StepsLeft = 5 /\ StepsLeft' = 3
        BY <3>1 DEF StepsLeft
      <4>4. StepsLeft' < StepsLeft
        BY <4>3
      <4>5. QED
        BY <4>2, <4>4, FewerSteps
    <3>3. CASE ~(r < kTimerSamples)
      <4>1. caller' = "last"
        BY <2>1, <2>4, <3>3 DEF TimerSamples
      <4>2. RoundsLeft = kTimerSamples - r + 1 /\ RoundsLeft' = 0
        BY <2>1, <3>1, <4>1 DEF RoundsLeft
      <4>3. r <= kTimerSamples
        BY <1>1, <2>1 DEF Repeating
      <4>4. RoundsLeft' < RoundsLeft
        BY <2>2, <4>2, <4>3
      <4>5. QED
        BY <4>4 DEF SamplingDescends
    <3>4. QED
      BY <3>2, <3>3
  <2>5. CASE Sample
    <3>1. at = "loop" /\ at' \in {"mode of", "median of"}
      BY <2>5 DEF Sample
    <3>2. RoundsLeft' = RoundsLeft
      BY <2>5, SameRound DEF Sample
    <3>3. StepsLeft = 4 /\ StepsLeft' = 3
      BY <3>1 DEF StepsLeft
    <3>4. StepsLeft' < StepsLeft
      BY <3>3
    <3>5. QED
      BY <3>2, <3>4, FewerSteps
  <2>6. CASE EstimateMedian
    <3>1. at = "median of" /\ at' \in {"rejected", "estimated"}
      BY <2>6 DEF EstimateMedian, Checked
    <3>2. RoundsLeft' = RoundsLeft
      BY <2>6, SameRound DEF EstimateMedian
    <3>3. StepsLeft = 3 /\ StepsLeft' \in {0, 1}
      BY <3>1 DEF StepsLeft
    <3>4. StepsLeft' < StepsLeft
      BY <3>3
    <3>5. QED
      BY <3>2, <3>4, FewerSteps
  <2>7. CASE BeginMode
    <3>1. at = "mode of" /\ at' = "mode"
      BY <2>7 DEF BeginMode
    <3>2. RoundsLeft' = RoundsLeft
      BY <2>7, SameRound DEF BeginMode
    <3>3. StepsLeft = 3 /\ StepsLeft' = 2
      BY <3>1 DEF StepsLeft
    <3>4. StepsLeft' < StepsLeft
      BY <3>3
    <3>5. QED
      BY <3>2, <3>4, FewerSteps
  <2>8. CASE Halve
    <3>1. RoundsLeft' = RoundsLeft
      BY <2>8, SameRound DEF Halve
    <3>2. StepsLeft' = StepsLeft
      BY <2>8 DEF Halve, StepsLeft
    <3>3. half_count' < half_count
      BY <1>1, <2>8 DEF Halve, Halved, Repeating
    <3>4. QED
      BY <3>1, <3>2, <3>3 DEF SamplingDescends
  <2>9. CASE EstimateMode
    <3>1. at = "mode" /\ at' \in {"rejected", "estimated"}
      BY <2>9 DEF EstimateMode, ModeDone, Checked
    <3>2. RoundsLeft' = RoundsLeft
      BY <2>9, SameRound DEF EstimateMode
    <3>3. StepsLeft = 2 /\ StepsLeft' \in {0, 1}
      BY <3>1 DEF StepsLeft
    <3>4. StepsLeft' < StepsLeft
      BY <3>3
    <3>5. QED
      BY <3>2, <3>4, FewerSteps
  <2>10. CASE TimerMode
    <3>1. at = "mode" /\ caller' = caller
      BY <2>10 DEF TimerMode, ModeDone
    <3>2. CASE caller = "last"
      <4>1. at' = "returned"
        BY <2>10, <3>2 DEF TimerMode
      <4>2. RoundsLeft' = RoundsLeft
        BY <3>1, <3>2 DEF RoundsLeft
      <4>3. StepsLeft = 2 /\ StepsLeft' = 0
        BY <3>1, <4>1 DEF StepsLeft
      <4>4. StepsLeft' < StepsLeft
        BY <4>3
      <4>5. QED
        BY <4>2, <4>4, FewerSteps
    <3>3. CASE caller # "last"
      <4>1. caller = "TimerResolution"
        BY <2>10, <3>3 DEF TimerMode
      <4>2. PICK v : repetitions' = Append(repetitions, v)
        BY <2>10, <3>3 DEF TimerMode, Recorded
      <4>3. Len(repetitions') = r + 1
        BY <1>1, <2>1, <4>2 DEF SamplingInv, Typed
      <4>4. /\ RoundsLeft = kTimerSamples - r + 1
            /\ RoundsLeft' = kTimerSamples - (r + 1) + 1
        BY <2>1, <3>1, <4>1, <4>3 DEF RoundsLeft
      <4>5. QED
        BY <2>2, <4>4 DEF SamplingDescends
    <3>4. QED
      BY <3>2, <3>3
  <2>11. CASE Decide
    <3>1. at = "estimated" /\ caller = "SampleUntilStable" /\ caller' = caller
      BY <1>1, <2>11 DEF Decide, SamplingInv, Control
    <3>2. CASE Stable
      <4>1. at' = "returned" /\ UNCHANGED <<caller, repetitions, evaluation>>
        BY <2>11, <3>2 DEF Decide
      <4>2. RoundsLeft' = RoundsLeft
        BY <4>1, SameRound
      <4>3. StepsLeft = 1 /\ StepsLeft' = 0
        BY <3>1, <4>1 DEF StepsLeft
      <4>4. StepsLeft' < StepsLeft
        BY <4>3
      <4>5. QED
        BY <4>2, <4>4, FewerSteps
    <3>3. CASE ~Stable
      <4>1. evaluation' = evaluation + 1
        BY <2>11, <3>3 DEF Decide
      <4>2. /\ RoundsLeft = max_evals - evaluation
            /\ RoundsLeft' = max_evals - (evaluation + 1)
        BY <3>1, <4>1 DEF RoundsLeft
      <4>3. QED
        BY <2>2, <4>2 DEF SamplingDescends
    <3>4. QED
      BY <3>2, <3>3
  <2>12. CASE GiveUp
    <3>1. at = "loop" /\ at' = "returned"
      BY <2>12 DEF GiveUp
    <3>2. RoundsLeft' = RoundsLeft
      BY <2>12, SameRound DEF GiveUp
    <3>3. StepsLeft = 4 /\ StepsLeft' = 0
      BY <3>1 DEF StepsLeft
    <3>4. StepsLeft' < StepsLeft
      BY <3>3
    <3>5. QED
      BY <3>2, <3>4, FewerSteps
  <2>13. QED
    BY <1>1, <2>3, <2>4, <2>5, <2>6, <2>7, <2>8, <2>9, <2>10, <2>11, <2>12
       DEF SNext, Step
<1>2. SamplingInv /\ Repeating /\ [SNext]_svars => [SamplingDescends]_svars
  BY <1>1
<1>3. SamplingInv /\ Repeating
        => RoundsLeft \in Nat /\ StepsLeft \in Nat /\ half_count \in Nat
  BY SamplingRanks DEF Repeating
<1>4. QED
  BY <1>2, <1>3, RepeatingInvariant, PTL DEF SSpec
=============================================================================
