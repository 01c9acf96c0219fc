-------------------------- MODULE RobustStatistics --------------------------
(***************************************************************************)
(* namespace robust_statistics of src/nanobenchmark.cc, on sequences of     *)
(* unsigned integers below Ticks.  Indices idx count from 0 as in the code. *)
(* The loop of ModeOfSorted is in module SampleUntilStable, a step each.    *)
(***************************************************************************)
EXTENDS Integers, SequencesExt, FiniteSetsExt

CONSTANT Ticks      \* numbers of T

Frequency(values, v) == Quantify(DOMAIN values, LAMBDA i : values[i] = v)

Below(values, v) == Quantify(DOMAIN values, LAMBDA i : values[i] < v)

\* std::sort: element i is the value that fewer than i are below, and that
\* at least i do not exceed.
Sort(values) ==
    [i \in DOMAIN values |->
       CHOOSE v \in Range(values) :
         Below(values, v) < i /\ i <= Below(values, v) + Frequency(values, v)]

Copies_Distinct(values, v) == {<<v, 1>>}

\* "That many copies of each unique value".
Copies(values, v) == {v} \X (1 .. Frequency(values, v))

\* Where CountingSort writes those of v: p is behind the copies of all values
\* in front of it in unique, which is ascending.
Written(values, v) ==
    LET p == Cardinality(UNION {Copies(values, x) : x \in {y \in Range(values) : y < v}})
    IN  p + 1 .. p + Cardinality(Copies(values, v))

CountingSort(values) ==
    [i \in DOMAIN values |->
       LET here == {v \in Range(values) : i \in Written(values, v)}
       IN  IF here = {} THEN values[i] ELSE CHOOSE v \in here : TRUE]

\* Differences of elements half_count apart that the loop of MinRange takes;
\* the first of the least ones wins.
MinRange(sorted, idx_begin, half_count) ==
    LET window == idx_begin .. idx_begin + half_count - 1
        width  == [idx \in window |-> sorted[idx + half_count + 1] - sorted[idx + 1]]
        found  == {idx \in window : width[idx] < Ticks - 1}
    IN  IF found = {} THEN 0
        ELSE Min({idx \in found : \A j \in window : width[idx] <= width[j]})

\* The sum wraps.
Average(x, y) == ((x + y + 1) % Ticks) \div 2

\* What ModeOfSorted makes of its last interval.
ModeOf(sorted, idx_begin, half_count) ==
    IF half_count = 0 THEN sorted[idx_begin + 1]
    ELSE Average(sorted[idx_begin + 1], sorted[idx_begin + 2])

Median_Lower(sorted) ==
    LET half == Len(sorted) \div 2
    IN  IF Len(sorted) % 2 = 1 THEN sorted[half + 1]
        ELSE Average(sorted[half], sorted[1])

\* Of sorted values.
Median(sorted) ==
    LET half == Len(sorted) \div 2
    IN  IF Len(sorted) % 2 = 1 THEN sorted[half + 1]
        ELSE Average(sorted[half + 1], sorted[half])

Distance(a, b) == IF a < b THEN b - a ELSE a - b

MedianAbsoluteDeviation(values, median) ==
    Median(Sort([i \in DOMAIN values |-> Distance(values[i], median)]))
=============================================================================
