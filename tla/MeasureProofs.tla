--------------------------- MODULE MeasureProofs ---------------------------
(***************************************************************************)
(* Theorems about Measure, for all inputs, parameters, timers and widths of *)
(* a tick: a caller that is told of results finds one for every unique      *)
(* input, the wraps of the ticks of a result cancel, and FillSubset removes *)
(* what it has chosen, in any order of the inputs, and nothing else; and no *)
(* step fails to come nearer to the end.                                    *)
(***************************************************************************)
EXTENDS Measure, Counting

Phase == Measured \cup {"elapsed", "fill", "returned"}

\* The results of the unique inputs in front of number v.
Done(v) == {Unique[k] : k \in 1 .. v - 1}

TicksTyped ==
    /\ est \in Tick
    /\ overhead \in Tick /\ overhead_skip \in Tick
    /\ total \in Tick /\ total_skip \in Tick

\* Where the loops over the unique inputs are, and what they have reported.
Progress ==
    /\ phase \in Phase
    /\ phase # "returned" => u \in 1 .. num_unique /\ ret = 0
    /\ phase \in {"overhead", "overhead_skip", "total"} => u = 1
    /\ phase \in {"elapsed", "skip", "overhead", "overhead_skip", "total"} => results = {}
    /\ phase \in {"fill", "input"} => results = Done(u)
    /\ phase = "returned" /\ ret # 0 => ret = num_unique /\ results = Input

\* FillSubset runs for the input that is measured next.
SubsetOf ==
    /\ phase # "fill" => filling = "no"
    /\ phase = "fill" /\ filling # "no" => input_to_skip = Unique[u]
    /\ phase = "input" => input_to_skip = Unique[u]

\* What is subtracted is the less.
Ordered ==
    /\ phase \in {"total", "fill", "input"} \/ results # {} => overhead >= overhead_skip
    /\ results # {} => total >= total_skip

MInv == TicksTyped /\ Progress /\ SubsetOf /\ Ordered

-----------------------------------------------------------------------------
LEMMA Uniques ==
    /\ num_unique \in Nat \ {0}
    /\ \A k \in 1 .. num_unique : Unique[k] \in Input
    /\ \A x \in Input : \E k \in 1 .. num_unique : Unique[k] = x
    /\ \A j, k \in 1 .. num_unique : Unique[j] = Unique[k] => j = k
<1>1. Unique \in Seq(Input)
  BY UniqueAssumption
<1>2. Len(Unique) \in Nat /\ \A k \in 1 .. Len(Unique) : Unique[k] \in Input
  BY <1>1
<1>3. QED
  BY <1>2, UniqueAssumption DEF num_unique

\* The results so far: none, one more, and all.
LEMMA DoneEnds ==
    /\ Done(1) = {}
    /\ Done(num_unique + 1) = Input
<1>1. Done(1) = {}
  BY DEF Done
<1>2. \A x \in Input : x \in Done(num_unique + 1)
  <2>1. SUFFICES ASSUME NEW x \in Input PROVE x \in Done(num_unique + 1)
    OBVIOUS
  <2>2. PICK k \in 1 .. num_unique : Unique[k] = x
    BY Uniques
  <2>3. k \in 1 .. (num_unique + 1) - 1
    BY Uniques
  <2>4. QED
    BY <2>2, <2>3 DEF Done
<1>3. \A x \in Done(num_unique + 1) : x \in Input
  <2>1. SUFFICES ASSUME NEW k \in 1 .. (num_unique + 1) - 1 PROVE Unique[k] \in Input
    BY DEF Done
  <2>2. QED
    BY Uniques
<1>4. QED
  BY <1>1, <1>2, <1>3

LEMMA DoneNext ==
    ASSUME NEW v \in 1 .. num_unique
    PROVE  /\ Done(v + 1) = Done(v) \cup {Unique[v]}
           /\ Unique[v] \notin Done(v)
<1>1. \A k : k \in 1 .. (v + 1) - 1 <=> k \in 1 .. v - 1 \/ k = v
  BY Uniques
<1>2. Done(v + 1) = Done(v) \cup {Unique[v]}
  BY <1>1 DEF Done
<1>3. ASSUME NEW k \in 1 .. v - 1, Unique[k] = Unique[v] PROVE FALSE
  <2>1. k \in 1 .. num_unique /\ k # v
    BY Uniques
  <2>2. QED
    BY <1>3, <2>1, Uniques
<1>4. QED
  BY <1>2, <1>3 DEF Done

\* A difference of ticks that wraps.
LEMMA MinusValue ==
    ASSUME NEW a \in Tick, NEW b \in Tick
    PROVE  Minus(a, b) = IF b <= a THEN a - b ELSE a - b + Ticks
<1>1. Ticks \in Nat \ {0}
  BY EstimatorAssumption
<1>2. a \in Int /\ b \in Int /\ 0 <= a /\ 0 <= b /\ a < Ticks /\ b < Ticks
  BY <1>1 DEF Tick
<1>3. ASSUME NEW x \in 0 .. Ticks - 1 PROVE x % Ticks = x
  BY <1>1
<1>4. ASSUME NEW x \in 0 .. Ticks - 1 PROVE (x + Ticks) % Ticks = x
  BY <1>1
<1>5. CASE b <= a
  <2>1. a - b \in 0 .. Ticks - 1 /\ a - b + Ticks = (a - b) + Ticks
    BY <1>1, <1>2, <1>5
  <2>2. QED
    BY <2>1, <1>4, <1>5 DEF Minus
<1>6. CASE ~(b <= a)
  <2>1. a - b + Ticks \in 0 .. Ticks - 1
    BY <1>1, <1>2, <1>6
  <2>2. QED
    BY <2>1, <1>3, <1>6 DEF Minus
<1>7. QED
  BY <1>5, <1>6

LEMMA MinusTick ==
    ASSUME NEW a \in Tick, NEW b \in Tick
    PROVE  Minus(a, b) \in Tick
<1>1. Ticks \in Nat \ {0} /\ a \in Int /\ b \in Int
  BY EstimatorAssumption DEF Tick
<1>2. a - b + Ticks \in Int
  BY <1>1
<1>3. QED
  BY <1>1, <1>2 DEF Minus, Tick

\* Two wraps cancel if the difference of the two differences is no less than 0.
LEMMA WrapsCancel ==
    ASSUME TicksTyped, total >= total_skip, overhead >= overhead_skip,
           total - total_skip >= overhead - overhead_skip
    PROVE  Duration = (total - total_skip) - (overhead - overhead_skip)
<1> DEFINE a == Minus(total, overhead)
           b == Minus(total_skip, overhead_skip)
<1>1. Ticks \in Nat \ {0}
  BY EstimatorAssumption
<1>2. /\ total \in 0 .. Ticks - 1 /\ total_skip \in 0 .. Ticks - 1
      /\ overhead \in 0 .. Ticks - 1 /\ overhead_skip \in 0 .. Ticks - 1
  BY DEF TicksTyped, Tick
<1>3. /\ a = IF overhead <= total THEN total - overhead ELSE total - overhead + Ticks
      /\ b = IF overhead_skip <= total_skip THEN total_skip - overhead_skip
             ELSE total_skip - overhead_skip + Ticks
  BY MinusValue DEF TicksTyped
<1>4. a \in Tick /\ b \in Tick
  BY <1>1, <1>2, <1>3 DEF Tick
<1>5. Minus(a, b) = IF b <= a THEN a - b ELSE a - b + Ticks
  BY <1>4, MinusValue
<1>6. Duration = Minus(a, b)
  BY DEF Duration
<1> HIDE DEF a, b
<1>7. Minus(a, b) = (total - total_skip) - (overhead - overhead_skip)
  BY <1>1, <1>2, <1>3, <1>5
<1>8. QED
  BY <1>6, <1>7

-----------------------------------------------------------------------------
LEMMA Initially == Init => MInv
<1>1. SUFFICES ASSUME Init PROVE MInv
  OBVIOUS
<1>2. Ticks \in Nat \ {0}
  BY EstimatorAssumption
<1>3. 0 \in Tick /\ TicksTyped
  BY <1>1, <1>2 DEF Init, EstimatorInit, TicksTyped, Tick
<1>4. Progress
  BY <1>1, Uniques DEF Init, Progress, Phase, Measured
<1>5. SubsetOf /\ Ordered
  BY <1>1 DEF Init, FillInit, SubsetOf, Ordered
<1>6. QED
  BY <1>3, <1>4, <1>5 DEF MInv

\* What SampleUntilStable does in any phase.
LEMMA EstimateTyped ==
    ASSUME MInv, NEW t \in Tick, SampleBegin(t) \/ Evaluate(t) \/ SampleReturn(t)
    PROVE  est' \in Tick
<1>1. 0 \in Tick
  BY EstimatorAssumption DEF Tick
<1>2. QED
  BY <1>1 DEF SampleBegin, Evaluate, SampleReturn

LEMMA ElapsedStep == MInv /\ Elapsed => MInv'
<1>1. SUFFICES ASSUME MInv, Elapsed PROVE MInv'
  OBVIOUS
<1>2. TicksTyped'
  BY <1>1 DEF MInv, TicksTyped, Elapsed, estVars, totals, reported
<1>3. Progress'
  BY <1>1 DEF MInv, Progress, Phase, Measured, Elapsed, reported
<1>4. SubsetOf'
  BY <1>1 DEF MInv, SubsetOf, Elapsed, fillVars
<1>5. Ordered'
  BY <1>1 DEF MInv, Ordered, Progress, Elapsed, totals, reported
<1>6. QED
  BY <1>2, <1>3, <1>4, <1>5 DEF MInv

LEMMA SampleStep ==
    ASSUME NEW t \in Tick, MInv, Sample(t)
    PROVE  MInv'
<1>1. TicksTyped'
  BY EstimateTyped DEF MInv, TicksTyped, Sample, totals, reported
<1>2. Progress'
  BY DEF MInv, Progress, Phase, Sample, reported, Done
<1>3. SubsetOf'
  BY DEF MInv, SubsetOf, Sample, fillVars
<1>4. Ordered'
  BY DEF MInv, Ordered, Sample, totals, reported
<1>5. QED
  BY <1>1, <1>2, <1>3, <1>4 DEF MInv

LEMMA SkipEstimatedStep ==
    ASSUME NEW t \in Tick, MInv, SkipEstimated(t)
    PROVE  MInv'
<1>1. TicksTyped'
  BY EstimateTyped DEF MInv, TicksTyped, SkipEstimated, totals, reported
<1>2. /\ phase = "skip" /\ results = {} /\ ret = 0
      /\ u \in 1 .. num_unique /\ filling = "no"
  BY DEF MInv, Progress, SubsetOf, SkipEstimated
<1>3. /\ UNCHANGED <<results, ret, filling, overhead, overhead_skip, total, total_skip>>
      /\ \/ u < num_unique /\ u' = u + 1 /\ phase' = "elapsed"
         \/ u' = 1 /\ phase' = "returned"
         \/ u' = 1 /\ phase' = "overhead"
  BY DEF SkipEstimated, Replicate, fillVars, totals, reported
<1>4. Progress'
  BY <1>2, <1>3, Uniques DEF Progress, Phase, Measured
<1>5. SubsetOf'
  BY <1>2, <1>3 DEF SubsetOf
<1>6. Ordered'
  BY <1>2, <1>3 DEF Ordered
<1>7. QED
  BY <1>1, <1>4, <1>5, <1>6 DEF MInv

LEMMA OverheadEstimatedStep ==
    ASSUME NEW t \in Tick, MInv, OverheadEstimated(t)
    PROVE  MInv'
<1>1. TicksTyped'
  BY EstimateTyped DEF MInv, TicksTyped, OverheadEstimated, reported
<1>2. Progress'
  BY DEF MInv, Progress, Phase, Measured, OverheadEstimated, reported
<1>3. SubsetOf'
  BY DEF MInv, SubsetOf, OverheadEstimated, fillVars
<1>4. Ordered'
  BY DEF MInv, Ordered, Progress, OverheadEstimated, reported
<1>5. QED
  BY <1>1, <1>2, <1>3, <1>4 DEF MInv

LEMMA OverheadSkipEstimatedStep ==
    ASSUME NEW t \in Tick, MInv, OverheadSkipEstimated(t)
    PROVE  MInv'
<1>1. TicksTyped'
  BY EstimateTyped DEF MInv, TicksTyped, OverheadSkipEstimated, reported
<1>2. /\ phase = "overhead_skip" /\ results = {} /\ ret = 0 /\ u = 1 /\ filling = "no"
      /\ UNCHANGED <<results, ret, u, filling>>
      /\ phase' = IF overhead < t THEN "returned" ELSE "total"
  BY DEF MInv, Progress, SubsetOf, OverheadSkipEstimated, fillVars, reported
<1>3. Progress'
  BY <1>2, Uniques DEF Progress, Phase, Measured
<1>4. SubsetOf'
  BY <1>2 DEF SubsetOf
<1>5. Ordered'
  <2>1. overhead \in Int /\ t \in Int /\ overhead' = overhead /\ overhead_skip' = t
    BY EstimatorAssumption DEF MInv, TicksTyped, Tick, OverheadSkipEstimated
  <2>2. QED
    BY <1>2, <2>1 DEF Ordered
<1>6. QED
  BY <1>1, <1>3, <1>4, <1>5 DEF MInv

LEMMA TotalEstimatedStep ==
    ASSUME NEW t \in Tick, MInv, TotalEstimated(t)
    PROVE  MInv'
<1>1. TicksTyped'
  BY EstimateTyped DEF MInv, TicksTyped, TotalEstimated, reported
<1>2. /\ phase = "total" /\ results = {} /\ ret = 0 /\ u = 1 /\ filling = "no"
      /\ UNCHANGED <<results, ret, u, filling, overhead, overhead_skip>>
      /\ phase' = "fill"
  BY DEF MInv, Progress, SubsetOf, TotalEstimated, fillVars, reported
<1>3. Progress'
  BY <1>2, Uniques, DoneEnds DEF Progress, Phase, Measured
<1>4. SubsetOf'
  BY <1>2 DEF SubsetOf
<1>5. Ordered'
  BY <1>2 DEF MInv, Ordered
<1>6. QED
  BY <1>1, <1>3, <1>4, <1>5 DEF MInv

LEMMA FillStep == MInv /\ Fill => MInv'
<1>1. SUFFICES ASSUME MInv, Fill PROVE MInv'
  OBVIOUS
<1>2. TicksTyped'
  BY <1>1 DEF MInv, TicksTyped, Fill, estVars, totals, reported
<1>3. /\ phase = "fill" /\ UNCHANGED <<results, ret, u, overhead, overhead_skip, total, total_skip>>
      /\ phase' \in {"fill", "input"}
  BY <1>1 DEF Fill, totals, reported
<1>4. Progress'
  BY <1>1, <1>3 DEF MInv, Progress, Phase, Measured, Done
<1>5. SubsetOf'
  <2>1. CASE filling = "no" /\ FillBegin(Unique[u]) /\ UNCHANGED phase
    BY <2>1, <1>3 DEF SubsetOf, FillBegin
  <2>2. CASE (Skip \/ Keep) /\ UNCHANGED phase
    BY <1>1, <1>3, <2>2 DEF MInv, SubsetOf, Skip, Keep
  <2>3. CASE /\ FillReturn(NANOBENCHMARK_ENABLE_CHECKS)
             /\ phase' = IF filling' = "aborted" THEN phase ELSE "input"
    BY <1>1, <1>3, <2>3 DEF MInv, SubsetOf, FillReturn
  <2>4. QED
    BY <1>1, <2>1, <2>2, <2>3 DEF Fill
<1>6. Ordered'
  BY <1>1, <1>3 DEF MInv, Ordered
<1>7. QED
  BY <1>2, <1>4, <1>5, <1>6 DEF MInv

LEMMA InputEstimatedStep ==
    ASSUME NEW t \in Tick, MInv, InputEstimated(t)
    PROVE  MInv'
<1>1. /\ phase = "input" /\ results = Done(u) /\ ret = 0 /\ filling = "no"
      /\ u \in 1 .. num_unique /\ overhead >= overhead_skip
      /\ UNCHANGED <<filling, overhead, overhead_skip, total>>
  BY DEF MInv, Progress, SubsetOf, Ordered, InputEstimated, fillVars, totals
<1>2. num_unique \in Nat \ {0} /\ u \in Nat
  BY <1>1, Uniques
<1>3. total \in Int /\ t \in Int
  BY EstimatorAssumption DEF MInv, TicksTyped, Tick
<1>4. CASE total < t /\ phase' = "returned" /\ UNCHANGED <<u, total_skip, results, ret>>
  <2>1. TicksTyped'
    BY <1>1, <1>4, EstimateTyped DEF MInv, TicksTyped, InputEstimated, reported
  <2>2. Progress'
    BY <1>1, <1>4 DEF Progress, Phase, reported
  <2>3. SubsetOf'
    BY <1>1, <1>4 DEF SubsetOf
  <2>4. Ordered'
    BY <1>1, <1>4 DEF MInv, Ordered, reported
  <2>5. QED
    BY <2>1, <2>2, <2>3, <2>4 DEF MInv
<1>5. CASE ~(total < t)
  <2>1. /\ results' = Done(u) \cup {Unique[u]} /\ total_skip' = t /\ u' = u + 1
        /\ phase' = IF AllReported THEN "returned" ELSE "fill"
        /\ ret' = IF AllReported THEN num_unique ELSE ret
    BY <1>1, <1>5 DEF InputEstimated
  <2>2. TicksTyped'
    BY <1>1, <2>1, EstimateTyped DEF MInv, TicksTyped, InputEstimated
  <2>3. results' = Done(u + 1)
    BY <1>1, <2>1, DoneNext
  <2>4. ASSUME AllReported PROVE Progress'
    <3>1. u + 1 = num_unique + 1 /\ phase' = "returned" /\ ret' = num_unique
      BY <1>1, <1>2, <2>1, <2>4 DEF AllReported
    <3>2. results' = Input
      BY <2>3, <3>1, DoneEnds
    <3>3. QED
      BY <3>1, <3>2 DEF Progress, Phase
  <2>5. ASSUME ~AllReported PROVE Progress'
    <3>1. u + 1 \in 1 .. num_unique /\ phase' = "fill" /\ ret' = 0
      BY <1>1, <1>2, <2>1, <2>5 DEF AllReported
    <3>2. results' = Done(u')
      BY <2>1, <2>3
    <3>3. QED
      BY <2>1, <3>1, <3>2 DEF Progress, Phase
  <2>6. SubsetOf'
    BY <1>1, <2>1 DEF SubsetOf
  <2>7. Ordered'
    BY <1>1, <1>3, <1>5, <2>1 DEF Ordered
  <2>8. QED
    BY <2>2, <2>4, <2>5, <2>6, <2>7 DEF MInv
<1>6. QED
  BY <1>4, <1>5 DEF InputEstimated

LEMMA StutterStep == MInv /\ UNCHANGED vars => MInv'
<1>1. SUFFICES ASSUME MInv, UNCHANGED vars PROVE MInv'
  OBVIOUS
<1>2. TicksTyped'
  BY <1>1 DEF MInv, TicksTyped, vars, estVars, totals, reported
<1>3. Progress'
  BY <1>1 DEF MInv, Progress, Done, vars, reported
<1>4. SubsetOf'
  BY <1>1 DEF MInv, SubsetOf, vars, fillVars
<1>5. Ordered'
  BY <1>1 DEF MInv, Ordered, vars, totals, reported
<1>6. QED
  BY <1>2, <1>3, <1>4, <1>5 DEF MInv

LEMMA Step == MInv /\ [Next]_vars => MInv'
<1>1. SUFFICES ASSUME MInv, [Next]_vars PROVE MInv'
  OBVIOUS
<1>2. CASE Elapsed
  BY <1>1, <1>2, ElapsedStep
<1>3. CASE Fill
  BY <1>1, <1>3, FillStep
<1>4. ASSUME NEW t \in Tick,
             \/ Sample(t) \/ SkipEstimated(t) \/ OverheadEstimated(t)
             \/ OverheadSkipEstimated(t) \/ TotalEstimated(t) \/ InputEstimated(t)
      PROVE  MInv'
  BY <1>1, <1>4, SampleStep, SkipEstimatedStep, OverheadEstimatedStep,
     OverheadSkipEstimatedStep, TotalEstimatedStep, InputEstimatedStep
<1>5. CASE UNCHANGED vars
  BY <1>1, <1>5, StutterStep
<1>6. QED
  BY <1>1, <1>2, <1>3, <1>4, <1>5 DEF Next

LEMMA Invariant == Spec => []MInv
  BY Initially, Step, PTL DEF Spec

-----------------------------------------------------------------------------
\* Measure returns the number of its results, and then has written one for
\* every unique input, each measured for the input it is written for.
THEOREM Results == Spec => []OneResultPerInput
<1>1. MInv => OneResultPerInput
  <2>1. SUFFICES ASSUME MInv PROVE OneResultPerInput
    OBVIOUS
  <2>2. phase = "returned" /\ ret # 0 => ret = num_unique /\ results = Input
    BY <2>1 DEF MInv, Progress
  <2>3. ASSUME phase = "input"
        PROVE  input_to_skip = Unique[u] /\ input_to_skip \notin results
    <3>1. input_to_skip = Unique[u] /\ results = Done(u) /\ u \in 1 .. num_unique
      BY <2>1, <2>3 DEF MInv, Progress, SubsetOf
    <3>2. QED
      BY <3>1, DoneNext
  <2>4. QED
    BY <2>2, <2>3 DEF OneResultPerInput
<1>2. QED
  BY <1>1, Invariant, PTL

\* The ticks of a result are the time that leaving calls out has saved, less
\* their overhead: the wraps of 32-bit words cancel.
THEOREM Durations == Spec => []DurationExact
<1>1. MInv => DurationExact
  <2>1. SUFFICES ASSUME MInv, results # {} PROVE DurationExact
    BY DEF DurationExact
  <2>2. TicksTyped /\ overhead >= overhead_skip /\ total >= total_skip
    BY <2>1 DEF MInv, Ordered
  <2>3. /\ total \in Int /\ total_skip \in Int
        /\ overhead \in Int /\ overhead_skip \in Int
    BY <2>2, EstimatorAssumption DEF TicksTyped, Tick
  <2>4. total - total_skip >= 0 /\ overhead - overhead_skip >= 0
    BY <2>2, <2>3
  <2>5. QED
    BY <2>2, <2>4, WrapsCancel DEF DurationExact
<1>2. QED
  BY <1>1, Invariant, PTL

-----------------------------------------------------------------------------
(* FillSubset.                                                             *)

\* Occurrences of the input in full, those that FillSubset leaves out, the rest.
Places == {k \in DOMAIN full : full[k] = input_to_skip}

Gone == {k \in Places : \E j \in DOMAIN omit : omit[j] = Before(Places, k)}

Kept == DOMAIN full \ Gone

\* The vectors of Measure once it knows how many calls to leave out.
Sized ==
    /\ num_skip \in 1 .. precision_divisor
    /\ full \in Arrangements(num_skip)
    /\ subset = [k \in 0 .. Size(num_skip) - num_skip - 1 |-> subset[k]]

\* FillSubset has drawn what to omit.
Drawn == Sized /\ input_to_skip \in Input /\ omit \in Omissions(input_to_skip)

\* What the loop of FillSubset has seen, copied and left out.
Copied ==
    LET seen == Before(Places, idx + 1)
    IN  /\ Drawn
        /\ idx \in 0 .. Len(full)
        /\ filling # "loop" => idx = Len(full)
        /\ occurrence = (seen + Mod - 1) % Mod
        /\ idx_omit \in 0 .. num_skip /\ idx_omit = Before(Gone, idx + 1)
        /\ \A j \in 0 .. num_skip - 1 : j < idx_omit <=> omit[j] < seen
        /\ idx_subset = Before(Kept, idx + 1)
        /\ \A k \in Kept : k <= idx => subset[Before(Kept, k)] = full[k]

Filling ==
    /\ min_duration \in Tick
    /\ phase \in {"elapsed", "skip"} => num_skip = 0 /\ input_to_skip = 0
    /\ phase \in Phase \ {"elapsed", "skip", "returned"} => num_skip # 0
    /\ num_skip # 0 => Sized
    /\ input_to_skip # 0 => Copied


-----------------------------------------------------------------------------
LEMMA SizeIsNat ==
    ASSUME NEW n \in Nat
    PROVE  Size(n) \in Nat
<1> DEFINE copies == [x \in Input |-> {x} \X (1 .. Occurrences(n)[x])]
           S == {{x} \X (1 .. Occurrences(n)[x]) : x \in Input}
<1>1. IsFiniteSet(S)
  <2>1. copies \in Surjection(Input, S)
    BY DEF Surjection
  <2>2. QED
    BY <2>1, InputAssumption, FS_Surjection
<1>2. ASSUME NEW x \in Input PROVE IsFiniteSet({x} \X (1 .. Occurrences(n)[x]))
  <2>1. Times[x] \in Nat /\ subset_ratio \in Nat
    BY InputAssumption
  <2>2. Occurrences(n)[x] \in Int
    BY <2>1 DEF Occurrences
  <2>3. IsFiniteSet({x})
    BY FS_Singleton
  <2>4. IsFiniteSet(1 .. Occurrences(n)[x])
    BY <2>2, FS_Interval
  <2>5. QED
    BY <2>3, <2>4, FS_Product
<1>3. IsFiniteSet(UNION S)
  BY <1>1, <1>2, FS_UNION
<1>4. QED
  BY <1>3, FS_CardinalityType DEF Size

\* Every input occurs in full, and occurrence can count how often.
LEMMA OccurrenceBound ==
    ASSUME NEW n \in 1 .. precision_divisor, NEW x \in Input
    PROVE  Occurrences(n)[x] \in 1 .. Mod
<1> DEFINE a == IF Cardinality(Input) = 1 THEN subset_ratio ELSE subset_ratio * Times[x]
<1>1. a \in Nat /\ a >= 1
  <2>1. Times[x] \in Nat /\ Times[x] >= 1 /\ subset_ratio \in Nat /\ subset_ratio >= 2
    BY InputAssumption
  <2>2. subset_ratio * 1 <= subset_ratio * Times[x]
    BY <2>1, Monotonic
  <2>3. subset_ratio * Times[x] \in Nat
    BY <2>1
  <2>4. QED
    BY <2>1, <2>2, <2>3
<1>2. \A m \in Nat : Occurrences(m)[x] = a * m
  BY InputAssumption DEF Occurrences
<1>3. precision_divisor \in Nat /\ n \in Nat /\ n >= 1 /\ n <= precision_divisor
  BY ParamsAssumption
<1> HIDE DEF a
<1>4. a * 1 <= a * n /\ a * n <= a * precision_divisor
  BY <1>1, <1>3, Monotonic
<1>5. a * precision_divisor <= Mod
  BY <1>2, <1>3, OccurrenceAssumption
<1>6. a * n \in Nat /\ a * precision_divisor \in Nat /\ Mod \in Nat
  BY <1>1, <1>3, InputAssumption
<1>7. QED
  BY <1>1, <1>2, <1>3, <1>4, <1>5, <1>6

LEMMA FullFacts ==
    ASSUME Sized
    PROVE  /\ full \in Seq(Input) /\ Len(full) \in Nat /\ DOMAIN full = 1 .. Len(full)
           /\ Len(full) = Size(num_skip) /\ num_skip \in Nat
<1>1. num_skip \in Nat
  BY ParamsAssumption DEF Sized
<1>2. Size(num_skip) \in Nat /\ full \in [1 .. Size(num_skip) -> Input]
  BY <1>1, SizeIsNat DEF Sized, Arrangements
<1>3. QED
  BY <1>1, <1>2

LEMMA PlacesFacts ==
    ASSUME Sized, input_to_skip \in Input
    PROVE  /\ Places \in SUBSET (1 .. Len(full)) /\ Places \in SUBSET Nat
           /\ IsFiniteSet(Places)
           /\ Cardinality(Places) = Occurrences(num_skip)[input_to_skip]
           /\ Cardinality(Places) \in 1 .. Mod
<1>1. Places \in SUBSET (1 .. Len(full)) /\ 1 .. Len(full) \in SUBSET Nat /\ Len(full) \in Nat
  BY FullFacts DEF Places
<1>2. Cardinality(Places) = Occurrences(num_skip)[input_to_skip]
  BY DEF Sized, Arrangements, Quantify, Places
<1>3. QED
  BY <1>1, <1>2, BeforeEnds, OccurrenceBound DEF Sized

\* As many places are left out as there are indices to omit.
LEMMA GoneFacts ==
    ASSUME Sized, input_to_skip \in Input, omit \in Omissions(input_to_skip)
    PROVE  /\ Gone \in SUBSET Places
           /\ IsFiniteSet(Gone) /\ Cardinality(Gone) = num_skip
           /\ num_skip <= Len(full)
<1> DEFINE I == 0 .. num_skip - 1
           chosen == {omit[j] : j \in I}
           N == [k \in Places |-> Before(Places, k)]
           f == [k \in Gone |-> Before(Places, k)]
<1>1. num_skip \in Nat /\ Len(full) \in Nat
  BY FullFacts
<1>2. Gone \in SUBSET Places /\ IsFiniteSet(Gone)
  BY PlacesFacts, FS_Subset DEF Gone
<1>3. /\ N \in Bijection(Places, 0 .. Cardinality(Places) - 1)
      /\ IsFiniteSet(0 .. Cardinality(Places) - 1)
  <2>1. N \in Bijection(Places, 0 .. Cardinality(Places) - 1)
    BY PlacesFacts, Numbering
  <2>2. Cardinality(Places) \in Nat
    BY PlacesFacts, FS_CardinalityType
  <2>3. QED
    BY <2>1, <2>2, IntervalSize
<1>4. /\ DOMAIN omit = I
      /\ \A j \in I : omit[j] \in 0 .. Cardinality(Places) - 1
      /\ \A j, k \in I : j < k => omit[j] < omit[k]
  BY PlacesFacts DEF Omissions
<1>5. IsFiniteSet(I) /\ Cardinality(I) = num_skip
  BY <1>1, IntervalSize
<1>6. Cardinality(chosen) = num_skip
  <2>1. omit \in Surjection(I, chosen)
    BY <1>4 DEF Surjection, Omissions
  <2>2. ASSUME NEW j \in I, NEW k \in I, omit[j] = omit[k] PROVE j = k
    <3>1. omit[j] \in Int /\ omit[k] \in Int
      BY <1>4, PlacesFacts
    <3>2. ~(j < k) /\ ~(k < j)
      BY <1>4, <2>2, <3>1
    <3>3. QED
      BY <3>2
  <2>3. omit \in Injection(I, chosen)
    BY <2>1, <2>2 DEF Surjection, Injection, IsInjective
  <2>4. QED
    BY <1>5, <2>1, <2>3, FS_Surjection
<1>7. f \in Injection(Gone, chosen)
  <2>1. ASSUME NEW k \in Gone PROVE Before(Places, k) \in chosen
    BY <1>4 DEF Gone
  <2>2. ASSUME NEW j \in Gone, NEW k \in Gone, Before(Places, j) = Before(Places, k)
        PROVE  j = k
    <3>1. j \in Places /\ k \in Places /\ N[j] = N[k]
      BY <1>2, <2>2
    <3>2. QED
      BY <1>3, <3>1 DEF Bijection, Injection, IsInjective
  <2>3. QED
    BY <2>1, <2>2 DEF Injection, IsInjective
<1>8. f \in Surjection(Gone, chosen)
  <2>1. SUFFICES ASSUME NEW j \in I PROVE \E k \in Gone : f[k] = omit[j]
    BY <1>7 DEF Surjection, Injection
  <2>2. PICK k \in Places : N[k] = omit[j]
    BY <1>3, <1>4 DEF Bijection, Surjection
  <2>3. k \in Gone
    BY <1>4, <2>2 DEF Gone
  <2>4. QED
    BY <2>2, <2>3
<1>9. Cardinality(Gone) = num_skip
  BY <1>2, <1>6, <1>7, <1>8, FS_Surjection
<1>10. num_skip <= Len(full)
  <2>1. 1 .. Len(full) = DOMAIN full /\ IsFiniteSet(1 .. Len(full)) /\ Cardinality(1 .. Len(full)) = Len(full)
    BY <1>1, FullFacts, IntervalSize
  <2>2. Gone \in SUBSET (1 .. Len(full))
    BY <1>2, PlacesFacts
  <2>3. Cardinality(Gone) <= Cardinality(1 .. Len(full))
    BY <2>1, <2>2, FS_Subset
  <2>4. QED
    BY <1>9, <2>1, <2>3
<1>11. QED
  BY <1>2, <1>9, <1>10

\* The positions of full are split into those to leave out and those to copy.
Split ==
    /\ Len(full) \in Nat /\ DOMAIN full = 1 .. Len(full)
    /\ num_skip \in 0 .. Len(full)
    /\ Places \in SUBSET Nat /\ Places \in SUBSET (1 .. Len(full)) /\ IsFiniteSet(Places)
    /\ Cardinality(Places) \in 1 .. Mod
    /\ Cardinality(Places) = Occurrences(num_skip)[input_to_skip]
    /\ Gone \in SUBSET Nat /\ Gone \in SUBSET Places /\ IsFiniteSet(Gone)
    /\ Cardinality(Gone) = num_skip
    /\ Kept \in SUBSET Nat /\ Kept = (1 .. Len(full)) \ Gone /\ IsFiniteSet(Kept)
    /\ Cardinality(Kept) = Len(full) - num_skip

LEMMA SplitFacts == Drawn => Split
<1> SUFFICES ASSUME Drawn PROVE Split
  OBVIOUS
<1> Sized /\ input_to_skip \in Input /\ omit \in Omissions(input_to_skip)
  BY DEF Drawn
<1>1. Len(full) \in Nat /\ DOMAIN full = 1 .. Len(full)
  BY FullFacts
<1>2. IsFiniteSet(1 .. Len(full)) /\ Cardinality(1 .. Len(full)) = Len(full)
  BY <1>1, IntervalSize
<1>3. Gone \in SUBSET (1 .. Len(full)) /\ (1 .. Len(full)) \cap Gone = Gone
  BY GoneFacts, PlacesFacts
<1>4. IsFiniteSet(Kept) /\ Cardinality(Kept) = Len(full) - num_skip
  <2>1. Kept = (1 .. Len(full)) \ Gone
    BY <1>1 DEF Kept
  <2>2. /\ IsFiniteSet((1 .. Len(full)) \ Gone)
        /\ Cardinality((1 .. Len(full)) \ Gone) =
             Cardinality(1 .. Len(full)) - Cardinality((1 .. Len(full)) \cap Gone)
    BY <1>2, FS_Difference
  <2>3. QED
    BY <1>2, <1>3, <2>1, <2>2, GoneFacts
<1>5. num_skip \in 0 .. Len(full)
  BY <1>1, GoneFacts, FullFacts
<1>6. Kept = (1 .. Len(full)) \ Gone /\ Kept \in SUBSET Nat /\ Gone \in SUBSET Nat
  BY <1>1, <1>3 DEF Kept
<1>7. QED
  BY <1>1, <1>4, <1>5, <1>6, GoneFacts, PlacesFacts DEF Split

-----------------------------------------------------------------------------
(* The loop of FillSubset.                                                 *)

LEMMA FillBeginCopied ==
    ASSUME NEW x \in Input, Sized, FillBegin(x), UNCHANGED num_skip
    PROVE  Copied'
<1>1. /\ input_to_skip' = x /\ full' = full /\ omit' \in Omissions(x)' /\ idx' = 0
      /\ occurrence' = Mod - 1 /\ idx_omit' = 0 /\ idx_subset' = 0 /\ filling' = "loop"
  BY DEF FillBegin, Omissions
<1>2. Drawn'
  BY <1>1 DEF FillBegin, Sized, Drawn
<1>3. Split'
  BY <1>2, SplitFacts, PTL
<1>4. /\ Before(Places', 1) = 0 /\ Before(Gone', 1) = 0 /\ Before(Kept', 1) = 0
  BY <1>3, BeforeEnds DEF Split
<1>5. \A j \in 0 .. num_skip' - 1 : omit'[j] \in Nat
  BY <1>1 DEF Omissions
<1>6. (0 + Mod - 1) % Mod = Mod - 1
  BY InputAssumption
<1>7. QED
  BY <1>1, <1>2, <1>3, <1>4, <1>5, <1>6 DEF Copied, Split

\* The number that the code gives to an occurrence, and how it decides.
LEMMA AtElement ==
    ASSUME Copied, idx < Len(full)
    PROVE  LET p == idx + 1
               seen == Before(Places, p)
           IN  /\ p \in 1 .. Len(full) /\ p \in Nat /\ Element = full[p]
               /\ seen \in Nat
               /\ Before(Places, p + 1) = IF p \in Places THEN seen + 1 ELSE seen
               /\ Seen = (Before(Places, p + 1) + Mod - 1) % Mod
               /\ Leave <=> p \in Gone
               /\ Leave => p \in Places /\ idx_omit < num_skip /\ omit[idx_omit] = seen
<1> DEFINE p == idx + 1
           seen == Before(Places, p)
<1>1. Split /\ Drawn
  BY SplitFacts DEF Copied
<1>2. idx \in 0 .. Len(full) /\ Len(full) \in Nat /\ p \in 1 .. Len(full) /\ p \in Nat
  <2>1. idx \in 0 .. Len(full)
    BY DEF Copied
  <2>2. Len(full) \in Nat
    BY <1>1 DEF Split
  <2>3. QED
    BY <2>1, <2>2
<1>3. /\ seen \in Nat /\ Before(Places, p + 1) \in Nat
      /\ Before(Places, p + 1) <= Cardinality(Places)
      /\ Before(Places, p + 1) = IF p \in Places THEN seen + 1 ELSE seen
  <2>1. Places \in SUBSET Nat /\ IsFiniteSet(Places)
    BY <1>1 DEF Split
  <2>2. seen \in Nat
    BY <2>1, BeforeBound
  <2>3. Before(Places, p + 1) \in Nat /\ Before(Places, p + 1) <= Cardinality(Places)
    BY <2>1, BeforeBound
  <2>4. QED
    BY <1>2, <2>1, <2>2, <2>3, BeforeNext
<1>4. Mod \in Nat \ {0} /\ occurrence = (seen + Mod - 1) % Mod
  BY InputAssumption DEF Copied
<1>5. p \in Places <=> Element = input_to_skip
  BY <1>1, <1>2 DEF Places, Element, Split
<1>6. ASSUME p \in Places PROVE seen \in 0 .. Mod - 1 /\ Seen = seen
  <2>1. seen \in 0 .. Mod - 1
    BY <1>1, <1>3, <1>4, <1>6 DEF Split
  <2>2. Seen = (occurrence + 1) % Mod
    BY <1>5, <1>6 DEF Seen
  <2>3. CASE seen = 0
    <3>1. occurrence = Mod - 1
      BY <1>4, <2>3
    <3>2. QED
      BY <1>4, <2>2, <2>3, <3>1
  <2>4. CASE seen # 0
    <3>1. seen - 1 \in 0 .. Mod - 1 /\ seen + Mod - 1 = (seen - 1) + Mod
      BY <1>4, <2>1, <2>4
    <3>2. occurrence = seen - 1
      BY <1>4, <3>1
    <3>3. (occurrence + 1) % Mod = seen % Mod
      BY <2>1, <3>2
    <3>4. seen % Mod = seen
      BY <1>4, <2>1
    <3>5. QED
      BY <2>1, <2>2, <3>3, <3>4
  <2>5. QED
    BY <2>1, <2>3, <2>4
<1>7. Seen = (Before(Places, p + 1) + Mod - 1) % Mod
  <2>1. CASE p \in Places
    <3>1. Before(Places, p + 1) + Mod - 1 = seen + Mod
      BY <1>3, <1>4, <2>1
    <3>2. QED
      BY <1>4, <1>6, <2>1, <3>1
  <2>2. CASE p \notin Places
    BY <1>3, <1>4, <1>5, <2>2 DEF Seen
  <2>3. QED
    BY <2>1, <2>2
<1>8. /\ num_skip \in Nat /\ idx_omit \in 0 .. num_skip
      /\ DOMAIN omit = 0 .. num_skip - 1
      /\ \A j \in 0 .. num_skip - 1 : omit[j] \in Nat /\ (j < idx_omit <=> omit[j] < seen)
      /\ \A j, k \in 0 .. num_skip - 1 : j < k => omit[j] < omit[k]
  <2>1. omit \in Omissions(input_to_skip) /\ num_skip \in Nat
    BY <1>1 DEF Drawn, Split
  <2>2. /\ DOMAIN omit = 0 .. num_skip - 1
        /\ \A j \in 0 .. num_skip - 1 : omit[j] \in Nat
        /\ \A j, k \in 0 .. num_skip - 1 : j < k => omit[j] < omit[k]
    BY <2>1 DEF Omissions
  <2>3. QED
    BY <2>1, <2>2 DEF Copied
<1>9. Leave => p \in Gone /\ p \in Places /\ idx_omit < num_skip /\ omit[idx_omit] = seen
  BY <1>5, <1>6, <1>8 DEF Leave, Gone
<1>10. ASSUME p \in Gone PROVE Leave
  <2>1. p \in Places
    BY <1>10 DEF Gone
  <2>2. PICK j \in 0 .. num_skip - 1 : omit[j] = seen
    BY <1>8, <1>10 DEF Gone
  <2>3. ~(j < idx_omit) /\ idx_omit \in 0 .. num_skip - 1
    BY <1>3, <1>8, <2>2
  <2>4. ~(omit[idx_omit] < seen) /\ omit[idx_omit] \in Nat
    BY <1>8, <2>3
  <2>5. ~(idx_omit < j)
    BY <1>3, <1>8, <2>2, <2>3, <2>4
  <2>6. j = idx_omit
    BY <1>8, <2>3, <2>5
  <2>7. QED
    BY <1>5, <1>6, <1>8, <2>1, <2>2, <2>3, <2>6 DEF Leave
<1>11. QED
  BY <1>2, <1>3, <1>7, <1>9, <1>10 DEF Element

LEMMA SkipCopied ==
    ASSUME Copied, Skip, UNCHANGED num_skip
    PROVE  Copied'
<1> DEFINE p == idx + 1
           seen == Before(Places, p)
<1>1. /\ idx < Len(full) /\ Leave /\ filling = "loop"
      /\ UNCHANGED <<full, subset, input_to_skip, omit, idx_subset, filling, num_skip>>
      /\ occurrence' = Seen /\ idx_omit' = idx_omit + 1 /\ idx' = p
  BY DEF Skip
<1>2. /\ p \in 1 .. Len(full) /\ p \in Nat /\ p \in Gone /\ p \in Places /\ seen \in Nat
      /\ Before(Places, p + 1) = seen + 1
      /\ Seen = (Before(Places, p + 1) + Mod - 1) % Mod
      /\ idx_omit < num_skip /\ omit[idx_omit] = seen
  BY <1>1, AtElement
<1>3. Split /\ Drawn /\ Places' = Places /\ Gone' = Gone /\ Kept' = Kept /\ Drawn'
  BY <1>1, SplitFacts DEF Copied, Drawn, Sized, Places, Gone, Kept, Omissions, Before
<1>4. Before(Gone, p + 1) = Before(Gone, p) + 1 /\ Before(Kept, p + 1) = Before(Kept, p)
  <2>1. /\ Gone \in SUBSET Nat /\ IsFiniteSet(Gone)
        /\ Kept \in SUBSET Nat /\ IsFiniteSet(Kept) /\ p \notin Kept
    BY <1>2, <1>3 DEF Split
  <2>2. QED
    BY <1>2, <2>1, BeforeNext
<1>5. /\ num_skip \in Nat /\ idx_omit \in 0 .. num_skip /\ idx_omit = Before(Gone, p)
      /\ idx_subset = Before(Kept, p) /\ Len(full) \in Nat
      /\ \A j \in 0 .. num_skip - 1 : omit[j] \in Nat /\ (j < idx_omit <=> omit[j] < seen)
      /\ \A j, k \in 0 .. num_skip - 1 : j < k => omit[j] < omit[k]
      /\ \A k \in Kept : k <= idx => subset[Before(Kept, k)] = full[k]
  <2>1. omit \in Omissions(input_to_skip) /\ num_skip \in Nat
    BY <1>3 DEF Drawn, Split
  <2>2. /\ DOMAIN omit = 0 .. num_skip - 1
        /\ \A j \in 0 .. num_skip - 1 : omit[j] \in Nat
        /\ \A j, k \in 0 .. num_skip - 1 : j < k => omit[j] < omit[k]
    BY <2>1 DEF Omissions
  <2>3. QED
    BY <1>3, <2>1, <2>2 DEF Copied, Split
<1>6. \A j \in 0 .. num_skip - 1 : j < idx_omit + 1 <=> omit[j] < seen + 1
  <2>1. TAKE j \in 0 .. num_skip - 1
  <2>2. idx_omit \in 0 .. num_skip - 1
    BY <1>2, <1>5
  <2>3. idx_omit < j => seen < omit[j]
    BY <1>2, <1>5, <2>2
  <2>4. QED
    BY <1>2, <1>5, <2>2, <2>3
<1>7. \A k \in Kept : k <= p => subset[Before(Kept, k)] = full[k]
  <2>1. SUFFICES ASSUME NEW k \in Kept, k <= p PROVE k <= idx
    BY <1>5
  <2>2. k \in Nat /\ k # p
    BY <1>2, <1>3 DEF Split
  <2>3. idx \in Nat
    BY <1>5 DEF Copied
  <2>4. QED
    BY <2>1, <2>2, <2>3
<1>8. idx_omit + 1 \in 0 .. num_skip /\ p \in 0 .. Len(full)
  BY <1>2, <1>5
<1>9. idx' = p
  BY <1>1
<1> HIDE DEF p
<1>10. QED
  BY <1>1, <1>2, <1>3, <1>4, <1>5, <1>6, <1>7, <1>8, <1>9 DEF Copied

\* An element that is kept fits, and overwrites none that was copied.
LEMMA KeepCopied ==
    ASSUME Copied, Keep, UNCHANGED num_skip
    PROVE  Copied'
<1> DEFINE p == idx + 1
           seen == Before(Places, p)
<1>1. /\ idx < Len(full) /\ ~Leave /\ filling = "loop"
      /\ UNCHANGED <<full, input_to_skip, omit, idx_omit, filling, num_skip>>
      /\ subset' = IF Fits THEN [subset EXCEPT ![idx_subset] = Element] ELSE subset
      /\ idx_subset' = IF Fits THEN idx_subset + 1 ELSE idx_subset
      /\ occurrence' = Seen /\ idx' = p
  BY DEF Keep
<1>2. /\ p \in 1 .. Len(full) /\ p \in Nat /\ p \notin Gone /\ seen \in Nat
      /\ Element = full[p]
      /\ Before(Places, p + 1) = IF p \in Places THEN seen + 1 ELSE seen
      /\ Seen = (Before(Places, p + 1) + Mod - 1) % Mod
  BY <1>1, AtElement
<1>3. Split /\ Drawn /\ Places' = Places /\ Gone' = Gone /\ Kept' = Kept
  BY <1>1, SplitFacts DEF Copied, Places, Gone, Kept, Before
<1>4. /\ p \in Kept
      /\ Before(Gone, p + 1) = Before(Gone, p) /\ Before(Kept, p + 1) = Before(Kept, p) + 1
      /\ Before(Kept, p) \in Nat /\ Before(Kept, p + 1) <= Cardinality(Kept)
  <2>1. /\ Gone \in SUBSET Nat /\ IsFiniteSet(Gone)
        /\ Kept \in SUBSET Nat /\ IsFiniteSet(Kept) /\ p \in Kept
    BY <1>2, <1>3 DEF Split
  <2>2. QED
    BY <1>2, <2>1, BeforeNext, BeforeBound
<1>5. /\ num_skip \in Nat /\ idx_omit \in 0 .. num_skip /\ idx_omit = Before(Gone, p)
      /\ idx_subset = Before(Kept, p) /\ Len(full) \in Nat
      /\ DOMAIN omit = 0 .. num_skip - 1
      /\ \A j \in 0 .. num_skip - 1 : omit[j] \in Nat /\ (j < idx_omit <=> omit[j] < seen)
      /\ \A k \in Kept : k <= idx => subset[Before(Kept, k)] = full[k]
  <2>1. omit \in Omissions(input_to_skip) /\ num_skip \in Nat
    BY <1>3 DEF Drawn, Split
  <2>2. /\ DOMAIN omit = 0 .. num_skip - 1
        /\ \A j \in 0 .. num_skip - 1 : omit[j] \in Nat
    BY <2>1 DEF Omissions
  <2>3. QED
    BY <1>3, <2>1, <2>2 DEF Copied, Split
<1>6. \A j \in 0 .. num_skip - 1 : j < idx_omit <=> omit[j] < Before(Places, p + 1)
  <2>1. CASE p \in Places
    <3>1. \A j \in 0 .. num_skip - 1 : omit[j] # seen
      BY <1>2, <1>5, <2>1 DEF Gone
    <3>2. QED
      BY <1>2, <1>5, <2>1, <3>1
  <2>2. CASE p \notin Places
    BY <1>2, <1>5, <2>2
  <2>3. QED
    BY <2>1, <2>2
<1>7. /\ DOMAIN subset = 0 .. Len(full) - num_skip - 1
      /\ Cardinality(DOMAIN subset) = Len(full) - num_skip
  <2>1. Len(full) = Size(num_skip) /\ subset = [k \in 0 .. Size(num_skip) - num_skip - 1 |-> subset[k]]
    BY <1>3, FullFacts DEF Drawn, Sized
  <2>2. DOMAIN subset = 0 .. Len(full) - num_skip - 1
    BY <2>1
  <2>3. Len(full) - num_skip \in Nat
    BY <1>3 DEF Split
  <2>4. QED
    BY <2>2, <2>3, IntervalSize
<1>8. idx_subset \in DOMAIN subset /\ Fits
  <2>1. Cardinality(Kept) = Len(full) - num_skip /\ Len(full) - num_skip \in Nat
    BY <1>3 DEF Split
  <2>2. QED
    BY <1>4, <1>5, <1>7, <2>1 DEF Fits
<1>9. subset' = [subset EXCEPT ![idx_subset] = full[p]] /\ idx_subset' = idx_subset + 1
  BY <1>1, <1>2, <1>8
<1>10. Drawn'
  <2>1. Len(full) = Size(num_skip) /\ subset = [k \in 0 .. Size(num_skip) - num_skip - 1 |-> subset[k]]
    BY <1>3, FullFacts DEF Drawn, Sized
  <2>2. subset' = [k \in 0 .. Size(num_skip) - num_skip - 1 |-> subset'[k]]
    BY <1>9, <2>1
  <2>3. QED
    BY <1>1, <1>3, <2>2 DEF Drawn, Sized, Omissions
<1>11. \A k \in Kept : k <= p => subset'[Before(Kept, k)] = full[k]
  <2>1. SUFFICES ASSUME NEW k \in Kept, k <= p
                 PROVE  subset'[Before(Kept, k)] = full[k]
    OBVIOUS
  <2>2. CASE k = p
    BY <1>5, <1>8, <1>9, <2>2
  <2>3. CASE k # p
    <3>1. k \in Nat /\ Kept \in SUBSET Nat /\ IsFiniteSet(Kept)
      BY <1>3 DEF Split
    <3>2. idx \in Nat
      BY <1>5 DEF Copied
    <3>3. k <= idx /\ k < p
      BY <2>1, <2>3, <3>1, <3>2
    <3>4. Before(Kept, k) < Before(Kept, p) /\ Before(Kept, k) \in Nat
      BY <1>2, <3>1, <3>3, BeforeGrows, BeforeBound
    <3>5. Before(Kept, k) \in DOMAIN subset /\ Before(Kept, k) # idx_subset
      BY <1>4, <1>5, <1>7, <1>8, <3>4
    <3>6. QED
      BY <1>5, <1>9, <3>3, <3>5
  <2>4. QED
    BY <2>2, <2>3
<1>12. p \in 0 .. Len(full)
  BY <1>2, <1>5
<1>13. idx' = p
  BY <1>1
<1> HIDE DEF p
<1>14. QED
  BY <1>1, <1>2, <1>3, <1>4, <1>5, <1>6, <1>9, <1>10, <1>11, <1>12, <1>13 DEF Copied

LEMMA ReturnCopied ==
    ASSUME Copied, NEW checked, FillReturn(checked), UNCHANGED num_skip
    PROVE  Copied'
<1>1. /\ UNCHANGED <<full, subset, input_to_skip, omit, occurrence, idx_omit, idx_subset, idx, num_skip>>
      /\ idx = Len(full)
  BY DEF FillReturn, loopVars
<1>2. Places' = Places /\ Gone' = Gone /\ Kept' = Kept /\ Drawn' = Drawn
  BY <1>1 DEF Places, Gone, Kept, Before, Drawn, Sized, Omissions
<1>3. QED
  BY <1>1, <1>2 DEF Copied

-----------------------------------------------------------------------------
(* Filling is kept by the rest of Measure.                                 *)

LEMMA LeastTicks ==
    ASSUME NEW a \in Tick, NEW b \in Tick
    PROVE  Min({a, b}) \in Tick
<1>1. Ticks \in Nat \ {0}
  BY EstimatorAssumption
<1>2. a \in Int /\ b \in Int
  BY <1>1 DEF Tick
<1>3. \E c \in {a, b} : \A e \in {a, b} : c <= e
  BY <1>2
<1>4. Min({a, b}) \in {a, b}
  BY <1>3 DEF Min
<1>5. QED
  BY <1>4

LEMMA SkipBound ==
    ASSUME NEW d \in Tick
    PROVE  NumSkip(d) = 0 \/ NumSkip(d) \in 1 .. precision_divisor
<1>1. d \in Nat /\ precision_divisor \in Nat \ {0}
  BY EstimatorAssumption, ParamsAssumption DEF Tick
<1>2. CASE d = 0
  BY <1>2 DEF NumSkip
<1>3. CASE d # 0
  <2> DEFINE n == (precision_divisor + d - 1) \div d
  <2>1. n \in Nat /\ n >= 1
    BY <1>1, <1>3
  <2>2. d * n <= precision_divisor + d - 1
    BY <1>1, <1>3
  <2>3. NumSkip(d) = n
    BY <1>3 DEF NumSkip
  <2> HIDE DEF n
  <2>4. n <= precision_divisor
    <3>1. SUFFICES ASSUME n >= precision_divisor + 1 PROVE FALSE
      BY <1>1, <2>1
    <3>2. d * (precision_divisor + 1) <= d * n
      BY <1>1, <2>1, <3>1, Monotonic
    <3>3. d * (precision_divisor + 1) = d * precision_divisor + d
      BY <1>1
    <3>4. precision_divisor * 1 <= precision_divisor * d
      BY <1>1, <1>3, Monotonic
    <3>5. precision_divisor * d = d * precision_divisor /\ d * n \in Nat /\ d * precision_divisor \in Nat
      BY <1>1, <2>1
    <3>6. QED
      BY <1>1, <2>2, <3>2, <3>3, <3>4, <3>5
  <2>5. QED
    BY <1>1, <2>1, <2>3, <2>4
<1>4. QED
  BY <1>2, <1>3

LEMMA FillingInit == Init => Filling
<1>1. SUFFICES ASSUME Init PROVE Filling
  OBVIOUS
<1>2. Ticks - 1 \in Tick
  BY EstimatorAssumption DEF Tick
<1>3. QED
  BY <1>1, <1>2 DEF Init, FillInit, Filling, Phase

\* The steps that leave the vectors alone.
LEMMA VectorsUnchanged ==
    ASSUME Filling, UNCHANGED <<num_skip, fillVars, min_duration>>,
           phase \in {"elapsed", "skip"} \/ phase' \notin {"elapsed", "skip"},
           \/ phase \in Phase \ {"elapsed", "skip", "returned"}
           \/ phase' \in {"elapsed", "skip", "returned"}
    PROVE  Filling'
<1>1. UNCHANGED <<num_skip, full, subset, input_to_skip, omit, occurrence, idx_omit,
                  idx_subset, idx, filling, min_duration>>
  BY DEF fillVars, loopVars
<1>2. Sized' = Sized
  BY <1>1 DEF Sized
<1>3. Copied' = Copied
  BY <1>1, <1>2 DEF Copied, Drawn, Places, Gone, Kept, Before, Omissions
<1>4. QED
  BY <1>1, <1>2, <1>3 DEF Filling

LEMMA SkipEstimatedFilling ==
    ASSUME NEW t \in Tick, MInv, Filling, SkipEstimated(t)
    PROVE  Filling'
<1> DEFINE d == Min({min_duration, Minus(t, timer_resolution)})
           n == NumSkip(d)
<1>1. d \in Tick
  <2>1. Minus(t, timer_resolution) \in Tick
    BY MinusTick, ParamsAssumption
  <2>2. QED
    BY <2>1, LeastTicks DEF Filling
<1>2. n = 0 \/ n \in 1 .. precision_divisor
  BY <1>1, SkipBound
<1>3. phase = "skip" /\ num_skip = 0 /\ input_to_skip = 0
  BY DEF SkipEstimated, Filling
<1>4. CASE /\ phase' = "elapsed" /\ min_duration' = d
           /\ UNCHANGED <<num_skip, fillVars>>
  BY <1>1, <1>3, <1>4 DEF Filling, fillVars
<1>5. 0 \in Tick
  BY EstimatorAssumption DEF Tick
<1>6. CASE /\ phase' = "returned" /\ n = 0 /\ num_skip' = n /\ min_duration' = 0
           /\ UNCHANGED fillVars
  BY <1>3, <1>5, <1>6 DEF Filling, fillVars
<1>7. CASE /\ phase' = "overhead" /\ n # 0 /\ num_skip' = n /\ min_duration' = 0
           /\ Replicate(n)
  <2>1. Sized'
    BY <1>2, <1>7 DEF Replicate, Sized
  <2>2. input_to_skip' = 0
    BY <1>3, <1>7 DEF Replicate
  <2>3. QED
    BY <1>5, <1>7, <2>1, <2>2 DEF Filling
<1>8. QED
  BY <1>4, <1>6, <1>7 DEF SkipEstimated

LEMMA FillFilling == MInv /\ Filling /\ Fill => Filling'
<1>1. SUFFICES ASSUME MInv, Filling, Fill PROVE Filling'
  OBVIOUS
<1>2. /\ phase = "fill" /\ UNCHANGED <<num_skip, min_duration>>
      /\ phase' \in {"fill", "input"} /\ num_skip # 0 /\ Sized
  BY <1>1 DEF Fill, Filling, Phase
<1>3. CASE filling = "no" /\ FillBegin(Unique[u])
  <2>1. Unique[u] \in Input
    BY <1>1, <1>2, Uniques DEF MInv, Progress
  <2>2. Copied'
    BY <1>2, <1>3, <2>1, FillBeginCopied
  <2>3. QED
    BY <1>1, <1>2, <2>2 DEF Filling, Copied, Drawn
<1>4. ASSUME filling = "loop" PROVE Copied
  <2>1. Unique[u] \in Input /\ input_to_skip = Unique[u]
    BY <1>1, <1>2, <1>4, Uniques DEF MInv, Progress, SubsetOf
  <2>2. input_to_skip # 0
    BY <2>1, InputAssumption
  <2>3. QED
    BY <1>1, <2>2 DEF Filling
<1>5. CASE Skip \/ Keep \/ FillReturn(NANOBENCHMARK_ENABLE_CHECKS)
  <2>1. Copied
    BY <1>4, <1>5 DEF Skip, Keep, FillReturn
  <2>2. Copied'
    BY <1>2, <1>5, <2>1, SkipCopied, KeepCopied, ReturnCopied
  <2>3. QED
    BY <1>1, <1>2, <2>2 DEF Filling, Copied, Drawn
<1>6. QED
  BY <1>1, <1>3, <1>5 DEF Fill

LEMMA FillingStep == MInv /\ Filling /\ [Next]_vars => Filling'
<1>1. SUFFICES ASSUME MInv, Filling, [Next]_vars PROVE Filling'
  OBVIOUS
<1>2. CASE Elapsed
  BY <1>1, <1>2, VectorsUnchanged DEF Elapsed
<1>3. CASE Fill
  BY <1>1, <1>3, FillFilling
<1>4. ASSUME NEW t \in Tick, Sample(t) PROVE Filling'
  BY <1>1, <1>4, VectorsUnchanged DEF Sample, Phase, Measured
<1>5. ASSUME NEW t \in Tick, SkipEstimated(t) PROVE Filling'
  BY <1>1, <1>5, SkipEstimatedFilling
<1>6. ASSUME NEW t \in Tick,
             OverheadEstimated(t) \/ OverheadSkipEstimated(t) \/ TotalEstimated(t)
      PROVE  Filling'
  BY <1>1, <1>6, VectorsUnchanged
     DEF OverheadEstimated, OverheadSkipEstimated, TotalEstimated, Phase, Measured
<1>7. ASSUME NEW t \in Tick, InputEstimated(t) PROVE Filling'
  BY <1>1, <1>7, VectorsUnchanged DEF InputEstimated, Phase, Measured
<1>8. CASE UNCHANGED vars
  BY <1>1, <1>8, VectorsUnchanged DEF vars, MInv, Progress
<1>9. QED
  BY <1>1, <1>2, <1>3, <1>4, <1>5, <1>6, <1>7, <1>8 DEF Next

LEMMA FillingInvariant == Spec => [](MInv /\ Filling)
  BY Initially, FillingInit, Step, FillingStep, PTL DEF Spec

\* Whatever the loop has seen: it is copied or left out, and once it has seen
\* everything, the three checks hold.
LEMMA AllSeen ==
    ASSUME Copied
    PROVE  /\ idx_subset + idx_omit = idx
           /\ idx = Len(full) => Checks
<1> DEFINE p == idx + 1
           front == 1 .. idx
           gone == {j \in Gone : j < p}
           kept == {j \in Kept : j < p}
<1>1. Split /\ Drawn
  BY SplitFacts DEF Copied
<1>2. idx \in 0 .. Len(full) /\ Len(full) \in Nat /\ p \in Nat /\ idx \in Nat
  <2>1. idx \in 0 .. Len(full)
    BY DEF Copied
  <2>2. Len(full) \in Nat
    BY <1>1 DEF Split
  <2>3. QED
    BY <2>1, <2>2
<1>3. Cardinality(front) = Cardinality(kept) + Cardinality(gone)
  <2>1. IsFiniteSet(gone) /\ IsFiniteSet(kept)
    BY <1>1, FS_Subset DEF Split
  <2>2. \A j \in front : j \in gone \/ j \in kept
    BY <1>1, <1>2 DEF Split
  <2>3. \A j \in gone \cup kept : j \in front
    BY <1>1, <1>2 DEF Split
  <2>4. gone \cap kept = {}
    BY <1>1 DEF Split
  <2>5. front = kept \cup gone
    BY <2>2, <2>3
  <2>6. Cardinality(kept \cup gone)
          = Cardinality(kept) + Cardinality(gone) - Cardinality(kept \cap gone)
    BY <2>1, FS_Union
  <2>7. Cardinality(kept \cap gone) = 0
    BY <2>4, FS_EmptySet
  <2>8. Cardinality(kept) \in Nat /\ Cardinality(gone) \in Nat
    BY <2>1, FS_CardinalityType
  <2>9. Cardinality(front) = Cardinality(kept \cup gone)
    BY <2>5, Zenon
  <2> HIDE DEF front, kept, gone
  <2>10. QED
    BY <2>6, <2>7, <2>8, <2>9
<1>4. Cardinality(front) = idx
  BY <1>2, IntervalSize
<1>5. idx_subset = Cardinality(kept) /\ idx_omit = Cardinality(gone)
  BY DEF Copied, Before
<1>6. idx_subset + idx_omit = idx
  BY <1>3, <1>4, <1>5
<1>7. ASSUME idx = Len(full) PROVE Checks
  <2>1. /\ Before(Gone, Len(full) + 1) = num_skip
        /\ Before(Kept, Len(full) + 1) = Len(full) - num_skip
        /\ Before(Places, Len(full) + 1) = Cardinality(Places)
    <3>1. /\ Places \in SUBSET (1 .. Len(full)) /\ Gone \in SUBSET (1 .. Len(full))
          /\ Kept \in SUBSET (1 .. Len(full))
      BY <1>1 DEF Split
    <3>2. QED
      BY <1>1, <1>2, <3>1, BeforeEnds DEF Split
  <2>2. /\ idx_omit = num_skip /\ idx_subset = Len(full) - num_skip
        /\ occurrence = (Cardinality(Places) + Mod - 1) % Mod
    BY <1>7, <2>1 DEF Copied
  <2>3. occurrence = Cardinality(Places) - 1
    <3>1. Cardinality(Places) \in 1 .. Mod /\ Mod \in Nat \ {0}
      BY <1>1, InputAssumption DEF Split
    <3>2. /\ Cardinality(Places) - 1 \in 0 .. Mod - 1
          /\ Cardinality(Places) + Mod - 1 = (Cardinality(Places) - 1) + Mod
      BY <3>1
    <3>3. ASSUME NEW c \in 0 .. Mod - 1 PROVE (c + Mod) % Mod = c
      BY <3>1
    <3>4. QED
      BY <2>2, <3>2, <3>3
  <2>4. Cardinality(DOMAIN subset) = Len(full) - num_skip
    <3>1. Len(full) = Size(num_skip) /\ subset = [k \in 0 .. Size(num_skip) - num_skip - 1 |-> subset[k]]
      BY <1>1, FullFacts DEF Drawn, Sized
    <3>2. DOMAIN subset = 0 .. (Len(full) - num_skip) - 1
      BY <3>1
    <3>3. Len(full) - num_skip \in Nat
      BY <1>1 DEF Split
    <3>4. QED
      BY <3>2, <3>3, IntervalSize
  <2>5. Cardinality(Places) = Occurrences(num_skip)[input_to_skip]
    BY <1>1 DEF Split
  <2>6. QED
    BY <2>2, <2>3, <2>4, <2>5 DEF Checks
<1>8. QED
  BY <1>6, <1>7

-----------------------------------------------------------------------------
\* FillSubset drops no element, and its three checks hold: a build that leaves
\* them out loses nothing.
THEOREM NothingLost == Spec => []NothingDropped
<1>1. MInv /\ Filling => NothingDropped
  <2>1. SUFFICES ASSUME MInv, Filling, filling = "loop"
                 PROVE  idx_subset + idx_omit = idx /\ (idx = Len(full) => Checks)
    BY DEF NothingDropped
  <2>2. phase = "fill" /\ input_to_skip = Unique[u] /\ Unique[u] \in Input
    BY <2>1, Uniques DEF MInv, SubsetOf, Progress
  <2>3. Copied
    BY <2>1, <2>2, InputAssumption DEF Filling
  <2>4. QED
    BY <2>3, AllSeen
<1>2. QED
  BY <1>1, FillingInvariant, PTL

\* What FillSubset returns is full without num_skip occurrences of one input,
\* in the same order, whatever the vector held before.
THEOREM SubsetExact == Spec => []SubsetOfFull
<1>1. Filling => SubsetOfFull
  <2>1. SUFFICES ASSUME Filling, filling = "no", input_to_skip # 0
                 PROVE  SubsetOfFull
    BY DEF SubsetOfFull
  <2>2. Copied /\ Drawn /\ Split
    BY <2>1, SplitFacts DEF Filling, Copied
  <2>3. Cardinality(Gone) = num_skip
    BY <2>2 DEF Split
  <2>4. ASSUME NEW k \in Kept PROVE subset[Before(Kept, k)] = full[k]
    <3>1. idx = Len(full)
      BY <2>1, <2>2 DEF Copied
    <3>2. k <= Len(full)
      BY <2>2 DEF Split
    <3>3. QED
      BY <2>2, <3>1, <3>2 DEF Copied
  <2>5. QED
    BY <2>3, <2>4 DEF SubsetOfFull, Quantify, Places, Gone, Kept, Before
<1>2. QED
  BY <1>1, FillingInvariant, PTL

-----------------------------------------------------------------------------
(* The way to the end.                                                     *)

\* What is measured from here on, twice for a unique input that is measured
\* after something else.
PhasesLeft ==
    CASE phase = "elapsed"       -> 4 * num_unique - 2 * u + 5
      [] phase = "skip"          -> 4 * num_unique - 2 * u + 4
      [] phase = "overhead"      -> 2 * num_unique + 3
      [] phase = "overhead_skip" -> 2 * num_unique + 2
      [] phase = "total"         -> 2 * num_unique + 1
      [] phase = "fill"          -> 2 * num_unique - 2 * u + 2
      [] phase = "input"         -> 2 * num_unique - 2 * u + 1
      [] OTHER                   -> 0

\* Steps that the loop of FillSubset, or that of SampleUntilStable, has left.
StepsInside ==
    CASE phase = "fill" /\ filling = "no"         -> Len(full) + 2
      [] phase = "fill" /\ filling = "loop"       -> Len(full) - idx + 1
      [] phase \in Measured /\ sampler = "idle"   -> max_evals + 2
      [] phase \in Measured /\ sampler = "busy"   -> max_evals - eval + 1
      [] OTHER                                    -> 0

Descends ==
    \/ PhasesLeft' < PhasesLeft
    \/ PhasesLeft' = PhasesLeft /\ StepsInside' < StepsInside

Evaluations ==
    sampler \in {"idle", "busy", "aborted"} /\ eval \in 0 .. max_evals

LEMMA EvaluationsStep == Evaluations /\ [Next]_vars => Evaluations'
<1>1. SUFFICES ASSUME Evaluations, [Next]_vars PROVE Evaluations'
  OBVIOUS
<1>2. ASSUME NEW t \in Tick, SampleBegin(t) \/ Evaluate(t) \/ SampleReturn(t)
      PROVE  Evaluations'
  BY <1>1, <1>2, EstimatorAssumption
     DEF Evaluations, SampleBegin, Evaluate, MoreEvals, SampleReturn
<1>3. CASE UNCHANGED estVars
  BY <1>1, <1>3 DEF Evaluations, estVars
<1>4. QED
  BY <1>1, <1>2, <1>3
     DEF Next, vars, Elapsed, Fill, Sample, SkipEstimated, OverheadEstimated,
         OverheadSkipEstimated, TotalEstimated, InputEstimated

Descent == MInv /\ Filling /\ Evaluations

LEMMA DescentInvariant == Spec => []Descent
<1>1. Init => Evaluations
  BY EstimatorAssumption DEF Init, EstimatorInit, Evaluations
<1>2. Spec => []Evaluations
  BY <1>1, EvaluationsStep, PTL DEF Spec
<1>3. QED
  BY <1>2, FillingInvariant, PTL DEF Descent

\* The loop of FillSubset is inside the vector.
LEMMA LoopInside ==
    ASSUME Descent, phase = "fill"
    PROVE  Len(full) \in Nat /\ (filling = "loop" => idx \in 0 .. Len(full))
<1>1. Len(full) \in Nat
  <2>1. Sized
    BY DEF Descent, Filling, Phase
  <2>2. QED
    BY <2>1, FullFacts
<1>2. ASSUME filling = "loop" PROVE idx \in 0 .. Len(full)
  <2>1. Unique[u] \in Input /\ input_to_skip = Unique[u]
    BY <1>2, Uniques DEF Descent, MInv, Progress, SubsetOf
  <2>2. input_to_skip # 0
    BY <2>1, InputAssumption
  <2>3. QED
    BY <2>2 DEF Descent, Filling, Copied
<1>3. QED
  BY <1>1, <1>2

\* There is always a number of steps to count down from.
LEMMA RanksTyped ==
    ASSUME Descent
    PROVE  PhasesLeft \in Nat /\ StepsInside \in Nat
<1>1. num_unique \in Nat \ {0} /\ max_evals \in Nat
  BY Uniques, EstimatorAssumption
<1>2. phase \in Phase /\ (phase # "returned" => u \in 1 .. num_unique)
  BY DEF Descent, MInv, Progress
<1>3. PhasesLeft \in Nat
  BY <1>1, <1>2 DEF PhasesLeft, Phase, Measured
<1>4. CASE phase = "fill"
  <2>1. phase \notin Measured
    BY <1>4 DEF Measured
  <2>2. QED
    BY <1>3, <1>4, <2>1, LoopInside DEF StepsInside
<1>5. CASE phase # "fill"
  BY <1>1, <1>3, <1>5 DEF StepsInside, Descent, Evaluations
<1>6. QED
  BY <1>4, <1>5

LEMMA FillDescends ==
    ASSUME Descent, Fill
    PROVE  Descends
<1>1. phase = "fill" /\ u' = u /\ phase \notin Measured
  BY DEF Fill, Measured
<1>2. PICK l \in Nat : l = Len(full) /\ (filling = "loop" => idx \in 0 .. l)
  BY <1>1, LoopInside
<1>3. phase' = phase => PhasesLeft' = PhasesLeft
  BY <1>1 DEF PhasesLeft
<1>4. /\ filling = "no" => StepsInside = l + 2
      /\ filling = "loop" => StepsInside = l - idx + 1
  BY <1>1, <1>2 DEF StepsInside
<1>5. ASSUME phase' = phase, full' = full
      PROVE  /\ filling' = "loop" => StepsInside' = l - idx' + 1
             /\ filling' = "aborted" => StepsInside' = 0
  BY <1>1, <1>2, <1>5 DEF StepsInside
<1>6. CASE filling = "no" /\ FillBegin(Unique[u]) /\ UNCHANGED phase
  BY <1>2, <1>3, <1>4, <1>5, <1>6 DEF FillBegin, Descends
<1>7. CASE (Skip \/ Keep) /\ UNCHANGED phase
  <2>1. /\ filling = "loop" /\ filling' = "loop" /\ full' = full
        /\ idx' = idx + 1 /\ idx \in Nat
    BY <1>2, <1>7 DEF Skip, Keep
  <2>2. StepsInside' = l - (idx + 1) + 1 /\ StepsInside = l - idx + 1
    BY <1>4, <1>5, <1>7, <2>1
  <2>3. StepsInside' < StepsInside
    BY <2>1, <2>2
  <2>4. QED
    BY <1>3, <1>7, <2>3 DEF Descends
<1>8. CASE /\ FillReturn(NANOBENCHMARK_ENABLE_CHECKS)
           /\ phase' = IF filling' = "aborted" THEN phase ELSE "input"
  <2>1. filling = "loop" /\ idx = l /\ full' = full
    BY <1>2, <1>8 DEF FillReturn
  <2>2. CASE filling' = "aborted"
    <3>1. StepsInside = 1 /\ StepsInside' = 0
      BY <1>2, <1>4, <1>5, <1>8, <2>1, <2>2
    <3>2. QED
      BY <1>3, <1>8, <2>2, <3>1 DEF Descends
  <2>3. CASE filling' # "aborted"
    <3>1. PhasesLeft = 2 * num_unique - 2 * u + 2
      BY <1>1 DEF PhasesLeft
    <3>2. PhasesLeft' = 2 * num_unique - 2 * u + 1
      BY <1>1, <1>8, <2>3 DEF PhasesLeft
    <3>3. num_unique \in Nat /\ u \in Nat
      BY <1>1, Uniques DEF Descent, MInv, Progress
    <3>4. QED
      BY <3>1, <3>2, <3>3 DEF Descends
  <2>4. QED
    BY <2>2, <2>3
<1>9. QED
  BY <1>6, <1>7, <1>8 DEF Fill

LEMMA SampleDescends ==
    ASSUME Descent, NEW t \in Tick, Sample(t)
    PROVE  Descends
<1>1. /\ phase \in Measured /\ phase # "fill"
      /\ phase' = phase /\ u' = u /\ max_evals \in Nat
  BY EstimatorAssumption DEF Sample, Measured
<1>2. PhasesLeft' = PhasesLeft
  BY <1>1 DEF PhasesLeft
<1>3. /\ sampler = "idle" => StepsInside = max_evals + 2
      /\ sampler = "busy" => StepsInside = max_evals - eval + 1
      /\ sampler' = "busy" => StepsInside' = max_evals - eval' + 1
      /\ sampler' = "aborted" => StepsInside' = 0
  BY <1>1 DEF StepsInside
<1>4. CASE SampleBegin(t)
  <2>1. sampler = "idle" /\ sampler' \in {"busy", "aborted"} /\ eval' = 0
    BY <1>4 DEF SampleBegin
  <2>2. QED
    BY <1>1, <1>2, <1>3, <2>1 DEF Descends
<1>5. CASE Evaluate(t)
  <2>1. /\ sampler = "busy" /\ sampler' \in {"busy", "aborted"}
        /\ eval \in Nat /\ eval < max_evals /\ eval' = eval + 1
    BY <1>1, <1>5 DEF Evaluate, MoreEvals, Descent, Evaluations
  <2>2. QED
    BY <1>1, <1>2, <1>3, <2>1 DEF Descends
<1>6. QED
  BY <1>4, <1>5 DEF Sample

\* Every step of Measure has fewer phases left, or fewer steps of the loop it
\* is in: however the timers behave, there are only finitely many
\* (nanobenchmark.h:114-115), for all inputs and parameters.
THEOREM MeasureDescends ==
    Spec => [](PhasesLeft \in Nat /\ StepsInside \in Nat) /\ [][Descends]_vars
<1>1. ASSUME Descent, Descent', Next
      PROVE  Descends
  <2>1. num_unique \in Nat \ {0}
    BY Uniques
  <2>2. phase # "returned" => u \in 1 .. num_unique
    BY <1>1 DEF Descent, MInv, Progress
  <2>3. CASE Fill
    BY <1>1, <2>3, FillDescends
  <2>4. ASSUME NEW t \in Tick, Sample(t) PROVE Descends
    BY <1>1, <2>4, SampleDescends
  <2>5. CASE Elapsed
    BY <2>1, <2>2, <2>5 DEF Elapsed, PhasesLeft, Descends
  <2>6. ASSUME NEW t \in Tick, SkipEstimated(t) PROVE Descends
    <3>1. /\ phase = "skip"
          /\ \/ phase' = "elapsed" /\ u' = u + 1
             \/ phase' = "returned"
             \/ phase' = "overhead" /\ ~(u < num_unique)
      BY <2>6 DEF SkipEstimated
    <3>2. QED
      BY <2>1, <2>2, <3>1 DEF PhasesLeft, Descends
  <2>7. ASSUME NEW t \in Tick, OverheadEstimated(t) PROVE Descends
    BY <2>1, <2>7 DEF OverheadEstimated, PhasesLeft, Descends
  <2>8. ASSUME NEW t \in Tick, OverheadSkipEstimated(t) PROVE Descends
    <3>1. phase = "overhead_skip" /\ phase' \in {"returned", "total"}
      BY <2>8 DEF OverheadSkipEstimated
    <3>2. QED
      BY <2>1, <3>1 DEF PhasesLeft, Descends
  <2>9. ASSUME NEW t \in Tick, TotalEstimated(t) PROVE Descends
    <3>1. phase = "total" /\ phase' = "fill" /\ u' = u /\ u = 1
      BY <1>1, <2>9 DEF TotalEstimated, Descent, MInv, Progress
    <3>2. QED
      BY <2>1, <3>1 DEF PhasesLeft, Descends
  <2>10. ASSUME NEW t \in Tick, InputEstimated(t) PROVE Descends
    <3>1. /\ phase = "input"
          /\ \/ phase' = "returned"
             \/ phase' = "fill" /\ u' = u + 1
      BY <2>10 DEF InputEstimated
    <3>2. QED
      BY <2>1, <2>2, <3>1 DEF PhasesLeft, Descends
  <2>11. QED
    BY <1>1, <2>3, <2>4, <2>5, <2>6, <2>7, <2>8, <2>9, <2>10 DEF Next
<1>2. Descent /\ Descent' /\ [Next]_vars => [Descends]_vars
  BY <1>1
<1>3. Descent => PhasesLeft \in Nat /\ StepsInside \in Nat
  BY RanksTyped
<1>4. QED
  BY <1>2, <1>3, DescentInvariant, PTL DEF Spec
-----------------------------------------------------------------------------
(* Error messages.                                                         *)

Told ==
    /\ phase # "returned" => ret = 0 /\ ~ message
    /\ phase \notin {"elapsed", "skip", "returned"} => num_skip # 0
    /\ phase = "returned" => \/ ret = 0 /\ message
                             \/ ret = num_unique /\ ~ message
                             \/ ret = 0 /\ num_skip = 0

LEMMA ToldStep == Told /\ [Next]_vars => Told'
<1>1. SUFFICES ASSUME Told, [Next]_vars PROVE Told'
  OBVIOUS
<1>2. CASE Elapsed
  BY <1>1, <1>2 DEF Told, Elapsed
<1>3. CASE Fill
  BY <1>1, <1>3 DEF Told, Fill, reported
<1>4. ASSUME NEW t \in Tick, Sample(t) PROVE Told'
  BY <1>1, <1>4 DEF Told, Sample, reported
<1>5. ASSUME NEW t \in Tick, SkipEstimated(t) PROVE Told'
  BY <1>1, <1>5 DEF Told, SkipEstimated, reported
<1>6. ASSUME NEW t \in Tick, OverheadEstimated(t) PROVE Told'
  BY <1>1, <1>6 DEF Told, OverheadEstimated, reported
<1>7. ASSUME NEW t \in Tick, OverheadSkipEstimated(t) PROVE Told'
  BY <1>1, <1>7 DEF Told, OverheadSkipEstimated
<1>8. ASSUME NEW t \in Tick, TotalEstimated(t) PROVE Told'
  BY <1>1, <1>8 DEF Told, TotalEstimated, reported
<1>9. ASSUME NEW t \in Tick, InputEstimated(t) PROVE Told'
  BY <1>1, <1>9 DEF Told, InputEstimated
<1>10. CASE UNCHANGED vars
  BY <1>1, <1>10 DEF Told, vars, reported
<1>11. QED
  BY <1>1, <1>2, <1>3, <1>4, <1>5, <1>6, <1>7, <1>8, <1>9, <1>10 DEF Next

\* Whenever Measure has no results, there is a message or NumSkip has said
\* zero (nanobenchmark.cc:754), and with results there is no message: the runs
\* without one that break FailureHasMessage all end there.
THEOREM OnlyNumSkipIsSilent ==
    Spec => []( phase = "returned" =>
                  /\ ret = 0 => message \/ num_skip = 0
                  /\ message => ret = 0 )
<1>1. Init => Told
  BY DEF Init, Told
<1>2. Told => (phase = "returned" =>
                 /\ ret = 0 => message \/ num_skip = 0
                 /\ message => ret = 0)
  BY UniqueAssumption DEF Told
<1>3. QED
  BY <1>1, <1>2, ToldStep, PTL DEF Spec
=============================================================================
