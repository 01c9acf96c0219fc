------------------------------ MODULE Measure ------------------------------
(***************************************************************************)
(* Measure of src/nanobenchmark.cc: estimate how long func takes for every  *)
(* unique input (NumSkip), replicate the inputs, estimate the overhead of   *)
(* calling it on all and on the reduced inputs, then the totals, the        *)
(* reduced ones once per unique input with that input made rarer by         *)
(* FillSubset, and report one result per unique input.  Every number in it  *)
(* comes from SampleUntilStable, which repeats evaluations until the        *)
(* samples agree, at most max_evals times.                                 *)
(*                                                                         *)
(* Timers are 32-bit words that wrap (here 0 .. Ticks - 1) and say          *)
(* anything.  SampleUntilStable is the Estimator.                           *)
(***************************************************************************)
EXTENDS FillSubset, Estimator

CONSTANTS
    precision_divisor,  \* Params::precision_divisor
    timer_resolution

ASSUME ParamsAssumption ==
    /\ precision_divisor \in Nat \ {0}
    /\ timer_resolution \in Tick

\* FillSubset numbers the occurrences of an input with 32-bit words.  There are
\* at most this many: precision_divisor calls can be left out.
ASSUME OccurrenceAssumption ==
    \A x \in Input : Occurrences(precision_divisor)[x] <= Mod

VARIABLES
    phase,          \* what is measured next, "fill" or "returned"
    u,              \* the unique input the phase is at
    min_duration,   \* NumSkip's local
    overhead, overhead_skip, total,
    total_skip,     \* of the last result
    results,        \* unique inputs whose result is written
    ret,            \* what Measure returned
    message         \* an error message went to stderr

totals == <<overhead, overhead_skip, total>>

reported == <<total_skip, results, ret, message>>

vars == <<num_skip, fillVars, estVars, phase, u, min_duration, totals, reported>>

Minus(a, b) == (a - b + Ticks) % Ticks

\* UniqueInputs sorts them.
Unique == SetToSortSeq(Input, <)

num_unique == Len(Unique)

\* Each input once, and at least one: NANOBENCHMARK_CHECK(num_inputs != 0).
ASSUME UniqueAssumption ==
    /\ Unique \in Seq(Input)
    /\ num_unique > 0
    /\ \A x \in Input : \E k \in 1 .. num_unique : Unique[k] = x
    /\ \A j, k \in 1 .. num_unique : Unique[j] = Unique[k] => j = k

-----------------------------------------------------------------------------
Init ==
    /\ FillInit
    /\ EstimatorInit
    /\ num_skip = 0
    /\ phase = "elapsed"
    /\ u = 1
    /\ min_duration = Ticks - 1
    /\ overhead = 0 /\ overhead_skip = 0 /\ total = 0
    /\ total_skip = 0 /\ results = {} /\ ret = 0 /\ message = FALSE

\* NumSkip runs func once and looks at the 64-bit timer: it may be too slow.
Elapsed ==
    /\ phase = "elapsed"
    /\ phase' \in {"skip", "returned"}
    /\ message' = (phase' = "returned")
    /\ UNCHANGED <<num_skip, fillVars, estVars, u, min_duration, totals>>
    /\ UNCHANGED <<total_skip, results, ret>>

Measured == {"skip", "overhead", "overhead_skip", "total", "input"}

\* Inside SampleUntilStable.
Sample(t) ==
    /\ phase \in Measured
    /\ SampleBegin(t) \/ Evaluate(t)
    /\ UNCHANGED <<num_skip, fillVars, phase, u, min_duration, totals, reported>>

\* The calls that "reach the target resolution", from the least duration.
NumSkip(d) ==
    IF d = 0 THEN 0 ELSE (precision_divisor + d - 1) \div d

\* The loop over the unique inputs ends.
AllReported_TooEarly == u + 1 >= num_unique

AllReported == u >= num_unique

SkipEstimated(t) ==
    LET d == Min({min_duration, Minus(t, timer_resolution)})
        n == NumSkip(d)
    IN  /\ phase = "skip"
        /\ SampleReturn(t)
        /\ IF u < num_unique
           THEN /\ u' = u + 1
                /\ phase' = "elapsed"
                /\ min_duration' = d
                /\ UNCHANGED <<num_skip, fillVars>>
           ELSE /\ u' = 1
                /\ num_skip' = n
                /\ min_duration' = 0
                /\ IF n = 0
                   THEN phase' = "returned" /\ UNCHANGED fillVars
                   ELSE phase' = "overhead" /\ Replicate(n)
        /\ UNCHANGED <<totals, reported>>

OverheadEstimated(t) ==
    /\ phase = "overhead"
    /\ SampleReturn(t)
    /\ overhead' = t
    /\ phase' = "overhead_skip"
    /\ UNCHANGED <<num_skip, fillVars, u, min_duration, overhead_skip, total, reported>>

OverheadSkipEstimated(t) ==
    /\ phase = "overhead_skip"
    /\ SampleReturn(t)
    /\ overhead_skip' = t
    /\ phase' = IF overhead < t THEN "returned" ELSE "total"
    /\ message' = (overhead < t)
    /\ UNCHANGED <<num_skip, fillVars, u, min_duration, overhead, total>>
    /\ UNCHANGED <<total_skip, results, ret>>

TotalEstimated(t) ==
    /\ phase = "total"
    /\ SampleReturn(t)
    /\ total' = t
    /\ phase' = "fill"
    /\ UNCHANGED <<num_skip, fillVars, u, min_duration, overhead, overhead_skip, reported>>

\* FillSubset for the next unique input.
Fill ==
    /\ phase = "fill"
    /\ \/ filling = "no" /\ FillBegin(Unique[u]) /\ UNCHANGED phase
       \/ Skip /\ UNCHANGED phase
       \/ Keep /\ UNCHANGED phase
       \/ /\ FillReturn(NANOBENCHMARK_ENABLE_CHECKS)
          /\ phase' = IF filling' = "aborted" THEN phase ELSE "input"
    /\ UNCHANGED <<num_skip, estVars, u, min_duration, totals, reported>>

InputEstimated(t) ==
    /\ phase = "input"
    /\ SampleReturn(t)
    /\ IF total < t
       THEN phase' = "returned" /\ message' = TRUE
              /\ UNCHANGED <<u, total_skip, results, ret>>
       ELSE /\ results' = results \cup {Unique[u]}
            /\ total_skip' = t
            /\ u' = u + 1
            /\ phase' = IF AllReported THEN "returned" ELSE "fill"
            /\ ret' = IF AllReported THEN num_unique ELSE ret
            /\ UNCHANGED message
    /\ UNCHANGED <<num_skip, fillVars, min_duration, totals>>

Duration_FullOverhead == Minus(Minus(total, overhead), Minus(total_skip, overhead))

\* The ticks of a result: the differences are taken of 32-bit words.
Duration == Minus(Minus(total, overhead), Minus(total_skip, overhead_skip))

Next ==
    \/ Elapsed
    \/ Fill
    \/ \E t \in Tick :
         \/ Sample(t)
         \/ SkipEstimated(t)
         \/ OverheadEstimated(t)
         \/ OverheadSkipEstimated(t)
         \/ TotalEstimated(t)
         \/ InputEstimated(t)

Spec == Init /\ [][Next]_vars

\* Measure is straight-line code: it goes on until it returns.
FairSpec == Spec /\ WF_vars(Next)

-----------------------------------------------------------------------------
(* Properties.                                                             *)

\* "One per unique input, or zero if the measurement failed"
\* (nanobenchmark.h:143-144): a caller that is told of results finds all of
\* them written, each measured with the subset in which that input is rarer.
OneResultPerInput ==
    /\ phase = "returned" /\ ret # 0 => ret = num_unique /\ results = Input
    /\ phase = "input" => input_to_skip = Unique[u] /\ input_to_skip \notin results

\* total - overhead and total_skip - overhead_skip may both wrap (line 786):
\* as long as leaving num_skip calls out saved at least their overhead, the
\* wraps cancel, and the ticks are the time saved less that overhead.
DurationExact ==
    results # {} =>
      LET saved == total - total_skip
          calls == overhead - overhead_skip
      IN  saved >= 0 /\ calls >= 0 /\ (saved >= calls => Duration = saved - calls)

\* "Zero if the measurement failed (an error message goes to stderr)"
\* (nanobenchmark.h:143-144): whoever calls Measure and is told of no results
\* can read why.
FailureHasMessage == phase = "returned" /\ ret = 0 => message

\* The division by the single measurement (line 558) has trapped.
Trapped == sampler = "aborted" /\ eval = 0 /\ est = 0

\* "This prevents infinite loops" (nanobenchmark.h:114-115): however the
\* timers behave, Measure comes to its return, unless a timer that shows no
\* ticks at all makes it divide by zero.
Terminates == <>(phase = "returned" \/ Trapped)
=============================================================================
