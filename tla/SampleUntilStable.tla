-------------------------- MODULE SampleUntilStable --------------------------
(***************************************************************************)
(* SampleUntilStable and TimerResolution of src/nanobenchmark.cc with their *)
(* samples.  An evaluation appends samples, estimates with the mode of all  *)
(* of them if they are many and else with the median, both of which sort    *)
(* the vector in place, and ends the sampling if the median absolute        *)
(* deviation is small.  Every evaluation takes twice as many samples as the *)
(* one before.  The mode is the half sample mode: the shortest interval     *)
(* with half of the samples, and again within it.                          *)
(***************************************************************************)
EXTENDS RobustStatistics

CONSTANTS
    Durations,              \* what t1 - t0 can be
    ticks_per_eval,
    min_samples_per_eval, min_mode_samples, max_evals,      \* of Params
    kTimerSamples,          \* of Params
    timer_resolution,       \* what it is for SampleUntilStable
    Tolerances,             \* max_rel_mad, as <<numerator, denominator>>
    NANOBENCHMARK_ENABLE_CHECKS

\* A duration is a difference of words.
ASSUME SamplingAssumption ==
    /\ Ticks \in Nat \ {0}
    /\ Durations \subseteq 0 .. Ticks - 1
    /\ ticks_per_eval \in Nat /\ min_samples_per_eval \in Nat
    /\ min_mode_samples \in Nat /\ max_evals \in Nat
    /\ kTimerSamples \in Nat \ {0}

VARIABLES
    at,                     \* where the code is
    caller,                 \* what the mode is for
    samples,                \* the array of samples
    repetitions,            \* TimerResolution's array of modes
    samples_per_eval, evaluation, estimate, max_rel_mad,
    idx_begin, half_count   \* locals of ModeOfSorted

interval == <<idx_begin, half_count>>

settings == <<samples_per_eval, max_rel_mad>>

svars == <<at, caller, samples, repetitions, settings, evaluation, estimate, interval>>

-----------------------------------------------------------------------------
\* Static initialization runs TimerResolution, Measure runs SampleUntilStable.
SInit ==
    /\ at \in {"timer", "idle"}
    /\ caller = IF at = "timer" THEN "TimerResolution" ELSE "SampleUntilStable"
    /\ samples = << >>
    /\ repetitions = << >>
    /\ samples_per_eval = 0 /\ evaluation = 0 /\ estimate = 0
    /\ max_rel_mad = <<0, 1>>
    /\ idx_begin = 0 /\ half_count = 0

\* The inner loop of TimerResolution, and the outer one once it is done.
TimerSamples(new) ==
    /\ at = "timer"
    /\ samples' = IF Len(repetitions) < kTimerSamples THEN new ELSE repetitions
    /\ caller' = IF Len(repetitions) < kTimerSamples THEN caller ELSE "last"
    /\ at' = "mode of"
    /\ UNCHANGED <<repetitions, settings, evaluation, estimate, interval>>

\* The single estimated duration.  A quotient by zero traps on x86 and is
\* zero on ARM64.
Begin(t, tolerance) ==
    /\ at = "idle"
    /\ samples' = <<t>>
    /\ estimate' = t
    /\ max_rel_mad' = tolerance
    /\ samples_per_eval' =
         Max({IF t = 0 THEN 0 ELSE ticks_per_eval \div t, min_samples_per_eval})
    /\ at' \in IF t = 0 THEN {"loop", "aborted"} ELSE {"loop"}
    /\ UNCHANGED <<caller, repetitions, evaluation, interval>>

MoreEvaluations_Inverted == evaluation > max_evals

MoreEvaluations == evaluation < max_evals

\* One evaluation takes its samples.
Sample ==
    /\ at = "loop"
    /\ MoreEvaluations
    /\ \E new \in [1 .. samples_per_eval -> Durations] : samples' = samples \o new
    /\ at' = IF Len(samples') >= min_mode_samples THEN "mode of" ELSE "median of"
    /\ UNCHANGED <<caller, repetitions, settings, evaluation, estimate, interval>>

Checked(t) ==
    IF NANOBENCHMARK_ENABLE_CHECKS /\ t = 0 THEN "rejected" ELSE "estimated"

EstimateMedian ==
    /\ at = "median of"
    /\ samples' = Sort(samples)
    /\ estimate' = Median(samples')
    /\ at' = Checked(estimate')
    /\ UNCHANGED <<caller, repetitions, settings, evaluation, interval>>

\* Mode, ModeOfSorted are entered.
BeginMode ==
    /\ at = "mode of"
    /\ samples' = CountingSort(samples)
    /\ idx_begin' = 0
    /\ half_count' = Len(samples) \div 2
    /\ at' = "mode"
    /\ UNCHANGED <<caller, repetitions, settings, evaluation, estimate>>

Halved_Not(n) == n

Halved(n) == n \div 2

\* The loop of ModeOfSorted.
Halve ==
    /\ at = "mode"
    /\ half_count > 1
    /\ idx_begin' = MinRange(samples, idx_begin, half_count)
    /\ half_count' = Halved(half_count)
    /\ UNCHANGED <<at, caller, samples, repetitions, settings, evaluation, estimate>>

ModeDone == at = "mode" /\ half_count <= 1

EstimateMode ==
    /\ ModeDone
    /\ caller = "SampleUntilStable"
    /\ estimate' = ModeOf(samples, idx_begin, half_count)
    /\ at' = Checked(estimate')
    /\ idx_begin' = 0 /\ half_count' = 0
    /\ UNCHANGED <<caller, samples, repetitions, settings, evaluation>>

Recorded_InPlace(mode) == <<mode>>

Recorded(mode) == Append(repetitions, mode)

\* TimerResolution has the mode of a repetition, or of all of them.
TimerMode ==
    LET mode == ModeOf(samples, idx_begin, half_count)
    IN  /\ ModeDone
        /\ IF caller = "last"
           THEN /\ estimate' = mode
                /\ at' = "returned"
                /\ UNCHANGED repetitions
           ELSE /\ caller = "TimerResolution"
                /\ repetitions' = Recorded(mode)
                /\ at' = "timer"
                /\ UNCHANGED estimate
        /\ samples' = << >>
        /\ idx_begin' = 0 /\ half_count' = 0
        /\ UNCHANGED <<caller, settings, evaluation>>

\* int(abs_mad)
Signed(x) == IF x < Ticks \div 2 THEN x ELSE x - Ticks

\* rel_mad is infinite or not a number if the estimate is zero.
Stable ==
    LET abs_mad == MedianAbsoluteDeviation(samples, estimate)
    IN  \/ abs_mad <= (timer_resolution + 99) \div 100
        \/ IF estimate = 0 THEN Signed(abs_mad) < 0
           ELSE Signed(abs_mad) * max_rel_mad[2] <= max_rel_mad[1] * estimate

Decide ==
    /\ at = "estimated"
    /\ IF Stable
       THEN /\ at' = "returned"
            /\ UNCHANGED <<evaluation, samples_per_eval>>
       ELSE /\ at' = "loop"
            /\ evaluation' = evaluation + 1
            /\ samples_per_eval' = 2 * samples_per_eval
    /\ UNCHANGED <<caller, samples, repetitions, max_rel_mad, estimate, interval>>

GiveUp ==
    /\ at = "loop"
    /\ ~MoreEvaluations
    /\ at' = "returned"
    /\ UNCHANGED <<caller, samples, repetitions, settings, evaluation, estimate, interval>>

Step ==
    \/ \E new \in [1 .. kTimerSamples -> Durations] : TimerSamples(new)
    \/ Sample
    \/ EstimateMedian
    \/ BeginMode
    \/ Halve
    \/ EstimateMode
    \/ TimerMode
    \/ Decide
    \/ GiveUp

SNext ==
    \/ \E t \in Durations, tolerance \in Tolerances : Begin(t, tolerance)
    \/ Step

SSpec == SInit /\ [][SNext]_svars

\* Straight-line code, once it is entered.
FairSampling == SSpec /\ WF_svars(Step)

-----------------------------------------------------------------------------
(* Properties.                                                             *)

\* What the loop of ModeOfSorted still looks at lies inside the array
\* (MinRange reads sorted[idx + half_count]), however odd its halves are.
ReadsInside ==
    at = "mode" => /\ idx_begin + 2 * half_count <= Len(samples)
                   /\ idx_begin < Len(samples)

\* "Less affected by outliers" (lines 459-460, 582): a duration that most samples have is
\* the estimate, whatever the outliers are, by the median and by the mode.
\* The largest of an odd number of samples has no say, and the duration
\* must be one whose double fits into Ticks.
MajorityWins ==
    \A v \in 0 .. (Ticks \div 2) - 1 :
      LET half == Len(samples) \div 2
      IN  Frequency(SubSeq(samples, 1, 2 * half), v) > half =>
            /\ ModeDone => ModeOf(samples, idx_begin, half_count) = v
            /\ at = "estimated" => estimate = v

\* The samples of all evaluations are in one vector, which is sorted in place
\* while it grows: sampling leaves the earlier ones as they are, and sorting
\* loses, adds and alters none.
KeepsSamples ==
    [][ /\ at = "loop" => IsPrefix(samples, samples')
        /\ at \in {"median of", "mode of"} =>
             /\ \A i \in 1 .. Len(samples') - 1 : samples'[i] <= samples'[i + 1]
             /\ \A v \in Range(samples) \cup Range(samples') :
                  Frequency(samples, v) = Frequency(samples', v)
      ]_svars

Sampling ==
    caller = "SampleUntilStable"
      /\ at \in {"loop", "median of", "mode of", "mode", "estimated"}

Failed == at \in {"aborted", "rejected"}

\* What Measure assumes of an estimate: see module Estimator.
Promise == INSTANCE Estimator WITH
    sampler <- IF Failed THEN "aborted" ELSE IF Sampling THEN "busy" ELSE "idle",
    eval <- IF Sampling \/ Failed
            THEN evaluation + (IF at \in {"estimated", "rejected"} THEN 1 ELSE 0)
            ELSE 0,
    est <- IF Sampling \/ Failed THEN estimate ELSE 0

\* SampleUntilStable is an Estimator: it makes at most max_evals evaluations,
\* and returns the estimate of the last one, and never without any.
ImplementsEstimator == Promise!EstimatorSpec

\* The resolution of the timer and the estimate of a duration, each with a
\* loop over halves inside, are found at last.
SamplingEnds == at # "idle" ~> at \in {"returned", "aborted", "rejected"}
=============================================================================
