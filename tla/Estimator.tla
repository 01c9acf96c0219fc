----------------------------- MODULE Estimator -----------------------------
(***************************************************************************)
(* What Measure relies on of SampleUntilStable (src/nanobenchmark.cc): a    *)
(* single measurement, and then at most max_evals evaluations.  Each yields *)
(* an estimate, and the last one is returned, after any of them.  Which     *)
(* ticks an evaluation yields and whether they are stable is left open.     *)
(***************************************************************************)
EXTENDS Integers

CONSTANTS
    max_evals,                      \* Params::max_evals
    Ticks,                          \* the timer's numbers of ticks
    NANOBENCHMARK_ENABLE_CHECKS     \* FALSE unless defined by the build

ASSUME EstimatorAssumption ==
    /\ max_evals \in Nat
    /\ Ticks \in Nat \ {0}
    /\ NANOBENCHMARK_ENABLE_CHECKS \in BOOLEAN

VARIABLES
    sampler,    \* "idle", "busy" or "aborted"
    eval,       \* evaluations so far
    est         \* the current estimate

estVars == <<sampler, eval, est>>

Tick == 0 .. Ticks - 1

EstimatorInit ==
    /\ sampler = "idle"
    /\ eval = 0
    /\ est = 0

\* The single measurement that SampleUntilStable starts with is a divisor: a
\* zero traps on x86 and is a quotient like another on ARM64.
SampleBegin(t) ==
    /\ sampler = "idle"
    /\ sampler' \in IF t = 0 THEN {"busy", "aborted"} ELSE {"busy"}
    /\ eval' = 0
    /\ est' = t

MoreEvals_Forever == eval < max_evals \/ max_evals > 0

MoreEvals == eval < max_evals

Rejected(t) == NANOBENCHMARK_ENABLE_CHECKS /\ t = 0

Evaluate(t) ==
    /\ sampler = "busy"
    /\ MoreEvals
    /\ sampler' = IF Rejected(t) THEN "aborted" ELSE "busy"
    /\ eval' = IF eval < max_evals THEN eval + 1 ELSE eval
    /\ est' = t

\* SampleUntilStable returns t: the evaluation is stable, or there is none left.
SampleReturn(t) ==
    /\ sampler = "busy"
    /\ eval > 0 \/ max_evals = 0
    /\ t = est
    /\ sampler' = "idle"
    /\ eval' = 0
    /\ est' = 0

EstimatorNext ==
    \E t \in Tick : SampleBegin(t) \/ Evaluate(t) \/ SampleReturn(t)

EstimatorSpec == EstimatorInit /\ [][EstimatorNext]_estVars
=============================================================================
