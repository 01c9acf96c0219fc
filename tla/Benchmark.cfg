SPECIFICATION MCSpec
CHECK_DEADLOCK FALSE
CONSTANTS
    Bits = 4
    Fraction = 3
    Bias = 7
    Sizes = {3, 4, 5}
    kNumChosen = 2
    Durations = {0, 1, 3, 6}
    Ticks = 8
    ticks_per_eval = 3
    min_samples_per_eval = 2
    min_mode_samples = 5
    max_evals = 2
    kTimerSamples = 3
    timer_resolution = 1
    Tolerances <- MCTolerances
    NANOBENCHMARK_ENABLE_CHECKS = FALSE
INVARIANTS
    InInterval
    LoopCanEnd
    SingleCycle
    SampleOfSeen
    NumbersPerCall
    ReadsInside
    MajorityWins
PROPERTIES
    KeepsSamples
    ImplementsEstimator
    SamplingEnds
