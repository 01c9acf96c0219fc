SPECIFICATION FairSpec
CHECK_DEADLOCK FALSE
CONSTANTS
    Input = {1, 2}
    Times <- MCTimes
    subset_ratio = 2
    Mod = 6
    max_evals = 2
    precision_divisor = 2
    Ticks = 3
    timer_resolution = 1
    NANOBENCHMARK_ENABLE_CHECKS = FALSE
INVARIANTS
    SubsetOfFull
    NothingDropped
    OneResultPerInput
    DurationExact
PROPERTIES
    Terminates
