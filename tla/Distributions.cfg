SPECIFICATION Spec
CONSTANTS
    Bits = 4
    Fraction = 3
    Bias = 7
INVARIANTS
    InInterval
    LoopCanEnd
