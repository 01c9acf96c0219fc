SPECIFICATION MCSpec
CONSTANTS
    STATE_BYTES = 40
    CAPACITY_BYTES = 16
    Sizes = {4, 8}
    Lengths <- MCLengths
    MaxGens = 5
    Add <- MCAdd
    Xor <- MCXor
    Rotate <- MCRotate
    Seeds <- MCSeeds
    constants <- MCConstants
    filler <- MCFiller
    ToWord <- MCToWord
    Half = 2
    step = 2
    Wrap = 64
    kStateT = 4
    MaxReads = 3
CHECK_DEADLOCK FALSE
INVARIANTS
    TypeOK
    OuterBytesOnly
    BlockIsCurrent
    BufferIsFresh
PROPERTIES
    ImplementsTape
    FillTerminates
    ImplementsChaCha
    ImplementsDevice
