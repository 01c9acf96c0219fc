SPECIFICATION MCSpec
CONSTANTS
    kFeistelBlocks = 16
    kFeistelRounds = 17
    shuffle <- MCShuffle
    Block = {0, 1, 2, 3}
    Zero = 0
    XOR <- MCXOR
    AES <- MCAES
    Key <- MCKey
    SwapIfBigEndian <- MCSwap
    Seed = {0, 1}
    SeedBuffer <- MCSeedBuffer
    Others <- MCOthers
    MaxGenerate = 1
INVARIANTS
    TypeOK
    KeyPerFunction
    InPlace
    TwoFullDiffusions
    StayDifferent
    SameAsPort
PROPERTIES
    ImplementsRounds
