SPECIFICATION Spec
CONSTANTS
    Platform = {"x86", "ppc64le", "ppc64"}
    Widths = {1, 2, 4, 8}
    Value <- MCValue
    Buffer <- MCPairedBuffer
    PiDigits <- MCPiDigits
    Byte <- MCByte
    XorByte <- MCXorByte
    Double <- MCDouble
    SubByte <- MCSubByte
    kFeistelBlocks = 4
    kFeistelRounds = 3
    shuffle <- MCShuffle
    MaxGenerate = 2
INVARIANTS
    SameWords
    SameWords64
