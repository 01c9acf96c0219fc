SPECIFICATION Spec
CONSTANTS
    Platform = {"x86", "ppc64"}
    Widths = {8}
    Value <- MCValue
    Buffer <- MCBuffer
    PiDigits <- MCPiDigits
    Byte <- MCByte
    XorByte <- MCXorByte
    Double <- MCDouble
    SubByte <- MCSubByte
    kFeistelBlocks = 4
    kFeistelRounds = 3
    shuffle <- MCShuffle
    MaxGenerate = 1
INVARIANTS
    SameWords64
