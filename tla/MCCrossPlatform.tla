-------------------------- MODULE MCCrossPlatform --------------------------
(* The bytes of AES as they are, a network of four blocks and three rounds, *)
(* and the first keys of randen.cc.                                         *)
EXTENDS CrossPlatform, Sequences, Bitwise, TLC

MCShuffle == (0 :> 3) @@ (1 :> 0) @@ (2 :> 1) @@ (3 :> 2)

MCByte == 0 .. 255

Nibble == [a, b \in 0 .. 15 |-> a ^^ b]

MCXorByte(a, b) ==
    (16 * Nibble[a \div 16, b \div 16]) + Nibble[a % 16, b % 16]

\* In the field of AES, with its polynomial.
MCDouble(a) == IF a < 128 THEN 2 * a ELSE MCXorByte(2 * a - 256, 27)

\* The substitution box of AES (FIPS 197).
SBox ==
    << 99, 124, 119, 123, 242, 107, 111, 197,  48,   1, 103,  43, 254, 215, 171, 118,
     202, 130, 201, 125, 250,  89,  71, 240, 173, 212, 162, 175, 156, 164, 114, 192,
     183, 253, 147,  38,  54,  63, 247, 204,  52, 165, 229, 241, 113, 216,  49,  21,
       4, 199,  35, 195,  24, 150,   5, 154,   7,  18, 128, 226, 235,  39, 178, 117,
       9, 131,  44,  26,  27, 110,  90, 160,  82,  59, 214, 179,  41, 227,  47, 132,
      83, 209,   0, 237,  32, 252, 177,  91, 106, 203, 190,  57,  74,  76,  88, 207,
     208, 239, 170, 251,  67,  77,  51, 133,  69, 249,   2, 127,  80,  60, 159, 168,
      81, 163,  64, 143, 146, 157,  56, 245, 188, 182, 218,  33,  16, 255, 243, 210,
     205,  12,  19, 236,  95, 151,  68,  23, 196, 167, 126,  61, 100,  93,  25, 115,
      96, 129,  79, 220,  34,  42, 144, 136,  70, 238, 184,  20, 222,  94,  11, 219,
     224,  50,  58,  10,  73,   6,  36,  92, 194, 211, 172,  98, 145, 149, 228, 121,
     231, 200,  55, 109, 141, 213,  78, 169, 108,  86, 244, 234, 101, 122, 174,   8,
     186, 120,  37,  46,  28, 166, 180, 198, 232, 221, 116,  31,  75, 189, 139, 138,
     112,  62, 181, 102,  72,   3, 246,  14,  97,  53,  87, 185, 134, 193,  29, 158,
     225, 248, 152,  17, 105, 217, 142, 148, 155,  30, 135, 233, 206,  85,  40, 223,
     140, 161, 137,  13, 191, 230,  66, 104,  65, 153,  45,  15, 176,  84, 187,  22>>

MCSubByte(a) == SBox[a + 1]

\* A word whose least significant byte comes first.
Word(bytes) == [k \in 0 .. Len(bytes) - 1 |-> bytes[k + 1]]

\* randen.cc:59-64.
MCPiDigits ==
  <<Word(<<211, 8, 163, 133, 136, 106, 63, 36>>),
    Word(<<68, 115, 112, 3, 46, 138, 25, 19>>),
    Word(<<208, 49, 159, 41, 34, 56, 9, 164>>),
    Word(<<137, 108, 78, 236, 152, 250, 46, 8>>),
    Word(<<119, 19, 208, 56, 230, 33, 40, 69>>),
    Word(<<108, 12, 233, 52, 207, 102, 84, 190>>),
    Word(<<221, 80, 124, 201, 183, 41, 172, 192>>),
    Word(<<23, 9, 71, 181, 181, 213, 132, 63>>),
    Word(<<27, 251, 121, 137, 217, 213, 22, 146>>),
    Word(<<172, 181, 223, 152, 166, 11, 49, 209>>),
    Word(<<183, 223, 26, 208, 219, 114, 253, 47>>),
    Word(<<150, 126, 38, 106, 237, 175, 225, 184>>)>>

MCValue == {Word(<<1, 2, 3, 4, 5, 6, 7, 8>>), Word(<<0, 0, 0, 0, 0, 0, 0, 0>>)}

MCBuffer ==
    {[i \in 0 .. 11 |-> [k \in 0 .. 3 |-> 16 * i + k]]}

\* Buffers that have each 32-bit word twice, so that the order of the words
\* within a 64-bit word does not show.
MCPairedBuffer ==
    {[i \in 0 .. 11 |-> [k \in 0 .. 3 |-> 16 * (i \div 2) + k]],
     [i \in 0 .. 11 |-> [k \in 0 .. 3 |-> i \div 2]]}

-----------------------------------------------------------------------------
\* The vectors of TestAes (vector128_test.cc:64-82) say that the bytes above
\* and AESRound are AES.
Message ==
    <<Word(<<255, 238, 221, 204, 187, 170, 153, 136>>),
      Word(<<239, 205, 171, 137, 103, 69, 35, 1>>)>>

RoundKey ==
    <<Word(<<238, 204, 170, 136, 102, 68, 34, 0>>),
      Word(<<255, 221, 187, 153, 119, 85, 51, 17>>)>>

Expected ==
    <<Word(<<51, 67, 80, 132, 24, 238, 228, 40>>),
      Word(<<237, 66, 196, 223, 87, 14, 171, 22>>)>>

ASSUME TestAes ==
    \A p \in Platform \ {"arm64"} :
      LET Vector(lanes) ==
            Load(p, InMemory(p, 8, RandenLE(p, lanes[1], lanes[2]), 1))
      IN  AESRound(p, Vector(Message), Vector(RoundKey)) = Vector(Expected)
=============================================================================
