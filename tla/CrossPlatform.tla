---------------------------- MODULE CrossPlatform ----------------------------
(***************************************************************************)
(* One engine on several platforms at once (src/vector128.h): how a block   *)
(* of memory is loaded into a register, what the AES instruction does to    *)
(* it, and where SwapIfBigEndian and RANDEN_LE turn bytes around.  A block  *)
(* of Sponge is here the register that every platform holds, its 16 bytes   *)
(* in the order in which the AES instruction of the platform counts them.   *)
(*                                                                         *)
(* x86: little-endian, AESNI.  ppc64le, ppc64: POWER in either byte order   *)
(* (both are RANDEN_PPC, and RANDEN_PPC implies RANDEN_BIG_ENDIAN).         *)
(* arm64: little-endian, ARMv8 crypto instructions.                         *)
(***************************************************************************)
EXTENDS Integers

CONSTANTS
    Platform,           \* those to compare, among "x86" ... "arm64"
    Widths,             \* sizeof(T): the engine seeds and returns words of T
    Value,              \* seeds, as words of eight bytes
    Buffer,             \* what seed sequences generate: 32-bit words
    PiDigits,           \* initializers of the keys, two lanes for every key
    Byte,               \* the bytes, with their
    XorByte(_, _),      \*   sum and
    Double(_),          \*   double in the field of AES, and the
    SubByte(_),         \*   substitution box of AES
    kFeistelBlocks, kFeistelRounds, shuffle,
    MaxGenerate

VARIABLES state, prev_inner, round, branch, keys, pc, gens

Lane == 0 .. 15

-----------------------------------------------------------------------------
(* Memory.  A word of n bytes is a function from 0 .. n - 1, the least      *)
(* significant byte first.                                                 *)

LittleEndian(p) == p # "ppc64"

RANDEN_BIG_ENDIAN(p) == p \in {"ppc64le", "ppc64"}

\* The 16 bytes of memory that n-byte words words[first], ... occupy.
InMemory(p, n, words, first) ==
    [m \in Lane |->
       LET word == words[first + m \div n]
       IN  word[IF LittleEndian(p) THEN m % n ELSE n - 1 - (m % n)]]

\* The leftmost byte of a POWER register is byte 0 to vcipher; in
\* little-endian mode it is loaded from, and stored to, the highest address.
Load(p, memory) ==
    [i \in Lane |-> memory[IF p = "ppc64le" THEN 15 - i ELSE i]]

Store(p, v) == [m \in Lane |-> v[IF p = "ppc64le" THEN 15 - m ELSE m]]

\* Word i, of n bytes, of the state in memory.
WordAt(p, n, i) ==
    LET memory == Store(p, state[(n * i) \div 16][p])
        first  == (n * i) % 16
    IN  [k \in 0 .. n - 1 |->
           memory[first + (IF LittleEndian(p) THEN k ELSE n - 1 - k)]]

ReverseBytes_PerLane(v) == [i \in Lane |-> v[IF i < 8 THEN 7 - i ELSE 23 - i]]

ReverseBytes(v) == [i \in Lane |-> v[15 - i]]

BSwap64(w) == [k \in 0 .. 7 |-> w[7 - k]]

RandenLE(p, a, b) ==
    IF RANDEN_BIG_ENDIAN(p) THEN <<BSwap64(b), BSwap64(a)>> ELSE <<a, b>>

-----------------------------------------------------------------------------
(* Registers.  Byte 4 * c + r is in row r and column c of the AES state.    *)

SubBytes(v) == [i \in Lane |-> SubByte(v[i])]

ShiftRows(v) == [i \in Lane |-> v[(i + 4 * (i % 4)) % 16]]

MixColumns(v) ==
    [i \in Lane |->
       LET In(d) == v[4 * (i \div 4) + ((i + d) % 4)]
       IN  XorByte(XorByte(Double(In(0)), XorByte(Double(In(1)), In(1))),
                   XorByte(In(2), In(3)))]

XorLanes(u, v) == [i \in Lane |-> XorByte(u[i], v[i])]

\* aesenc and vcipher add the round key last.  vaese adds it first and leaves
\* MixColumns to vaesmc.
AESRound(p, v, round_key) ==
    IF p = "arm64"
    THEN MixColumns(ShiftRows(SubBytes(XorLanes(v, round_key))))
    ELSE XorLanes(MixColumns(ShiftRows(SubBytes(v))), round_key)

-----------------------------------------------------------------------------
(* The engine: Sponge on all platforms in lockstep.                        *)

Block == [Platform -> [Lane -> Byte]]

Zero == [p \in Platform |-> [i \in Lane |-> 0]]

XOR(a, b) == [p \in Platform |-> XorLanes(a[p], b[p])]

AES(a, k) == [p \in Platform |-> AESRound(p, a[p], k[p])]

\* Load(keys, 0), keys having been advanced i times.
Key(i) ==
    [p \in Platform |->
       Load(p, InMemory(p, 8, RandenLE(p, PiDigits[2 * i + 1], PiDigits[2 * i + 2]), 1))]

SwapIfBigEndian_Never(a) == a

SwapIfBigEndian(a) ==
    [p \in Platform |->
       IF RANDEN_BIG_ENDIAN(p) THEN ReverseBytes(a[p]) ELSE a[p]]

\* seed(value) fills the outer part with copies of one word of T.
Seed ==
    {[p \in Platform |->
        Load(p, InMemory(p, n, [i \in 0 .. 15 |-> [k \in 0 .. n - 1 |-> value[k]]], 0))] :
       n \in Widths, value \in Value}

\* reseed hands Absorb a buffer of 32-bit words, whatever T is.
SeedBuffer ==
    {[b \in 0 .. kFeistelBlocks - 2 |->
        [p \in Platform |-> Load(p, InMemory(p, 4, buffer, 4 * b))]] :
       buffer \in Buffer}

INSTANCE Sponge

-----------------------------------------------------------------------------
Agree(p, q, n) ==
    \A i \in 0 .. kFeistelBlocks * (16 \div n) - 1 : WordAt(p, n, i) = WordAt(q, n, i)

\* Golden values without regard to the platform (randen_test.cc:89-148), and
\* one template for every T: platforms with the same byte order have the same
\* words of T, of every width, after every seed, reseed and Generate, although
\* POWER loads its registers, and keeps its keys, the other way around.
SameWords ==
    pc = "idle" =>
      \A n \in Widths, p, q \in Platform :
        LittleEndian(p) = LittleEndian(q) => Agree(p, q, n)

\* "Ensure results match little-endian platforms" (vector128.h:91-92): words
\* of uint64_t, the type of the golden values, are the same on all platforms.
SameWords64 ==
    pc = "idle" => \A p, q \in Platform : Agree(p, q, 8)
=============================================================================
