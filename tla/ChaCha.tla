------------------------------- MODULE ChaCha -------------------------------
(***************************************************************************)
(* The ChaCha engine of src/engine_chacha.h, which the benchmark compares   *)
(* Randen with.  Its only counter, ctr, counts words: ctr % 16 is the index *)
(* into the current block and ctr / 16 is the input of the next one, which  *)
(* is generated when the index is 0.  chacha_core keeps a row of the matrix *)
(* in a vector, and rotates the vectors to get at the diagonals.            *)
(***************************************************************************)
EXTENDS ChaChaCipher

CONSTANTS
    Seeds,          \* what keysetup can be set to
    constants,      \* the first row of the input
    filler,         \* 0xdeadbeef
    ToWord(_),      \* a number below Half as a word
    Half,           \* numbers of the low word of the 64-bit block counter
    step,           \* sizeof(result_type) / sizeof(uint32_t)
    Wrap            \* values of ctr

\* For words of 32 and 64 bits; a narrower result_type makes step zero.
ASSUME CounterAssumption ==
    /\ Half \in Nat \ {0}
    /\ Wrap \in Nat \ {0} /\ Wrap % 16 = 0
    /\ step \in {1, 2}

VARIABLES
    ctr,
    keysetup,
    block,
    ret         \* the words returned last

chachaVars == <<ctr, keysetup, block, ret>>

-----------------------------------------------------------------------------
XorV(x, y) == <<Xor(x[1], y[1]), Xor(x[2], y[2]), Xor(x[3], y[3]), Xor(x[4], y[4])>>

RotiV(x, c) == <<Rotate(x[1], c), Rotate(x[2], c), Rotate(x[3], c), Rotate(x[4], c)>>

\* CHACHA_ROTVn: the elements move n places to the left.
RotV1(x) == <<x[2], x[3], x[4], x[1]>>

RotV2(x) == <<x[3], x[4], x[1], x[2]>>

RotV3(x) == <<x[4], x[1], x[2], x[3]>>

\* Six operations on the vectors a, b, c, d that v holds.
MixV(v, r, s) ==
    LET a == AddRow(v[1], v[2])
        d == RotiV(XorV(v[4], a), r)
        c == AddRow(v[3], d)
        b == RotiV(XorV(v[2], c), s)
    IN  <<a, b, c, d>>

HalfIteration(v) == MixV(MixV(v, 16, 12), 8, 7)

ToDiagonals(v) == <<v[1], RotV1(v[2]), RotV2(v[3]), RotV3(v[4])>>

FromDiagonals_Again(v) == <<v[1], RotV1(v[2]), RotV2(v[3]), RotV3(v[4])>>

FromDiagonals(v) == <<v[1], RotV3(v[2]), RotV2(v[3]), RotV1(v[4])>>

Iteration(v) == FromDiagonals(HalfIteration(ToDiagonals(HalfIteration(v))))

\* chacha_core: R = 8, two rounds per iteration.
Core(m) == Iteration(Iteration(Iteration(Iteration(m))))

\* The input of block number n.
Input(setup, n) ==
    <<constants,
      <<setup[1], setup[2], setup[3], setup[4]>>,
      <<setup[5], setup[6], setup[7], setup[8]>>,
      <<ToWord(n % Half), ToWord(n \div Half), filler, filler>>>>

\* generate_block.
GeneratedBlock(setup, n) ==
    AddMatrix(Core(Input(setup, n)), Input(setup, n))

NoWords == [k \in 0 .. -1 |-> 0]

\* The constructors seed; the block is not initialized.
CInit ==
    /\ ctr = 0
    /\ keysetup \in Seeds
    /\ block = <<constants, constants, constants, constants>>
    /\ ret = NoWords

CSeed_KeepsCounter(setup) ==
    /\ keysetup' = setup
    /\ ret' = NoWords
    /\ UNCHANGED <<ctr, block>>

\* Both forms of seed.
CSeed(setup) ==
    /\ ctr' = 0
    /\ keysetup' = setup
    /\ ret' = NoWords
    /\ UNCHANGED block

\* operator().
CCall ==
    LET idx == ctr % 16
        b   == IF idx = 0 THEN GeneratedBlock(keysetup, ctr \div 16) ELSE block
    IN  /\ block' = b
        /\ ret' = [k \in 0 .. step - 1 |-> WordOf(b, idx + k)]
        /\ ctr' = (ctr + step) % Wrap
        /\ UNCHANGED keysetup

CNext ==
    \/ \E setup \in Seeds : CSeed(setup)
    \/ CCall

CSpec == CInit /\ [][CNext]_chachaVars

-----------------------------------------------------------------------------
(* Properties.                                                             *)

\* The block in mid-use belongs to the counter and the key, whatever was
\* seeded and drawn before; seed relies on index 0 to have it rebuilt, and a
\* 64-bit word never reaches over the end of the block.
BlockIsCurrent ==
    ctr % 16 # 0 =>
      /\ block = Cipher(Input(keysetup, ctr \div 16))
      /\ (ctr % 16) + step <= 16

\* Word p of the key stream of ChaCha8.
KeyStream(setup, p) == WordOf(Cipher(Input(setup, p \div 16)), p % 16)

CipherTape == INSTANCE WordTape WITH
    Keys <- Seeds, Tape <- KeyStream, width <- step, Length <- Wrap,
    key <- keysetup, pos <- ctr, out <- ret

\* The engine returns the key stream of ChaCha8 from its start after every
\* seed, no word twice and none left out, although vectors compute it, the
\* counter doubles as an index, and seeding leaves the old block in place.
ImplementsChaCha == CipherTape!Spec
=============================================================================
