------------------------------- MODULE Sponge -------------------------------
(***************************************************************************)
(* The sponge of src/randen.cc: Internal::Absorb and Internal::Generate on *)
(* one buffer of kFeistelBlocks 128-bit blocks, block 0 being the inner    *)
(* part.  Generate runs in place: it remembers the inner block, makes      *)
(* kFeistelRounds rounds of a type-2 Feistel network, every round one      *)
(* function per pair of blocks followed by a shuffle of the blocks, and    *)
(* folds the remembered block back into the inner one.  A step of the      *)
(* module is one function, or one shuffle.                                 *)
(*                                                                         *)
(* Blocks, AES, the keys and SwapIfBigEndian are parameters, so that the   *)
(* same network runs on toy blocks, on no data at all in module Diffusion  *)
(* and on the registers of several platforms in module CrossPlatform.      *)
(***************************************************************************)
EXTENDS Integers

CONSTANTS
    kFeistelBlocks,     \* blocks of the state
    kFeistelRounds,     \* rounds of Permute
    shuffle,            \* block b of a shuffled state is block shuffle[b]
    Block,              \* values of a block
    Zero,               \* the block of zeros
    XOR(_, _),          \* exclusive or of two blocks
    AES(_, _),          \* AES(state, round_key)
    Key(_),             \* Key(i): the i-th round key
    SwapIfBigEndian(_), \* of one block; the identity unless RANDEN_BIG_ENDIAN
    Seed,               \* blocks that seed(value) fills the outer part with
    SeedBuffer,         \* what a seed sequence fills reseed's buffer with
    MaxGenerate         \* bound: runs of Generate after a seed

Branch == 0 .. kFeistelBlocks - 1

kFeistelFunctions == kFeistelBlocks \div 2

kKeys == kFeistelRounds * kFeistelFunctions

\* randen.cc:44-53, 204: whole pairs, and the shuffle is a permutation.
ASSUME NetworkAssumption ==
    /\ kFeistelBlocks \in Nat \ {0}
    /\ kFeistelRounds \in Nat \ {0}
    /\ kFeistelBlocks = 2 * kFeistelFunctions
    /\ shuffle \in [Branch -> Branch]
    /\ \A b \in Branch : \E c \in Branch : shuffle[c] = b

ASSUME BoundAssumption == MaxGenerate \in Nat

\* Blocks are closed under what is done to them.
ASSUME BlockAssumption ==
    /\ Zero \in Block
    /\ Seed \subseteq Block
    /\ SeedBuffer \subseteq [0 .. kFeistelBlocks - 2 -> Block]
    /\ \A a, b \in Block : XOR(a, b) \in Block /\ AES(a, b) \in Block
    /\ \A i \in 0 .. kKeys - 1 : Key(i) \in Block
    /\ \A a \in Block : SwapIfBigEndian(a) \in Block

VARIABLES
    state,          \* the buffer
    prev_inner,     \* Generate's copy of the inner block
    round, branch,  \* Permute's loop counters
    keys,           \* how far Permute's pointer into the keys has advanced
    pc,             \* "idle", or where Generate is
    gens            \* runs of Generate so far

vars == <<state, prev_inner, round, branch, keys, pc, gens>>

-----------------------------------------------------------------------------
\* The Feistel function of one pair; the XOR into the odd block is the key
\* addition of the second AES subround.
Function(even, odd, k) == AES(AES(even, Key(k)), odd)

\* Without the copy, blocks already moved are read again.
Shuffled_InPlace(st) ==
    LET moved[b \in Branch] ==
          IF shuffle[b] < b THEN moved[shuffle[b]] ELSE st[shuffle[b]]
    IN  moved

\* BlockShuffle reads from a copy of the state.
Shuffled(st) == [b \in Branch |-> st[shuffle[b]]]

\* SwapIfBigEndian goes over all blocks, the inner one included.
Swapped(st) == [b \in Branch |-> SwapIfBigEndian(st[b])]

Seeded(v) == [b \in Branch |-> IF b = 0 THEN Zero ELSE v]

Init ==
    /\ state \in {Seeded(v) : v \in Seed}
    /\ prev_inner = Zero
    /\ round = 0
    /\ branch = 0
    /\ keys = 0
    /\ pc = "idle"
    /\ gens = 0

\* seed(value), from the engine.
Reset(v) ==
    /\ pc = "idle"
    /\ state' = Seeded(v)
    /\ gens' = 0
    /\ UNCHANGED <<prev_inner, round, branch, keys, pc>>

\* The seed is XOR-ed into the blocks after the inner one.
Absorbed(st, seed) ==
    [b \in Branch |-> IF b = 0 THEN st[b] ELSE XOR(st[b], seed[b - 1])]

Absorb(seed) ==
    /\ pc = "idle"
    /\ state' = Absorbed(state, seed)
    /\ UNCHANGED <<prev_inner, round, branch, keys, pc, gens>>

Begin_KeepsKeys ==
    /\ pc = "idle"
    /\ gens < MaxGenerate
    /\ prev_inner' = state[0]
    /\ state' = Swapped(state)
    /\ round' = 0
    /\ branch' = 0
    /\ pc' = "permute"
    /\ UNCHANGED <<keys, gens>>

\* Generate is entered: Permute starts with the first key.
Begin ==
    /\ pc = "idle"
    /\ gens < MaxGenerate
    /\ prev_inner' = state[0]
    /\ state' = Swapped(state)
    /\ round' = 0
    /\ branch' = 0
    /\ keys' = 0
    /\ pc' = "permute"
    /\ UNCHANGED gens

FeistelFunction_IntoEven ==
    /\ pc = "permute"
    /\ branch < kFeistelBlocks
    /\ state' = [state EXCEPT
                   ![branch] = Function(@, state[branch + 1], keys)]
    /\ keys' = keys + 1
    /\ branch' = branch + 2
    /\ UNCHANGED <<prev_inner, round, pc, gens>>

\* One function of the inner loop of Permute.
FeistelFunction ==
    /\ pc = "permute"
    /\ branch < kFeistelBlocks
    /\ state' = [state EXCEPT
                   ![branch + 1] = Function(state[branch], @, keys)]
    /\ keys' = keys + 1
    /\ branch' = branch + 2
    /\ UNCHANGED <<prev_inner, round, pc, gens>>

MoreRounds_OffByOne(r) == r <= kFeistelRounds

\* The condition of the outer loop of Permute.
MoreRounds(r) == r < kFeistelRounds

\* The end of a round.
BlockShuffle ==
    /\ pc = "permute"
    /\ branch >= kFeistelBlocks
    /\ state' = Shuffled(state)
    /\ round' = round + 1
    /\ branch' = 0
    /\ pc' = IF MoreRounds(round + 1) THEN "permute" ELSE "finish"
    /\ UNCHANGED <<prev_inner, keys, gens>>

\* Generate returns.
Finish ==
    /\ pc = "finish"
    /\ state' = [Swapped(state) EXCEPT ![0] = XOR(@, prev_inner)]
    /\ gens' = gens + 1
    /\ pc' = "idle"
    /\ UNCHANGED <<prev_inner, round, branch, keys>>

GenerateStep == Begin \/ FeistelFunction \/ BlockShuffle \/ Finish

Next ==
    \/ \E v \in Seed : Reset(v)
    \/ \E seed \in SeedBuffer : Absorb(seed)
    \/ GenerateStep

Spec == Init /\ [][Next]_vars

-----------------------------------------------------------------------------
(* Properties.                                                             *)

TypeOK ==
    /\ state \in [Branch -> Block]
    /\ prev_inner \in Block
    /\ round \in 0 .. kFeistelRounds
    /\ branch \in 0 .. kFeistelBlocks
    /\ keys \in 0 .. kKeys
    /\ pc \in {"idle", "permute", "finish"}
    /\ gens \in 0 .. MaxGenerate

\* Permute's pointer (randen.cc:219, 238) is at the key of the function it is
\* about to compute: no read past the kKeys keys, none used twice, and all of
\* them used when Permute returns ("independent keys", line 52).
KeyPerFunction ==
    /\ pc = "permute" =>
         /\ 2 * keys = round * kFeistelBlocks + branch
         /\ branch < kFeistelBlocks => keys < kKeys
    /\ pc = "finish" => keys = kKeys
=============================================================================
