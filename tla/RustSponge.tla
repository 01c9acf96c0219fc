----------------------------- MODULE RustSponge -----------------------------
(***************************************************************************)
(* The sponge of the Rust port, src/contrib/rust/src/lib.rs, next to the    *)
(* one of randen.cc: it has a shuffle table of its own, an iterator over    *)
(* the keys, and loops over pairs of blocks.  It is written for             *)
(* little-endian machines; a machine that swaps has its states converted.   *)
(* The port makes a function when randen.cc makes one, and a shuffle when   *)
(* it shuffles.                                                             *)
(***************************************************************************)
EXTENDS Sponge

\* Bytes are reversed, and added one by one.
ASSUME SwapAssumption ==
    \A a, b \in Block :
      /\ SwapIfBigEndian(SwapIfBigEndian(a)) = a
      /\ SwapIfBigEndian(XOR(a, b)) = XOR(SwapIfBigEndian(a), SwapIfBigEndian(b))
      /\ SwapIfBigEndian(Zero) = Zero /\ XOR(Zero, a) = a

VARIABLES
    port,           \* the state of the port, a sequence
    port_inner,     \* randen_generate's prev_inner
    port_round,     \* permute's iterations so far,
    port_branch,    \*   and its number of the pair
    port_keys       \* what permute's iterator over the keys has returned

portVars == <<port, port_inner, port_round, port_branch, port_keys>>

rvars == <<vars, portVars>>

STATE_LEN == 16

FEISTEL_FUNCTIONS == 8

FEISTEL_ROUNDS == 17

\* Counting from 0.
RustTable == <<7, 2, 13, 4, 11, 8, 3, 6, 15, 0, 9, 10, 1, 14, 5, 12>>

\* The network that randen.cc has to have for the two to agree.
SameNetwork ==
    /\ kFeistelBlocks = STATE_LEN
    /\ kFeistelRounds = FEISTEL_ROUNDS
    /\ \A b \in Branch : shuffle[b] = RustTable[b + 1]

block_shuffle(source) == [k \in 1 .. STATE_LEN |-> source[RustTable[k] + 1]]

\* randen_generate is entered, and permute.
RustBegin ==
    /\ port_inner' = port[1]
    /\ port_round' = 0
    /\ port_branch' = 0
    /\ port_keys' = 0
    /\ UNCHANGED port

RustFunction_FirstKeys ==
    /\ port_round < FEISTEL_ROUNDS
    /\ port_branch < FEISTEL_FUNCTIONS
    /\ port' = [port EXCEPT
                  ![2 * port_branch + 2] =
                    AES(AES(port[2 * port_branch + 1], Key(port_branch)), @)]
    /\ port_keys' = port_keys + 1
    /\ port_branch' = port_branch + 1
    /\ UNCHANGED <<port_inner, port_round>>

\* A function of the inner loop of permute.  Odd blocks are at even places of
\* a sequence.
RustFunction ==
    /\ port_round < FEISTEL_ROUNDS
    /\ port_branch < FEISTEL_FUNCTIONS
    /\ port' = [port EXCEPT
                  ![2 * port_branch + 2] =
                    AES(AES(port[2 * port_branch + 1], Key(port_keys)), @)]
    /\ port_keys' = port_keys + 1
    /\ port_branch' = port_branch + 1
    /\ UNCHANGED <<port_inner, port_round>>

\* The end of an iteration of the outer loop.
RustShuffle ==
    /\ port_round < FEISTEL_ROUNDS
    /\ port_branch = FEISTEL_FUNCTIONS
    /\ port' = block_shuffle(port)
    /\ port_round' = port_round + 1
    /\ port_branch' = 0
    /\ UNCHANGED <<port_inner, port_keys>>

\* permute returns, and randen_generate.
RustFinish ==
    /\ port_round = FEISTEL_ROUNDS
    /\ port' = [port EXCEPT ![1] = XOR(@, port_inner)]
    /\ UNCHANGED <<port_inner, port_round, port_branch, port_keys>>

\* seed has as many blocks as the state after its first one.
randen_absorb(s, seed) ==
    [b \in 1 .. STATE_LEN |-> IF b = 1 THEN s[b] ELSE XOR(s[b], seed[b - 1])]

new_unseeded == [b \in 1 .. STATE_LEN |-> Zero]

from_seed(seed) == randen_absorb(new_unseeded, seed)

\* The entropy for randen.cc, converted.
Converted(seed) == [k \in 1 .. STATE_LEN - 1 |-> SwapIfBigEndian(seed[k - 1])]

FromSeed(v) == from_seed([k \in 1 .. STATE_LEN - 1 |-> SwapIfBigEndian(v)])

RInit ==
    /\ Init
    /\ port = FromSeed(state[1])
    /\ port_inner = Zero
    /\ port_round = 0
    /\ port_branch = 0
    /\ port_keys = 0

RNext ==
    \/ \E v \in Seed :
         /\ Reset(v)
         /\ port' = FromSeed(v)
         /\ UNCHANGED <<port_inner, port_round, port_branch, port_keys>>
    \/ \E seed \in SeedBuffer :
         /\ Absorb(seed)
         /\ port' = randen_absorb(port, Converted(seed))
         /\ UNCHANGED <<port_inner, port_round, port_branch, port_keys>>
    \/ Begin /\ RustBegin
    \/ FeistelFunction /\ RustFunction
    \/ BlockShuffle /\ RustShuffle
    \/ Finish /\ RustFinish

RSpec == RInit /\ [][RNext]_rvars

-----------------------------------------------------------------------------
\* The tests of the port expect the words "generated from the reference C++
\* implementation" (lib.rs:418-419), for one seed: the two states are equal,
\* block by block, after every function and every round and after every mix
\* of seeds, absorbed entropy and generates; the iterator over the keys never
\* runs dry; and the loops of the port end where those of randen.cc do, which
\* is that none of its guards holds up a step of randen.cc.
SameAsPort ==
    /\ \A b \in Branch :
         port[b + 1] = IF pc = "idle" THEN SwapIfBigEndian(state[b]) ELSE state[b]
    /\ port_keys <= kKeys
    /\ pc # "idle" => (port_round < FEISTEL_ROUNDS <=> pc = "permute")
    /\ pc = "permute" => (port_branch < FEISTEL_FUNCTIONS <=> branch < kFeistelBlocks)
=============================================================================
