------------------------------ MODULE MCPermute ------------------------------
(* The network of randen.cc at its real size, 16 blocks and 17 rounds, on   *)
(* blocks of two bits, with everything that is observed of it side by side: *)
(* the round as it is defined, the dependencies, and a second buffer.       *)
EXTENDS SpongeRounds, Diffusion, PermutePair, RustSponge, Bitwise

MCNext == HNext /\ DNext /\ PNext /\ RNext

MCInit == HInit /\ DInit /\ PInit /\ RInit

MCSpec == MCInit /\ [][MCNext]_<<hvars, dvars, pvars, rvars>>

\* The table of BlockShuffle (randen.cc:205-206), as sequences count from 1.
Table == <<7, 2, 13, 4, 11, 8, 3, 6, 15, 0, 9, 10, 1, 14, 5, 12>>

MCShuffle == [b \in 0 .. 15 |-> Table[b + 1]]

ASSUME TableAssumption == SameNetwork

\* The table diffuses fully in eight rounds, and twice that fits in the 17.
Dependencies[n \in 0 .. 8] ==
    IF n = 0 THEN Identity ELSE AfterRound(Dependencies[n - 1])

ASSUME DiffusionAssumption == FullAfter(Dependencies, 8) /\ 2 * 8 <= kFeistelRounds

MCXOR(a, b) == a ^^ b

\* Not injective: the network must not need that of the substitution.
Substitute(a) == (3 * a + 1 + (a \div 2)) % 4

MCAES(a, k) == Substitute(a) ^^ k

MCKey(i) == (i + (i \div 2) + (i \div 8) + (i \div 32)) % 4

\* A platform that defines RANDEN_BIG_ENDIAN: the two bits change places.
MCSwap(a) == ((2 * a) % 4) + (a \div 2)

MCSeedBuffer == {[i \in 0 .. 14 |-> i % 4]}

\* What Permute is entered with after seed(0) and seed(1), but for one block.
MCOthers ==
    {[[c \in Branch |-> IF c = 0 THEN 0 ELSE MCSwap(v)] EXCEPT ![b] = 3] :
       v \in Seed, b \in Branch}
=============================================================================
