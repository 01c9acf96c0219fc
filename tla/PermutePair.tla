----------------------------- MODULE PermutePair -----------------------------
(***************************************************************************)
(* Two buffers going through Permute (src/randen.cc:217-242) side by side: *)
(* "cryptographic permutation" says that what differs going in differs     *)
(* coming out, so that no run of it loses entropy.  Permute does not look  *)
(* at the data to decide what to do, so the two go through the same steps. *)
(***************************************************************************)
EXTENDS Sponge

CONSTANT Others     \* buffers that Permute is also entered with

\* The XOR of the second AES subround: for one state, different round keys
\* give different results (vector128.h:150-163).
ASSUME KeyAdditionAssumption ==
    \A s, a, b \in Block : AES(s, a) = AES(s, b) => a = b

ASSUME OthersAssumption == Others \subseteq [Branch -> Block]

VARIABLE other      \* the second buffer

pvars == <<vars, other>>

PInit == Init /\ other = state

\* Permute is entered with a second buffer that differs from the first.
PBegin == Begin /\ other' \in Others \ {state'}

PFunction ==
    /\ FeistelFunction
    /\ other' = [other EXCEPT
                   ![branch + 1] = Function(other[branch], @, keys)]

PShuffle == BlockShuffle /\ other' = Shuffled(other)

\* Outside Permute there is no second buffer.
POther ==
    /\ \/ \E v \in Seed : Reset(v)
       \/ \E seed \in SeedBuffer : Absorb(seed)
       \/ Finish
    /\ other' = state'

PNext == PBegin \/ PFunction \/ PShuffle \/ POther

PSpec == PInit /\ [][PNext]_pvars

\* Permute maps different buffers to different buffers, at every point of it.
StayDifferent == pc # "idle" => state # other
=============================================================================
