---------------------------- MODULE SpongeRounds ----------------------------
(***************************************************************************)
(* Sponge with one history variable, the buffer as it was when the round   *)
(* began, and the statement that the in-place loops of Permute compute the *)
(* rounds of FeistelRounds.                                                *)
(***************************************************************************)
EXTENDS Sponge

VARIABLE before     \* history: the buffer when the current round began

hvars == <<vars, before>>

HInit == Init /\ before = state

HNext ==
    /\ Next
    /\ before' = IF FeistelFunction THEN before ELSE state'

HSpec == HInit /\ [][HNext]_hvars

\* Inside a round (randen.cc:226-239) the odd blocks below branch have been
\* replaced, each from the even block beside it as it was when the round
\* began, and nothing else has: no function sees the result of another one.
InPlace ==
    \A b \in Branch :
      state[b] =
        IF pc = "permute" /\ b < branch /\ b % 2 = 1
        THEN Function(before[b - 1], before[b],
                      round * kFeistelFunctions + b \div 2)
        ELSE before[b]

Rounds == INSTANCE FeistelRounds WITH
    buffer <- before, inner <- prev_inner, r <- round,
    busy <- pc # "idle", runs <- gens

\* Every BlockShuffle completes a round of the network as it is defined.
ImplementsRounds == Rounds!Spec
=============================================================================
