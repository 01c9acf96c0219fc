--------------------------- MODULE FeistelRounds ---------------------------
(***************************************************************************)
(* The sponge as its papers define it (src/randen.cc:20-42): a round is one *)
(* function of the whole state.  All kFeistelFunctions functions act on     *)
(* the blocks as they were when the round began, then all blocks move.      *)
(* Module Sponge computes the same in place, one pair after the other;      *)
(* SpongeRounds states that it implements this module.                      *)
(***************************************************************************)
EXTENDS Integers

CONSTANTS kFeistelBlocks, kFeistelRounds, shuffle, Zero, XOR(_, _), AES(_, _),
          Key(_), SwapIfBigEndian(_), Seed, SeedBuffer, MaxGenerate

VARIABLES
    buffer,     \* the state between two rounds
    inner,      \* the inner block Generate started with
    r,          \* rounds made; kFeistelRounds once Permute is done
    busy,       \* Generate is running
    runs        \* runs of Generate so far

vars == <<buffer, inner, r, busy, runs>>

Blocks == 0 .. kFeistelBlocks - 1

\* Blocks come in pairs <<even, odd>>; pair p of round q has key
\* q * (kFeistelBlocks / 2) + p.
Round(st, q) ==
    [b \in Blocks |->
       LET c == shuffle[b]
           p == c \div 2
       IN  IF c = 2 * p
           THEN st[c]
           ELSE AES(AES(st[c - 1], Key(q * (kFeistelBlocks \div 2) + p)), st[c])]

Init ==
    /\ buffer \in {[b \in Blocks |-> IF b = 0 THEN Zero ELSE v] : v \in Seed}
    /\ inner = Zero
    /\ r = 0
    /\ busy = FALSE
    /\ runs = 0

Refill(v) ==
    /\ ~busy
    /\ buffer' = [b \in Blocks |-> IF b = 0 THEN Zero ELSE v]
    /\ runs' = 0
    /\ UNCHANGED <<inner, r, busy>>

AddEntropy(seed) ==
    /\ ~busy
    /\ buffer' = [b \in Blocks |-> IF b = 0 THEN buffer[b]
                                   ELSE XOR(buffer[b], seed[b - 1])]
    /\ UNCHANGED <<inner, r, busy, runs>>

Start ==
    /\ ~busy
    /\ runs < MaxGenerate
    /\ inner' = buffer[0]
    /\ buffer' = [b \in Blocks |-> SwapIfBigEndian(buffer[b])]
    /\ r' = 0
    /\ busy' = TRUE
    /\ UNCHANGED runs

MakeRound ==
    /\ busy
    /\ r < kFeistelRounds
    /\ buffer' = Round(buffer, r)
    /\ r' = r + 1
    /\ UNCHANGED <<inner, busy, runs>>

\* The feed-forward of the inner block.
FeedForward ==
    /\ busy
    /\ r = kFeistelRounds
    /\ buffer' = [b \in Blocks |->
                     IF b = 0 THEN XOR(SwapIfBigEndian(buffer[0]), inner)
                     ELSE SwapIfBigEndian(buffer[b])]
    /\ busy' = FALSE
    /\ runs' = runs + 1
    /\ UNCHANGED <<inner, r>>

Next ==
    \/ \E v \in Seed : Refill(v)
    \/ \E seed \in SeedBuffer : AddEntropy(seed)
    \/ Start
    \/ MakeRound
    \/ FeedForward

Spec == Init /\ [][Next]_vars
=============================================================================
