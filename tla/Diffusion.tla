------------------------------ MODULE Diffusion ------------------------------
(***************************************************************************)
(* How fast Permute (src/randen.cc:217-242) mixes, at its real size.  The   *)
(* blocks of Sponge carry no data here; beside them runs the dependency     *)
(* relation: dep[b] is the set of blocks of an earlier state that block b   *)
(* depends on.  When every block depends on every block, one diffusion is   *)
(* complete and the count starts over from there.                           *)
(***************************************************************************)
EXTENDS Sponge

VARIABLES
    dep,        \* block -> blocks it depends on, since the last diffusion
    diffusions  \* complete diffusions since Generate was entered

dvars == <<vars, dep, diffusions>>

Identity == [b \in Branch |-> {b}]

Full(d) == \A b \in Branch : d[b] = Branch

DInit == Init /\ dep = Identity /\ diffusions = 0

\* The odd block of a pair comes to depend on what the even one depends on.
DFunction ==
    /\ FeistelFunction
    /\ dep' = [dep EXCEPT ![branch + 1] = @ \cup dep[branch]]
    /\ UNCHANGED diffusions

DShuffle ==
    /\ BlockShuffle
    /\ LET moved == Shuffled(dep)
       IN  /\ dep' = IF Full(moved) THEN Identity ELSE moved
           /\ diffusions' = IF Full(moved) THEN diffusions + 1 ELSE diffusions

DOther ==
    /\ \/ \E v \in Seed : Reset(v)
       \/ \E seed \in SeedBuffer : Absorb(seed)
       \/ Begin
       \/ Finish
    /\ dep' = Identity
    /\ diffusions' = IF Begin THEN 0 ELSE diffusions

DNext == DFunction \/ DShuffle \/ DOther

DSpec == DInit /\ [][DNext]_dvars

-----------------------------------------------------------------------------
\* The dependencies after a round, of those before it.
AfterRound(d) ==
    [b \in Branch |->
       LET moved == shuffle[b]
       IN  IF moved % 2 = 1 THEN d[moved] \cup d[moved - 1] ELSE d[moved]]

\* From one round to the next, d[n] are the dependencies after n rounds: the
\* first n for which they are full is K.
FullAfter(d, K) ==
    /\ d[0] = Identity
    /\ \A n \in 0 .. K - 1 : d[n + 1] = AfterRound(d[n])
    /\ \A n \in 1 .. K : Full(d[n]) <=> n = K

\* "Ensures SPRP security and two full subblock diffusions" (randen.cc:49):
\* in the kFeistelRounds rounds every block comes to depend on every block,
\* and every block of that state on every block of it again.
TwoFullDiffusions == pc = "finish" => diffusions >= 2
=============================================================================
