------------------------------ MODULE Programs ------------------------------
(***************************************************************************)
(* The four programs that src/randen_benchmark.cc measures: the tight loop, *)
(* the shuffle, reservoir sampling, and the Monte Carlo estimation of pi.   *)
(* Each asks the distributions of module Distributions, or the engine       *)
(* itself, for one number after another.  A vector is a function of the     *)
(* indices from 0; instead of its ints the shuffled one holds the index at  *)
(* which each of them was.                                                  *)
(***************************************************************************)
EXTENDS Distributions, Functions

CONSTANTS
    Sizes,          \* what Num64() and num_64 may be
    kNumChosen      \* of BenchmarkSample

\* The interval [0, i) of a number is not empty and its end a word, and the
\* population has at least the elements that are copied at first.
ASSUME ProgramAssumption ==
    /\ kNumChosen \in Nat \ {0}
    /\ Sizes \subseteq kNumChosen .. Pow2[Bits] - 1

VARIABLES
    returned,       \* whether it has returned
    program,        \* the benchmark whose operator() runs, or "none"
    num_64,
    i,              \* the counter of its loop
    ints_to_shuffle, chosen,
    point,          \* x of BenchmarkMonteCarlo, exponent and significand
    in_circle,
    drawn           \* numbers this call has asked for

vectors == <<ints_to_shuffle, chosen>>

points == <<point, in_circle>>

programVars == <<returned, program, num_64, i, vectors, points, drawn>>

Identity(n) == [k \in 0 .. n - 1 |-> k]

-----------------------------------------------------------------------------
ProgramInit ==
    /\ Init
    /\ returned = FALSE
    /\ program = "none"
    /\ num_64 = 0 /\ i = 0
    /\ ints_to_shuffle = << >> /\ chosen = << >>
    /\ point = <<0, 0>> /\ in_circle = 0
    /\ drawn = 0

\* nanobenchmark calls operator() of a benchmark.
Enter(p, n) ==
    /\ program = "none" /\ pc = "idle"
    /\ program' = p
    /\ num_64' = n
    /\ i' = CASE p = "Shuffle" -> n - 1 [] p = "Sample" -> kNumChosen [] OTHER -> 0
    /\ ints_to_shuffle' = IF p = "Shuffle" THEN Identity(n) ELSE << >>
    /\ chosen' = IF p = "Sample" THEN Identity(kNumChosen) ELSE << >>
    /\ UNCHANGED <<vars, returned, points, drawn>>

InLoop_OneMore ==
    \/ program = "Loop" /\ i < num_64
    \/ program = "Shuffle" /\ i # 0
    \/ program \in {"Sample", "MonteCarlo"} /\ i < num_64

\* The conditions of the four loops.
InLoop ==
    \/ program = "Loop" /\ i < num_64 - 1
    \/ program = "Shuffle" /\ i # 0
    \/ program \in {"Sample", "MonteCarlo"} /\ i < num_64

\* BenchmarkLoop, and the call of the engine behind its loop.
LoopDraw ==
    /\ program = "Loop" /\ ~returned
    /\ i' = IF InLoop THEN i + 1 ELSE i
    /\ returned' = ~InLoop
    /\ drawn' = drawn + 1
    /\ UNCHANGED <<vars, program, num_64, vectors, points>>

Interval_Closed(n) == n + 1

\* The interval [0, i) as UniformInt takes it: it leaves i out.
Interval(n) == n

\* UniformInt and UniformDouble are called.
ProgramDraw(x) ==
    /\ InLoop
    /\ \/ program \in {"Shuffle", "Sample"} /\ Draw(0, Interval(i), x)
       \/ program = "MonteCarlo" /\ DrawDouble(x)
    /\ drawn' = drawn + 1
    /\ UNCHANGED <<returned, program, num_64, i, vectors, points>>

\* Inside UniformInt.
ProgramRedraw(x) ==
    /\ program # "none"
    /\ Redraw(x) \/ Accept
    /\ UNCHANGED programVars

\* std::swap
Swap ==
    /\ program = "Shuffle" /\ pc = "int"
    /\ ints_to_shuffle' = [ints_to_shuffle EXCEPT
         ![i] = ints_to_shuffle[ResultInt], ![ResultInt] = ints_to_shuffle[i]]
    /\ i' = i - 1
    /\ Return
    /\ UNCHANGED <<returned, program, num_64, chosen, points, drawn>>

Choose ==
    /\ program = "Sample" /\ pc = "int"
    /\ chosen' = IF ResultInt < kNumChosen THEN [chosen EXCEPT ![ResultInt] = i]
                 ELSE chosen
    /\ i' = i + 1
    /\ Return
    /\ UNCHANGED <<returned, program, num_64, ints_to_shuffle, points, drawn>>

\* A double in units of the last place of the smallest.
Units(d) == IF d[2] = 0 THEN 0 ELSE d[2] * Pow2[d[1] + Bits - Bias]

One == Pow2[Bits + Fraction - 1]

\* x * x + y * y < 1.0, but for the rounding of the sum.
InCircle(x, y) == Units(x) * Units(x) + Units(y) * Units(y) < One * One

\* The first draw of an iteration is x, the second y.
Point ==
    /\ program = "MonteCarlo" /\ pc = "double"
    /\ IF drawn % 2 = 1
       THEN point' = <<exponent, significand>> /\ UNCHANGED <<i, in_circle>>
       ELSE /\ in_circle' = IF InCircle(point, <<exponent, significand>>)
                            THEN in_circle + 1 ELSE in_circle
            /\ i' = i + 2
            /\ point' = <<0, 0>>
    /\ Return
    /\ UNCHANGED <<returned, program, num_64, vectors, drawn>>

LoopEnds ==
    /\ program \in {"Shuffle", "Sample", "MonteCarlo"} /\ ~InLoop /\ pc = "idle"
    /\ ~returned
    /\ returned' = TRUE
    /\ UNCHANGED <<vars, program, num_64, i, vectors, points, drawn>>

ProgramNext ==
    \/ program = "none" /\ Next /\ UNCHANGED programVars
    \/ \E p \in {"Loop", "Shuffle", "Sample", "MonteCarlo"}, n \in Sizes : Enter(p, n)
    \/ LoopDraw
    \/ \E x \in Word : ProgramDraw(x) \/ ProgramRedraw(x)
    \/ Swap
    \/ Choose
    \/ Point
    \/ LoopEnds

ProgramSpec == ProgramInit /\ [][ProgramNext]_<<vars, programVars>>

-----------------------------------------------------------------------------
(* Properties.                                                             *)

\* "Shuffles a vector" (line 184): every swap rearranges it, but as the
\* interval [0, i) leaves i out, the order that comes out is always a single
\* cycle: no element ever stays where it was, and only (n-1)! of the n!
\* orders can come out, unlike those of the std::shuffle it replaces.
SingleCycle ==
    /\ program = "Shuffle" =>
         \A k \in 0 .. num_64 - 1 :
           \E j \in 0 .. num_64 - 1 : ints_to_shuffle[j] = k
    /\ program = "Shuffle" /\ returned =>
         \A S \in (SUBSET (0 .. num_64 - 1)) \ {{}, 0 .. num_64 - 1} :
           \E k \in S : ints_to_shuffle[k] \notin S

\* "Reservoir sampling" (line 211): the chosen are different elements of those
\* seen so far, and as [0, i) leaves i out, the first element behind the
\* reservoir always enters it, when it comes.
SampleOfSeen ==
    program = "Sample" =>
      /\ IsInjective(chosen)
      /\ Range(chosen) \subseteq 0 .. i - 1
      /\ i = kNumChosen + 1 => kNumChosen \in Range(chosen)

\* num_64 is "also used to compute cycles per byte" (line 166): the tight
\* loop asks for exactly that many numbers, and for an even one Monte Carlo
\* too, at most half of them points in the circle; the shuffle asks for one
\* less, the sample for kNumChosen less.
NumbersPerCall ==
    /\ 2 * in_circle <= drawn
    /\ returned =>
         drawn = CASE program = "Loop" -> num_64
                   [] program = "MonteCarlo" -> num_64 + (num_64 % 2)
                   [] program = "Shuffle" -> num_64 - 1
                   [] program = "Sample" -> num_64 - kNumChosen
=============================================================================
