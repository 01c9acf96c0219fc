---------------------------- MODULE Distributions ----------------------------
(***************************************************************************)
(* The distributions of src/randen_benchmark.cc, UniformInt and             *)
(* UniformDouble, on words of Bits bits: the benchmarks use 32 for          *)
(* UniformInt and 64 for UniformDouble.  The engine may return any word, so *)
(* a call draws a word nondeterministically; what a draw decides, and what  *)
(* becomes of the word, is the code's.                                      *)
(***************************************************************************)
EXTENDS Integers, FiniteSetsExt

CONSTANTS
    Bits,       \* bits of a word of the engine
    Fraction,   \* bits of a significand, its leading one included: 53 of 64
    Bias        \* bias of the exponent: 1023

Pow2 == [n \in 0 .. 2 * Bits |-> 2 ^ n]

Word == 0 .. Pow2[Bits] - 1

\* Both biases of IEEE 754 are odd.
ASSUME FormatAssumption ==
    /\ Bits \in Nat \ {0}
    /\ Fraction \in 1 .. Bits
    /\ Bias \in Nat /\ Bias % 2 = 1 /\ Bias > Bits

VARIABLES
    begin, range,   \* UniformInt: first value, and number of values mod 2^Bits
    hi, lo,         \* UniformInt: the halves of the product
    exponent,       \* UniformDouble: the fields of the result,
    significand,    \*   the leading one counted as a bit of the significand
    pc              \* "idle", "multiplied", "rejected", "int", "double"

vars == <<begin, range, hi, lo, exponent, significand, pc>>

-----------------------------------------------------------------------------
(* UniformInt.                                                             *)

Negate(x) == (Pow2[Bits] - x) % Pow2[Bits]

High(x) == (x * range) \div Pow2[Bits]

Low(x) == (x * range) % Pow2[Bits]

Threshold_NoRemainder == Negate(range)

\* 2^Bits % range, the number of words that must be rejected.
Threshold == Negate(range) % range

Init ==
    /\ begin = 0 /\ range = 1
    /\ hi = 0 /\ lo = 0
    /\ exponent = 0 /\ significand = 0
    /\ pc = "idle"

\* operator() of UniformInt is entered with a non-empty interval and draws.
Draw(b, e, x) ==
    /\ pc = "idle"
    /\ b < e
    /\ begin' = b
    /\ range' = e - b
    /\ hi' = High(x)'
    /\ lo' = Low(x)'
    /\ pc' = "multiplied"
    /\ UNCHANGED <<exponent, significand>>

\* The condition of the loop that draws again.
Again == hi < Threshold

Redraw(x) ==
    /\ \/ pc = "multiplied" /\ lo < range
       \/ pc = "rejected"
    /\ Again
    /\ hi' = High(x)
    /\ lo' = Low(x)
    /\ pc' = "rejected"
    /\ UNCHANGED <<begin, range, exponent, significand>>

Accept ==
    /\ \/ pc = "multiplied" /\ (lo >= range \/ ~Again)
       \/ pc = "rejected" /\ ~Again
    /\ pc' = "int"
    /\ UNCHANGED <<begin, range, hi, lo, exponent, significand>>

ResultInt_NoBegin == hi

\* hi + param.begin
ResultInt == (hi + begin) % Pow2[Bits]

-----------------------------------------------------------------------------
(* UniformDouble.                                                          *)

\* NumZeroBitsAboveMSBNonzero
LeadingZeros(x) == Min({n \in 0 .. Bits - 1 : x >= Pow2[Bits - 1 - n]})

\* The leading bit of the significand falls on the last bit of the exponent
\* field, and the two fields are or-ed.
OrIntoExponent(e) == IF e % 2 = 0 THEN e + 1 ELSE e

DrawDouble(x) ==
    /\ pc = "idle"
    /\ IF x = 0
       THEN exponent' = 0 /\ significand' = 0
       ELSE LET n == LeadingZeros(x)
            IN  /\ exponent' = OrIntoExponent(Bias - 1 - n)
                /\ significand' = ((x * Pow2[n]) % Pow2[Bits]) \div Pow2[Bits - Fraction]
    /\ pc' = "double"
    /\ UNCHANGED <<begin, range, hi, lo>>

Return ==
    /\ pc \in {"int", "double"}
    /\ pc' = "idle"
    /\ begin' = 0 /\ range' = 1 /\ hi' = 0 /\ lo' = 0
    /\ exponent' = 0 /\ significand' = 0

Next ==
    \/ \E b, e, x \in Word : Draw(b, e, x)
    \/ \E x \in Word : Redraw(x) \/ DrawDouble(x)
    \/ Accept
    \/ Return

Spec == Init /\ [][Next]_vars

-----------------------------------------------------------------------------
(* Properties.                                                             *)

\* "Half-open interval" (line 81): what UniformInt returns lies in it, also
\* when the product wraps and however often a word was drawn again.
InInterval == pc = "int" => ResultInt \in begin .. begin + range - 1

\* The loop (line 105) can always be left: some word ends it.
LoopCanEnd ==
    pc \in {"multiplied", "rejected"} =>
      \E x \in Word : High(x) >= Threshold

\* The words that UniformInt turns into hi = v without drawing again.
AcceptedAs(v) ==
    {x \in Word : High(x) = v /\ (Low(x) >= range \/ v >= Threshold)}

\* UniformInt is a "subset of std::uniform_*_distribution" (line 68) by the
\* algorithm it cites (lines 97-98): of the words it accepts at first sight,
\* equally many give each value of the interval.
Uniform ==
    pc = "multiplied" =>
      \A u, v \in 0 .. range - 1 :
        Cardinality(AcceptedAs(u)) = Cardinality(AcceptedAs(v))

\* UniformDouble, like std::uniform_real_distribution with the default
\* interval, returns a value of [0, 1), so that BenchmarkMonteCarlo samples
\* points of the unit square.
BelowOne == pc = "double" => exponent < Bias
=============================================================================
