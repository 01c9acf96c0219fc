--------------------------- MODULE ProgramsProofs ---------------------------
(***************************************************************************)
(* Theorems about the distributions and the programs of the benchmark, for  *)
(* every width of a word and every size of a program: UniformInt stays in   *)
(* its interval and can leave its loop, the shuffle makes single cycles,    *)
(* the sample is one of different elements, and each program asks for as    *)
(* many numbers as the report assumes.                                      *)
(***************************************************************************)
EXTENDS Programs, FiniteSetTheorems, TLAPS

\* 2^n counts the subsets of 1 .. n, and is positive for that.
LEMMA PowerOfTwo ==
    ASSUME NEW n \in Nat
    PROVE  2 ^ n \in Nat \ {0}
<1>1. IsFiniteSet(1 .. n) /\ Cardinality(1 .. n) = n
  BY FS_Interval
<1>2. IsFiniteSet(SUBSET (1 .. n)) /\ Cardinality(SUBSET (1 .. n)) = 2 ^ n
  BY <1>1, FS_SUBSET
<1>3. Cardinality(SUBSET (1 .. n)) \in Nat
  BY <1>2, FS_CardinalityType
<1>4. SUBSET (1 .. n) # {}
  OBVIOUS
<1> QED
  BY <1>2, <1>3, <1>4, FS_EmptySet

LEMMA Words ==
    /\ Pow2[Bits] \in Nat \ {0}
    /\ Word = 0 .. Pow2[Bits] - 1
<1>1. Bits \in 0 .. 2 * Bits
  BY FormatAssumption
<1> QED
  BY <1>1, PowerOfTwo, FormatAssumption DEF Pow2, Word

LEMMA Division ==
    ASSUME NEW p \in Nat \ {0}, NEW q \in Int, NEW s \in 0 .. p - 1
    PROVE  (p * q + s) \div p = q /\ (p * q + s) % p = s
OBVIOUS

LEMMA Quotient ==
    ASSUME NEW p \in Nat \ {0}, NEW r \in Nat, NEW a \in Nat, a < p * r
    PROVE  a \div p \in 0 .. r - 1
<1>1. /\ a \div p \in Int /\ a \div p >= 0
      /\ a % p \in 0 .. p - 1
      /\ a = p * (a \div p) + (a % p)
  OBVIOUS
<1>2. PICK q \in Nat : q = a \div p
  BY <1>1
<1>3. ASSUME q >= r PROVE FALSE
  <2>1. PICK k \in Nat : q = r + k
    <3>1. q - r \in Nat
      BY <1>3
    <3> QED
      BY <3>1
  <2>2. p * q = p * r + p * k
    BY <2>1
  <2>3. p * k \in Nat /\ p * q \in Nat
    OBVIOUS
  <2> QED
    BY <1>1, <1>2, <2>2, <2>3
<1> QED
  BY <1>2, <1>3

-----------------------------------------------------------------------------
(* UniformInt.                                                             *)

\* The interval consists of words, and the high half of a product with its
\* length is less than the length.
DInv ==
    /\ begin \in Nat /\ range \in Nat \ {0}
    /\ begin + range <= Pow2[Bits]
    /\ hi \in 0 .. range - 1

\* The halves of the product of a word and the length of an interval.
LEMMA HighInRange ==
    ASSUME NEW x \in Word, NEW r \in Nat \ {0}
    PROVE  (x * r) \div Pow2[Bits] \in 0 .. r - 1
<1> DEFINE p == Pow2[Bits]
<1>1. p \in Nat \ {0} /\ x \in 0 .. p - 1
  BY Words
<1> HIDE DEF p
<1>2. x * r \in Nat
  BY <1>1
<1>3. PICK k \in Nat : p = x + 1 + k
  <2>1. p - x - 1 \in Nat
    BY <1>1
  <2> QED
    BY <1>1, <2>1
<1>4. p * r = x * r + r + k * r /\ k * r \in Nat
  BY <1>1, <1>3
<1>5. x * r < p * r
  BY <1>2, <1>4
<1> QED
  BY <1>1, <1>2, <1>5, Quotient DEF p

LEMMA DrawInterval ==
    ASSUME NEW b \in Word, NEW e \in Word, NEW x \in Word, Draw(b, e, x)
    PROVE  DInv'
<1>1. b \in Nat /\ e - b \in Nat \ {0} /\ b + (e - b) <= Pow2[Bits]
  BY Words DEF Draw
<1>2. (x * (e - b)) \div Pow2[Bits] \in 0 .. (e - b) - 1
  BY <1>1, HighInRange
<1>3. hi' = (x * (e - b)) \div Pow2[Bits]
  BY DEF Draw, High
<1> QED
  BY <1>1, <1>2, <1>3 DEF Draw, DInv

LEMMA RedrawInterval ==
    ASSUME DInv, NEW x \in Word, Redraw(x)
    PROVE  DInv'
<1>1. High(x) \in 0 .. range - 1
  BY HighInRange DEF DInv, High
<1> QED
  BY <1>1 DEF DInv, Redraw

LEMMA IntervalInit == Init => DInv
  BY Words DEF Init, DInv

LEMMA IntervalStep == DInv /\ [Next]_vars => DInv'
<1> SUFFICES ASSUME DInv, [Next]_vars
             PROVE  DInv'
  OBVIOUS
<1>1. ASSUME NEW b \in Word, NEW e \in Word, NEW x \in Word, Draw(b, e, x)
      PROVE  DInv'
  BY <1>1, DrawInterval
<1>2. ASSUME NEW x \in Word, Redraw(x)
      PROVE  DInv'
  BY <1>2, RedrawInterval
<1>3. ASSUME NEW x \in Word, DrawDouble(x)
      PROVE  DInv'
  BY <1>3 DEF DrawDouble, DInv
<1>4. CASE Accept
  BY <1>4 DEF Accept, DInv
<1>5. CASE Return
  BY <1>5, Words DEF Return, DInv
<1>6. CASE UNCHANGED vars
  BY <1>6 DEF vars, DInv
<1> QED
  BY <1>1, <1>2, <1>3, <1>4, <1>5, <1>6 DEF Next

\* hi + begin does not wrap.
LEMMA ResultValue ==
    ASSUME DInv
    PROVE  ResultInt = hi + begin
<1>1. hi + begin \in 0 .. Pow2[Bits] - 1
  BY Words DEF DInv
<1>2. ASSUME NEW p \in Nat \ {0}, NEW y \in 0 .. p - 1
      PROVE  y % p = y
  OBVIOUS
<1> QED
  BY <1>1, <1>2, Words DEF ResultInt

\* UniformInt returns a value of the interval it was called with, for every
\* interval of words, also if the product wraps and after any number of
\* rejected words (randen_benchmark.cc:92-112).
THEOREM IntInInterval == Spec => []InInterval
<1>1. DInv => InInterval
  <2> SUFFICES ASSUME DInv PROVE ResultInt \in begin .. begin + range - 1
    BY DEF InInterval
  <2> QED
    BY ResultValue DEF DInv
<1> QED
  BY <1>1, IntervalInit, IntervalStep, PTL DEF Spec

\* The greatest word has the greatest high half.
LEMMA GreatestWord ==
    ASSUME NEW r \in Nat \ {0}, r <= Pow2[Bits]
    PROVE  ((Pow2[Bits] - 1) * r) \div Pow2[Bits] = r - 1
<1> DEFINE p == Pow2[Bits]
<1>1. p \in Nat \ {0} /\ r <= p
  BY Words
<1> HIDE DEF p
<1>2. (p - 1) * r = p * (r - 1) + (p - r)
  BY <1>1
<1>3. p - r \in 0 .. p - 1 /\ r - 1 \in Int
  BY <1>1
<1>4. (p * (r - 1) + (p - r)) \div p = r - 1
  BY <1>1, <1>3, Division
<1> QED
  BY <1>2, <1>4 DEF p

\* The loop of UniformInt (randen_benchmark.cc:105-108) can be left wherever
\* it is: the threshold is a remainder of the length of the interval, which
\* the greatest word reaches.
THEOREM LoopLeaves == Spec => []LoopCanEnd
<1>1. DInv => LoopCanEnd
  <2> SUFFICES ASSUME DInv PROVE \E x \in Word : High(x) >= Threshold
    BY DEF LoopCanEnd
  <2>1. range \in Nat \ {0} /\ range <= Pow2[Bits]
    BY Words DEF DInv
  <2>2. Pow2[Bits] - 1 \in Word
    BY Words
  <2>3. High(Pow2[Bits] - 1) = range - 1
    BY <2>1, GreatestWord DEF High
  <2>4. Threshold \in 0 .. range - 1
    <3>1. Negate(range) \in Int
      BY <2>1, Words DEF Negate
    <3> QED
      BY <2>1, <3>1 DEF Threshold
  <2> QED
    BY <2>1, <2>2, <2>3, <2>4
<1> QED
  BY <1>1, IntervalInit, IntervalStep, PTL DEF Spec

-----------------------------------------------------------------------------
(* The programs.                                                           *)

Drawing == IF pc = "idle" THEN 0 ELSE 1

InLoopOf(first) ==
    /\ pc \in {"idle", "multiplied", "rejected", "int"}
    /\ pc # "idle" => begin = 0 /\ range = i
    /\ drawn = first + Drawing

\* Where each program is in its loop, and what it has drawn so far.
Counters ==
    /\ program \in {"none", "Loop", "Shuffle", "Sample", "MonteCarlo"}
    /\ program = "none" => ~returned /\ drawn = 0
    /\ program # "none" => num_64 \in Sizes
    /\ program # "MonteCarlo" => in_circle = 0
    /\ program = "Loop" =>
         /\ pc = "idle"
         /\ i \in 0 .. num_64 - 1
         /\ drawn = IF returned THEN num_64 ELSE i
    /\ program = "Shuffle" =>
         /\ i \in 0 .. num_64 - 1
         /\ InLoopOf(num_64 - 1 - i)
         /\ pc # "idle" => i # 0
         /\ returned => i = 0 /\ pc = "idle"
    /\ program = "Sample" =>
         /\ i \in kNumChosen .. num_64
         /\ InLoopOf(i - kNumChosen)
         /\ pc # "idle" => i < num_64
         /\ returned => i = num_64 /\ pc = "idle"
    /\ program = "MonteCarlo" =>
         /\ pc \in {"idle", "double"}
         /\ i \in 0 .. num_64 + 1 /\ i % 2 = 0
         /\ drawn \in IF pc = "idle" THEN i .. i + 1 ELSE i + 1 .. i + 2
         /\ drawn # i => i < num_64
         /\ in_circle \in Nat /\ 2 * in_circle <= i
         /\ returned => i >= num_64

Places == 0 .. num_64 - 1

Reservoir == 0 .. kNumChosen - 1

\* No two draws choose the same place, and the first one always replaces.
Chosen ==
    program = "Sample" =>
      /\ chosen \in [Reservoir -> 0 .. i - 1]
      /\ \A j, k \in Reservoir : chosen[j] = chosen[k] => j = k
      /\ i = kNumChosen + 1 => \E k \in Reservoir : chosen[k] = kNumChosen

\* Sets that following the elements does not leave, and does not enter.
Closed(f, S) == \A k \in S : f[k] \in S

Backward(f, S) == \A k \in DOMAIN f : f[k] \in S => k \in S

\* Every cycle has one place up to m, and just one.
Cycles(f, m) ==
    /\ \A S \in (SUBSET DOMAIN f) \ {{}} :
         Closed(f, S) \/ Backward(f, S) => \E k \in S : k <= m
    /\ \A k \in 0 .. m :
         \E C \in SUBSET DOMAIN f :
           Closed(f, C) /\ k \in C /\ \A j \in C : j <= m => j = k

\* The places that are not yet drawn for are in cycles of their own.
Shuffling ==
    program = "Shuffle" =>
      /\ ints_to_shuffle \in [Places -> Places]
      /\ \A k \in Places : \E j \in Places : ints_to_shuffle[j] = k
      /\ Cycles(ints_to_shuffle, i)

ProgramInv == DInv /\ Counters /\ Chosen /\ Shuffling

Swapped(f, m, j) == [f EXCEPT ![m] = f[j], ![j] = f[m]]

\* A swap of place m with one in front of it joins two cycles.
LEMMA SwapJoins ==
    ASSUME NEW n \in Nat, NEW m \in 1 .. n - 1, NEW j \in 0 .. m - 1,
           NEW f \in [0 .. n - 1 -> 0 .. n - 1], Cycles(f, m)
    PROVE  Cycles(Swapped(f, m, j), m - 1)
<1> DEFINE g == Swapped(f, m, j)
           D == 0 .. n - 1
<1>1. /\ j \in D /\ m \in D /\ j # m
      /\ g \in [D -> D]
      /\ g[m] = f[j] /\ g[j] = f[m]
      /\ \A k \in D : k # m /\ k # j => g[k] = f[k]
  <2>1. j \in D /\ m \in D /\ j # m /\ f[j] \in D /\ f[m] \in D
    OBVIOUS
  <2>2. g = [k \in D |-> IF k = j THEN f[m] ELSE IF k = m THEN f[j] ELSE f[k]]
    BY <2>1 DEF Swapped
  <2> QED
    BY <2>1, <2>2
<1>2. PICK C \in SUBSET D :
        Closed(f, C) /\ m \in C /\ \A k \in C : k <= m => k = m
  <2>1. m \in 0 .. m
    OBVIOUS
  <2> QED
    BY <2>1, <1>1 DEF Cycles
<1>3. PICK E \in SUBSET D :
        Closed(f, E) /\ j \in E /\ \A k \in E : k <= m => k = j
  <2>1. j \in 0 .. m
    OBVIOUS
  <2> QED
    BY <2>1, <1>1 DEF Cycles
<1>4. j \notin C /\ m \notin E
  BY <1>1, <1>2, <1>3
<1> HIDE DEF g
<1>5. ASSUME NEW S \in SUBSET D, S # {}, Closed(g, S)
      PROVE  \E k \in S : k <= m - 1
  <2>1. CASE j \in S
    BY <2>1
  <2>2. CASE j \notin S /\ m \notin S
    <3>1. Closed(f, S)
      BY <1>1, <1>5, <2>2 DEF Closed
    <3>2. PICK k \in S : k <= m
      BY <1>5, <3>1 DEF Cycles
    <3> QED
      BY <2>2, <3>2
  <2>3. CASE j \notin S /\ m \in S
    <3>1. f[j] \in S \cap E
      BY <1>1, <1>3, <1>5, <2>3 DEF Closed
    <3>2. Closed(f, S \cap E)
      BY <1>1, <1>3, <1>4, <1>5, <2>3 DEF Closed
    <3>3. PICK k \in S \cap E : k <= m
      BY <3>1, <3>2 DEF Cycles
    <3> QED
      BY <1>3, <2>3, <3>3
  <2> QED
    BY <2>1, <2>2, <2>3
<1>6. ASSUME NEW S \in SUBSET D, S # {}, Backward(g, S)
      PROVE  \E k \in S : k <= m - 1
  <2>1. CASE j \in S
    BY <2>1
  <2>2. CASE j \notin S /\ m \notin S
    <3>1. Backward(f, S)
      BY <1>1, <1>6, <2>2 DEF Backward
    <3>2. PICK k \in S : k <= m
      BY <1>6, <3>1 DEF Cycles
    <3> QED
      BY <2>2, <3>2
  <2>3. CASE j \notin S /\ m \in S
    <3>1. f[m] \in C \ S
      BY <1>1, <1>2, <1>6, <2>3 DEF Closed, Backward
    <3>2. Closed(f, C \ S)
      BY <1>1, <1>2, <1>4, <1>6, <2>3 DEF Closed, Backward
    <3>3. PICK k \in C \ S : k <= m
      BY <3>1, <3>2 DEF Cycles
    <3> QED
      BY <1>2, <2>3, <3>3
  <2> QED
    BY <2>1, <2>2, <2>3
<1>7. ASSUME NEW k \in 0 .. m - 1
      PROVE  \E F \in SUBSET D :
               Closed(g, F) /\ k \in F /\ \A l \in F : l <= m - 1 => l = k
  <2>1. CASE k = j
    <3>1. Closed(g, C \cup E)
      BY <1>1, <1>2, <1>3 DEF Closed
    <3>2. \A l \in C \cup E : l <= m - 1 => l = j
      BY <1>2, <1>3
    <3> QED
      BY <1>2, <1>3, <2>1, <3>1, <3>2
  <2>2. CASE k # j
    <3>1. PICK F \in SUBSET D :
            Closed(f, F) /\ k \in F /\ \A l \in F : l <= m => l = k
      <4>1. k \in 0 .. m
        OBVIOUS
      <4> QED
        BY <4>1 DEF Cycles
    <3>2. j \notin F /\ m \notin F
      BY <2>2, <3>1
    <3>3. Closed(g, F)
      BY <1>1, <3>1, <3>2 DEF Closed
    <3>4. \A l \in F : l <= m - 1 => l = k
      BY <3>1
    <3> QED
      BY <3>1, <3>3, <3>4
  <2> QED
    BY <2>1, <2>2
<1>8. DOMAIN g = D
  BY <1>1
<1>9. Cycles(g, m - 1)
  BY <1>5, <1>6, <1>7, <1>8 DEF Cycles
<1> QED
  BY <1>9 DEF g

\* In the end there is one cycle: a set that it does not leave has place 0,
\* and so has what is left of the places.
LEMMA OneCycle ==
    ASSUME NEW n \in Nat, NEW f \in [0 .. n - 1 -> 0 .. n - 1], Cycles(f, 0),
           NEW S \in (SUBSET (0 .. n - 1)) \ {{}, 0 .. n - 1}
    PROVE  \E k \in S : f[k] \notin S
<1> SUFFICES ASSUME Closed(f, S) PROVE FALSE
  BY DEF Closed
<1> DEFINE T == (0 .. n - 1) \ S
<1>1. 0 \in S
  <2>1. PICK k \in S : k <= 0
    BY DEF Cycles
  <2> QED
    BY <2>1
<1>2. Backward(f, T)
  BY DEF Backward, Closed
<1>3. T # {} /\ T \subseteq 0 .. n - 1
  OBVIOUS
<1>4. PICK k \in T : k <= 0
  BY <1>2, <1>3 DEF Cycles
<1> QED
  BY <1>1, <1>4

LEMMA SizeFacts ==
    /\ kNumChosen \in Nat \ {0}
    /\ \A n \in Sizes : n \in Nat /\ kNumChosen <= n /\ n <= Pow2[Bits] - 1
BY ProgramAssumption, Words

LEMMA ProgramStart == ProgramInit => ProgramInv
  BY IntervalInit DEF ProgramInit, ProgramInv, Counters, Chosen, Shuffling

LEMMA EnterInv ==
    ASSUME ProgramInv,
           NEW p \in {"Loop", "Shuffle", "Sample", "MonteCarlo"}, NEW n \in Sizes,
           Enter(p, n)
    PROVE  ProgramInv'
<1>1. n \in Nat /\ kNumChosen <= n /\ kNumChosen \in Nat /\ kNumChosen > 0
  BY SizeFacts
<1>2. /\ ~returned' /\ drawn' = 0 /\ in_circle' = 0 /\ pc' = "idle"
      /\ program' = p /\ num_64' = n
  BY DEF Enter, vars, points, ProgramInv, Counters
<1>3. DInv'
  BY DEF Enter, vars, ProgramInv, DInv
<1>4. Counters'
  <2>1. p = "Shuffle" => i' = n - 1
    BY DEF Enter
  <2>2. p = "Sample" => i' = kNumChosen
    BY DEF Enter
  <2>3. p \in {"Loop", "MonteCarlo"} => i' = 0
    BY DEF Enter
  <2> QED
    BY <1>1, <1>2, <2>1, <2>2, <2>3 DEF Counters, InLoopOf, Drawing
<1>5. Chosen'
  <2> SUFFICES ASSUME p = "Sample" PROVE Chosen'
    BY <1>2 DEF Chosen
  <2>1. i' = kNumChosen /\ chosen' = [k \in 0 .. kNumChosen - 1 |-> k]
    BY DEF Enter, Identity
  <2> QED
    BY <1>1, <2>1 DEF Chosen, Reservoir
<1>6. Shuffling'
  <2> SUFFICES ASSUME p = "Shuffle" PROVE Shuffling'
    BY <1>2 DEF Shuffling
  <2>1. i' = n - 1 /\ ints_to_shuffle' = [k \in 0 .. n - 1 |-> k]
    BY DEF Enter, Identity
  <2>2. Cycles(ints_to_shuffle, i)'
    <3>1. DOMAIN ints_to_shuffle' = 0 .. n - 1
      BY <2>1
    <3>2. \A S \in (SUBSET (0 .. n - 1)) \ {{}} : \E k \in S : k <= n - 1
      OBVIOUS
    <3>3. ASSUME NEW k \in 0 .. n - 1
          PROVE  /\ {k} \in SUBSET (0 .. n - 1)
                 /\ Closed(ints_to_shuffle', {k})
                 /\ k \in {k} /\ \A j \in {k} : j <= n - 1 => j = k
      BY <2>1 DEF Closed
    <3> QED
      BY <2>1, <3>1, <3>2, <3>3 DEF Cycles
  <2> QED
    BY <1>2, <2>1, <2>2 DEF Shuffling, Places
<1> QED
  BY <1>3, <1>4, <1>5, <1>6 DEF ProgramInv

LEMMA LoopDrawInv ==
    ASSUME ProgramInv, LoopDraw
    PROVE  ProgramInv'
<1>1. num_64 \in Nat /\ num_64 \in Sizes
  BY SizeFacts DEF ProgramInv, Counters, LoopDraw
<1>2. /\ program = "Loop" /\ ~returned /\ pc = "idle"
      /\ i \in 0 .. num_64 - 1 /\ drawn = i /\ in_circle = 0
  BY DEF LoopDraw, ProgramInv, Counters
<1>3. UNCHANGED <<vars, program, num_64, in_circle>>
  BY DEF LoopDraw, points
<1>4. Counters'
  <2>1. CASE i < num_64 - 1
    <3>1. i' = i + 1 /\ ~returned' /\ drawn' = i + 1
      BY <1>2, <2>1 DEF LoopDraw, InLoop
    <3> QED
      BY <1>1, <1>2, <1>3, <2>1, <3>1 DEF Counters, vars
  <2>2. CASE ~(i < num_64 - 1)
    <3>1. i + 1 = num_64 /\ ~InLoop
      BY <1>1, <1>2, <2>2 DEF InLoop
    <3>2. returned' /\ i' = i /\ drawn' = i + 1
      BY <1>2, <3>1 DEF LoopDraw
    <3> QED
      BY <1>1, <1>2, <1>3, <3>1, <3>2 DEF Counters, vars
  <2> QED
    BY <2>1, <2>2
<1> QED
  BY <1>2, <1>3, <1>4 DEF ProgramInv, DInv, Chosen, Shuffling, vars

LEMMA DrawInv ==
    ASSUME ProgramInv, NEW x \in Word, ProgramDraw(x)
    PROVE  ProgramInv'
<1>1. num_64 \in Nat /\ kNumChosen \in Nat /\ kNumChosen > 0 /\ num_64 <= Pow2[Bits] - 1
  BY SizeFacts DEF ProgramInv, Counters, ProgramDraw, InLoop
<1>2. UNCHANGED <<returned, program, num_64, i, ints_to_shuffle, chosen, in_circle>>
  BY DEF ProgramDraw, vectors, points
<1>3. Chosen' /\ Shuffling'
  BY <1>2 DEF ProgramInv, Chosen, Shuffling, Reservoir, Places
<1>4. CASE program \in {"Shuffle", "Sample"}
  <2>1. Draw(0, i, x) /\ drawn' = drawn + 1
    BY <1>4 DEF ProgramDraw, Interval
  <2>2. 0 \in Word /\ i \in Word
    BY <1>1, <1>4, Words DEF ProgramInv, Counters
  <2>3. DInv'
    BY <2>1, <2>2, DrawInterval
  <2>4. begin' = 0 /\ range' = i /\ pc = "idle" /\ pc' = "multiplied"
    BY <1>1, <1>4, <2>1 DEF Draw, ProgramInv, Counters
  <2>5. ~returned /\ (program = "Shuffle" => i # 0) /\ (program = "Sample" => i < num_64)
    BY <1>1, <1>4 DEF ProgramDraw, InLoop, ProgramInv, Counters
  <2>6. Counters'
    <3>1. CASE program = "Shuffle"
      BY <1>1, <1>2, <2>1, <2>4, <2>5, <3>1
      DEF ProgramInv, Counters, InLoopOf, Drawing
    <3>2. CASE program = "Sample"
      BY <1>1, <1>2, <2>1, <2>4, <2>5, <3>2
      DEF ProgramInv, Counters, InLoopOf, Drawing
    <3> QED
      BY <1>4, <3>1, <3>2
  <2> QED
    BY <1>3, <2>3, <2>6 DEF ProgramInv
<1>5. CASE program = "MonteCarlo"
  <2>1. DrawDouble(x) /\ drawn' = drawn + 1 /\ i < num_64
    BY <1>5 DEF ProgramDraw, InLoop
  <2>2. pc = "idle" /\ pc' = "double" /\ DInv'
    BY <2>1 DEF DrawDouble, ProgramInv, DInv
  <2>3. Counters'
    BY <1>1, <1>2, <1>5, <2>1, <2>2 DEF ProgramInv, Counters
  <2> QED
    BY <1>3, <2>2, <2>3 DEF ProgramInv
<1> QED
  BY <1>4, <1>5 DEF ProgramDraw

LEMMA RedrawInv ==
    ASSUME ProgramInv, NEW x \in Word, ProgramRedraw(x)
    PROVE  ProgramInv'
<1>1. UNCHANGED programVars /\ program # "none"
  BY DEF ProgramRedraw
<1>2. /\ DInv' /\ UNCHANGED <<begin, range>>
      /\ pc \in {"multiplied", "rejected"} /\ pc' \in {"rejected", "int"}
  <2>1. CASE Redraw(x)
    BY <2>1, RedrawInterval DEF ProgramInv, Redraw
  <2>2. CASE Accept
    BY <2>2 DEF Accept, ProgramInv, DInv
  <2> QED
    BY <2>1, <2>2 DEF ProgramRedraw
<1>3. Counters'
  BY <1>1, <1>2 DEF ProgramInv, Counters, InLoopOf, Drawing, programVars, vectors, points
<1> QED
  BY <1>1, <1>2, <1>3 DEF ProgramInv, Chosen, Shuffling, Reservoir, Places, programVars,
                           vectors, points

LEMMA SwapInv ==
    ASSUME ProgramInv, Swap
    PROVE  ProgramInv'
<1> DEFINE j == ResultInt
           n == num_64
<1>1. n \in Nat /\ n > 0
  BY SizeFacts DEF Swap, ProgramInv, Counters
<1>2. i \in 1 .. n - 1 /\ begin = 0 /\ range = i /\ ~returned
  BY <1>1 DEF Swap, ProgramInv, Counters, InLoopOf
<1>3. j \in 0 .. i - 1
  BY <1>2, ResultValue DEF ProgramInv, DInv
<1>4. ints_to_shuffle \in [0 .. n - 1 -> 0 .. n - 1] /\ Cycles(ints_to_shuffle, i)
  BY DEF Swap, ProgramInv, Shuffling, Places
<1>5. ints_to_shuffle' = Swapped(ints_to_shuffle, i, j)
  BY DEF Swap, Swapped
<1>6. /\ i' = i - 1 /\ pc' = "idle" /\ DInv'
      /\ UNCHANGED <<returned, program, num_64, in_circle, drawn>>
  BY Words DEF Swap, Return, points, DInv
<1> HIDE DEF j
<1>7. Counters'
  BY <1>1, <1>2, <1>6 DEF Swap, ProgramInv, Counters, InLoopOf, Drawing
<1>8. Shuffling'
  <2>1. Cycles(ints_to_shuffle, i)'
    BY <1>1, <1>2, <1>3, <1>4, <1>5, <1>6, SwapJoins
  <2>2. ints_to_shuffle' = [k \in 0 .. n - 1 |->
          IF k = j THEN ints_to_shuffle[i]
          ELSE IF k = i THEN ints_to_shuffle[j] ELSE ints_to_shuffle[k]]
    <3>1. i \in 0 .. n - 1 /\ j \in 0 .. n - 1 /\ i # j
      BY <1>1, <1>2, <1>3
    <3> QED
      BY <1>4, <1>5, <3>1 DEF Swapped
  <2>3. ASSUME NEW k \in Places PROVE \E l \in Places : ints_to_shuffle'[l] = k
    <3>1. PICK l \in Places : ints_to_shuffle[l] = k
      BY DEF Swap, ProgramInv, Shuffling
    <3>2. i \in Places /\ j \in Places /\ i # j
      BY <1>1, <1>2, <1>3 DEF Places
    <3> QED
      BY <2>2, <3>1, <3>2 DEF Places
  <2>4. ints_to_shuffle' \in [Places -> Places]
    <3>1. i \in 0 .. n - 1 /\ j \in 0 .. n - 1
      BY <1>1, <1>2, <1>3
    <3>2. \A k \in 0 .. n - 1 : ints_to_shuffle[k] \in 0 .. n - 1
      BY <1>4
    <3> QED
      BY <2>2, <3>1, <3>2 DEF Places
  <2> QED
    BY <1>6, <2>1, <2>3, <2>4 DEF Shuffling, Places
<1>9. Chosen'
  BY <1>6 DEF Swap, Chosen
<1> QED
  BY <1>6, <1>7, <1>8, <1>9 DEF ProgramInv

LEMMA ChooseInv ==
    ASSUME ProgramInv, Choose
    PROVE  ProgramInv'
<1> DEFINE j == ResultInt
<1>1. num_64 \in Nat /\ kNumChosen \in Nat /\ kNumChosen > 0
  BY SizeFacts DEF Choose, ProgramInv, Counters
<1>2. i \in kNumChosen .. num_64 - 1 /\ begin = 0 /\ range = i /\ ~returned
  BY <1>1 DEF Choose, ProgramInv, Counters, InLoopOf
<1>3. j \in 0 .. i - 1
  BY <1>1, <1>2, ResultValue DEF ProgramInv, DInv
<1>4. /\ i' = i + 1 /\ pc' = "idle" /\ DInv'
      /\ UNCHANGED <<returned, program, num_64, in_circle, drawn>>
  BY Words DEF Choose, Return, points, DInv
<1>5. chosen' = IF j < kNumChosen THEN [chosen EXCEPT ![j] = i] ELSE chosen
  BY DEF Choose
<1> HIDE DEF j
<1>6. Counters'
  BY <1>1, <1>2, <1>4 DEF Choose, ProgramInv, Counters, InLoopOf, Drawing
<1>7. Chosen'
  <2>1. /\ chosen \in [Reservoir -> 0 .. i - 1]
        /\ \A k, l \in Reservoir : chosen[k] = chosen[l] => k = l
    BY DEF Choose, ProgramInv, Chosen
  <2>2. CASE j < kNumChosen
    <3>1. j \in Reservoir
      BY <1>1, <1>2, <1>3, <2>2 DEF Reservoir
    <3>2. chosen' = [k \in Reservoir |-> IF k = j THEN i ELSE chosen[k]]
      BY <1>5, <2>1, <2>2, <3>1
    <3>3. \A k \in Reservoir : chosen[k] < i /\ chosen[k] \in 0 .. i
      BY <1>1, <1>2, <2>1
    <3>4. chosen' \in [Reservoir -> 0 .. i]
      BY <1>1, <1>2, <3>2, <3>3
    <3>5. \A k, l \in Reservoir : chosen'[k] = chosen'[l] => k = l
      BY <1>1, <1>2, <2>1, <3>2, <3>3
    <3>6. i = kNumChosen => chosen'[j] = kNumChosen
      BY <3>1, <3>2
    <3> QED
      BY <1>1, <1>2, <1>4, <3>1, <3>4, <3>5, <3>6 DEF Chosen, Reservoir
  <2>3. CASE ~(j < kNumChosen)
    <3>1. i # kNumChosen
      BY <1>1, <1>3, <2>3
    <3> QED
      BY <1>1, <1>2, <1>4, <1>5, <2>1, <2>3, <3>1 DEF Chosen, Reservoir
  <2> QED
    BY <2>2, <2>3
<1>8. Shuffling'
  BY <1>4 DEF Choose, Shuffling
<1> QED
  BY <1>4, <1>6, <1>7, <1>8 DEF ProgramInv

LEMMA PointInv ==
    ASSUME ProgramInv, Point
    PROVE  ProgramInv'
<1>1. num_64 \in Nat
  BY SizeFacts DEF Point, ProgramInv, Counters
<1>2. /\ i \in Nat /\ i % 2 = 0 /\ i < num_64 /\ drawn \in i + 1 .. i + 2
      /\ in_circle \in Nat /\ 2 * in_circle <= i /\ ~returned
  BY <1>1 DEF Point, ProgramInv, Counters
<1>3. /\ pc' = "idle" /\ DInv'
      /\ UNCHANGED <<returned, program, num_64, drawn>>
  BY Words DEF Point, Return, DInv
<1>4. Counters'
  <2>1. CASE drawn % 2 = 1
    <3>1. drawn = i + 1
      BY <1>2, <2>1
    <3>2. UNCHANGED <<i, in_circle>>
      BY <2>1 DEF Point
    <3> QED
      BY <1>1, <1>2, <1>3, <3>1, <3>2 DEF Point, ProgramInv, Counters
  <2>2. CASE drawn % 2 # 1
    <3>1. drawn = i + 2
      BY <1>2, <2>2
    <3>2. /\ i' = i + 2
          /\ in_circle' = in_circle \/ in_circle' = in_circle + 1
      BY <1>2, <2>2 DEF Point
    <3>3. (i + 2) % 2 = 0 /\ i + 2 \in 0 .. num_64 + 1
      BY <1>1, <1>2
    <3>4. in_circle' \in Nat /\ 2 * in_circle' <= i + 2
      BY <1>2, <3>2
    <3>5. program' = "MonteCarlo" /\ num_64' \in Sizes /\ drawn' = i'
      BY <1>3, <3>1, <3>2 DEF Point, ProgramInv, Counters
    <3>6. i' = i + 2 /\ i' \in i' .. i' + 1
      BY <1>2, <3>2
    <3> QED
      BY <1>2, <1>3, <3>3, <3>4, <3>5, <3>6 DEF Counters
  <2> QED
    BY <2>1, <2>2
<1> QED
  BY <1>3, <1>4 DEF Point, ProgramInv, Chosen, Shuffling

LEMMA LoopEndsInv ==
    ASSUME ProgramInv, LoopEnds
    PROVE  ProgramInv'
<1>1. num_64 \in Nat /\ kNumChosen \in Nat
  BY SizeFacts DEF LoopEnds, ProgramInv, Counters
<1>2. Counters'
  BY <1>1 DEF LoopEnds, InLoop, ProgramInv, Counters, InLoopOf, Drawing, vars, vectors, points
<1> QED
  BY <1>2 DEF LoopEnds, ProgramInv, DInv, Chosen, Shuffling, Reservoir, Places, vars, vectors

LEMMA ProgramStep == ProgramInv /\ [ProgramNext]_<<vars, programVars>> => ProgramInv'
<1> SUFFICES ASSUME ProgramInv, [ProgramNext]_<<vars, programVars>>
             PROVE  ProgramInv'
  OBVIOUS
<1>1. CASE program = "none" /\ Next /\ UNCHANGED programVars
  <2>1. DInv'
    BY <1>1, IntervalStep DEF ProgramInv
  <2> QED
    BY <1>1, <2>1 DEF ProgramInv, Counters, Chosen, Shuffling, programVars, points
<1>2. ASSUME NEW p \in {"Loop", "Shuffle", "Sample", "MonteCarlo"}, NEW n \in Sizes,
             Enter(p, n)
      PROVE  ProgramInv'
  BY <1>2, EnterInv
<1>3. CASE LoopDraw
  BY <1>3, LoopDrawInv
<1>4. ASSUME NEW x \in Word, ProgramDraw(x) \/ ProgramRedraw(x)
      PROVE  ProgramInv'
  BY <1>4, DrawInv, RedrawInv
<1>5. CASE Swap
  BY <1>5, SwapInv
<1>6. CASE Choose
  BY <1>6, ChooseInv
<1>7. CASE Point
  BY <1>7, PointInv
<1>8. CASE LoopEnds
  BY <1>8, LoopEndsInv
<1>9. CASE UNCHANGED <<vars, programVars>>
  BY <1>9 DEF ProgramInv, DInv, Counters, InLoopOf, Drawing, Chosen, Shuffling, Reservoir,
              Places, vars, programVars, vectors, points
<1> QED
  BY <1>1, <1>2, <1>3, <1>4, <1>5, <1>6, <1>7, <1>8, <1>9 DEF ProgramNext

LEMMA ProgramInvariant == ProgramSpec => []ProgramInv
  BY ProgramStart, ProgramStep, PTL DEF ProgramSpec

\* What BenchmarkShuffle leaves behind is one cycle through all places, for
\* every size and all words (randen_benchmark.cc:194-203).
THEOREM ShuffleIsCycle == ProgramSpec => []SingleCycle
<1>1. ProgramInv => SingleCycle
  <2> SUFFICES ASSUME ProgramInv, program = "Shuffle"
               PROVE  /\ \A k \in Places : \E j \in Places : ints_to_shuffle[j] = k
                      /\ returned =>
                           \A S \in (SUBSET Places) \ {{}, Places} :
                             \E k \in S : ints_to_shuffle[k] \notin S
    BY DEF SingleCycle, Places
  <2>1. num_64 \in Nat
    BY SizeFacts DEF ProgramInv, Counters
  <2>2. returned => Cycles(ints_to_shuffle, 0)
    BY DEF ProgramInv, Counters, Shuffling
  <2> QED
    BY <2>1, <2>2, OneCycle DEF ProgramInv, Shuffling, Places
<1> QED
  BY <1>1, ProgramInvariant, PTL

\* BenchmarkSample holds different elements of those it has seen, and the
\* first one behind the reservoir when it comes (randen_benchmark.cc:222-236).
THEOREM SampleIsOfSeen == ProgramSpec => []SampleOfSeen
<1>1. ProgramInv => SampleOfSeen
  BY DEF ProgramInv, Chosen, Reservoir, SampleOfSeen, IsInjective, Range
<1> QED
  BY <1>1, ProgramInvariant, PTL

\* The benchmarks draw as many numbers as the report divides by, or as many
\* less as they leave out (randen_benchmark.cc:165-167).
THEOREM NumbersDrawn == ProgramSpec => []NumbersPerCall
<1>1. ProgramInv => NumbersPerCall
  <2> SUFFICES ASSUME ProgramInv
               PROVE  NumbersPerCall
    OBVIOUS
  <2>1. (num_64 \in Nat /\ kNumChosen \in Nat) \/ program = "none"
    BY SizeFacts DEF ProgramInv, Counters
  <2>2. CASE program = "MonteCarlo"
    <3>1. i % 2 = 0 /\ i \in 0 .. num_64 + 1 /\ num_64 \in Nat
      BY <2>1, <2>2 DEF ProgramInv, Counters
    <3>2. returned => drawn = i /\ i >= num_64
      BY <2>2, <3>1 DEF ProgramInv, Counters
    <3>3. i >= num_64 => i = num_64 + (num_64 % 2)
      BY <3>1
    <3> QED
      BY <2>2, <3>1, <3>2, <3>3 DEF ProgramInv, Counters, NumbersPerCall
  <2>3. CASE program # "MonteCarlo"
    BY <2>1, <2>3, SizeFacts DEF ProgramInv, Counters, InLoopOf, Drawing, NumbersPerCall
  <2> QED
    BY <2>2, <2>3
<1> QED
  BY <1>1, ProgramInvariant, PTL
=============================================================================
