--------------------------- MODULE NetworkProofs ----------------------------
(***************************************************************************)
(* The permutation for every shuffle, key and AES of Sponge.                *)
(*   Sponge: the loops of Permute stay typed and use each key once.         *)
(*   SpongeRounds: these loops, which work in place, compute the rounds of  *)
(* FeistelRounds.                                                           *)
(*   Diffusion: a table that diffuses in at most half the rounds does so    *)
(* twice.                                                                  *)
(*   PermutePair: Permute is injective whenever AES adds its key            *)
(* injectively: nothing is asked of the substitution inside AES.            *)
(*   RustSponge: the port has the state of randen.cc after every step.      *)
(***************************************************************************)
EXTENDS SpongeRounds, Diffusion, PermutePair, RustSponge, TLAPS

\* The loop counters in terms of the pair the inner loop is at.
AtPair ==
    /\ pc = "permute" =>
         /\ round < kFeistelRounds
         /\ \E p \in 0 .. kFeistelFunctions :
              branch = 2 * p /\ keys = round * kFeistelFunctions + p
    /\ pc = "finish" => round = kFeistelRounds /\ keys = kKeys
    /\ pc # "idle" => gens < MaxGenerate

KInv == TypeOK /\ AtPair

-----------------------------------------------------------------------------
LEMMA SizeFacts ==
    /\ kFeistelBlocks \in Nat /\ kFeistelBlocks > 0
    /\ kFeistelRounds \in Nat /\ kFeistelRounds > 0
    /\ kFeistelFunctions \in Nat /\ kFeistelFunctions > 0
    /\ kFeistelBlocks = 2 * kFeistelFunctions
    /\ kKeys \in Nat
    /\ kKeys = kFeistelRounds * kFeistelFunctions
    /\ Branch = 0 .. kFeistelBlocks - 1
    /\ shuffle \in [Branch -> Branch]
<1>1. kFeistelFunctions \in Nat
  BY NetworkAssumption DEF kFeistelFunctions
<1>2. kKeys \in Nat /\ kKeys = kFeistelRounds * kFeistelFunctions
  BY <1>1, NetworkAssumption DEF kKeys
<1>3. kFeistelFunctions > 0
  BY <1>1, NetworkAssumption
<1>4. /\ kFeistelBlocks \in Nat /\ kFeistelBlocks > 0
      /\ kFeistelRounds \in Nat /\ kFeistelRounds > 0
      /\ kFeistelBlocks = 2 * kFeistelFunctions
      /\ shuffle \in [Branch -> Branch]
  BY NetworkAssumption
<1>5. Branch = 0 .. kFeistelBlocks - 1
  BY DEF Branch
<1>6. QED
  BY <1>1, <1>2, <1>3, <1>4, <1>5

\* The keys of one round lie within the keys of all rounds.
LEMMA KeysOfRound ==
    ASSUME NEW q \in Nat, NEW m \in Nat, NEW f \in Nat, q < m
    PROVE  /\ q * f + f <= m * f
           /\ q + 1 = m => q * f + f = m * f
           /\ q * f \in Nat
           /\ (q + 1) * f = q * f + f
<1>1. PICK k \in Nat : m = (q + 1) + k
  <2>1. m - (q + 1) \in Nat
    OBVIOUS
  <2>2. QED
    BY <2>1
<1>2. m * f = (q + 1) * f + k * f
  BY <1>1
<1>3. (q + 1) * f = q * f + f
  OBVIOUS
<1>4. k * f \in Nat /\ q * f \in Nat
  OBVIOUS
<1>5. QED
  BY <1>2, <1>3, <1>4

\* What a function is applied to, and where its key is.
LEMMA AtFunction ==
    ASSUME KInv, pc = "permute", branch < kFeistelBlocks
    PROVE  \E p \in 0 .. kFeistelFunctions - 1 :
             /\ branch = 2 * p
             /\ keys = round * kFeistelFunctions + p
             /\ branch \in Branch
             /\ branch + 1 \in Branch
             /\ branch + 2 = 2 * (p + 1)
             /\ keys \in 0 .. kKeys - 1
             /\ keys + 1 = round * kFeistelFunctions + (p + 1)
<1>1. PICK p \in 0 .. kFeistelFunctions :
        branch = 2 * p /\ keys = round * kFeistelFunctions + p
  BY DEF KInv, AtPair
<1>2. p \in 0 .. kFeistelFunctions - 1
  BY <1>1, SizeFacts
<1>3. round \in Nat /\ round < kFeistelRounds
  BY SizeFacts DEF KInv, TypeOK, AtPair
<1>4. /\ round * kFeistelFunctions + kFeistelFunctions <= kKeys
      /\ round * kFeistelFunctions \in Nat
  BY <1>3, SizeFacts, KeysOfRound
<1>5. keys \in 0 .. kKeys - 1
  <2>1. p \in Nat /\ p < kFeistelFunctions
    BY <1>2, SizeFacts
  <2>2. kKeys \in Nat /\ kFeistelFunctions \in Nat
    BY SizeFacts
  <2>3. QED
    BY <1>1, <2>1, <1>4, <2>2
<1>6. /\ branch \in Branch
      /\ branch + 1 \in Branch
      /\ branch + 2 = 2 * (p + 1)
  BY <1>1, <1>2, SizeFacts
<1>7. QED
  BY <1>1, <1>2, <1>4, <1>5, <1>6

LEMMA FunctionBlock ==
    ASSUME NEW a \in Block, NEW b \in Block, NEW k \in 0 .. kKeys - 1
    PROVE  Function(a, b, k) \in Block
  BY BlockAssumption DEF Function

LEMMA SwappedBlocks ==
    ASSUME NEW st \in [Branch -> Block]
    PROVE  Swapped(st) \in [Branch -> Block]
  BY BlockAssumption DEF Swapped

LEMMA KeyInit == Init => KInv
<1> SUFFICES ASSUME Init PROVE KInv
  OBVIOUS
<1>1. state \in [Branch -> Block]
  BY BlockAssumption DEF Init, Seeded
<1>2. QED
  BY <1>1, SizeFacts, BlockAssumption, BoundAssumption
     DEF Init, KInv, TypeOK, AtPair

LEMMA KeyStep == KInv /\ [Next]_vars => KInv'
<1> SUFFICES ASSUME KInv, [Next]_vars PROVE KInv'
  OBVIOUS
<1> USE DEF KInv
<1>1. ASSUME NEW v \in Seed, Reset(v) PROVE KInv'
  <2>1. state' \in [Branch -> Block]
    BY <1>1, BlockAssumption DEF Reset, Seeded
  <2>2. QED
    BY <1>1, <2>1, BoundAssumption DEF Reset, TypeOK, AtPair
<1>2. ASSUME NEW seed \in SeedBuffer, Absorb(seed) PROVE KInv'
  <2>1. state' \in [Branch -> Block]
    <3>1. \A b \in Branch : b # 0 => b - 1 \in 0 .. kFeistelBlocks - 2
      BY SizeFacts
    <3>2. seed \in [0 .. kFeistelBlocks - 2 -> Block]
      BY BlockAssumption
    <3>3. QED
      BY <1>2, <3>1, <3>2, BlockAssumption DEF Absorb, Absorbed, TypeOK
  <2>2. QED
    BY <1>2, <2>1 DEF Absorb, TypeOK, AtPair
<1>3. CASE Begin
  <2>1. state[0] \in Block /\ Swapped(state) \in [Branch -> Block]
    BY SizeFacts, SwappedBlocks DEF TypeOK
  <2>2. TypeOK'
    BY <1>3, <2>1, SizeFacts DEF Begin, TypeOK
  <2>3. AtPair'
    <3>1. 0 * kFeistelFunctions + 0 = 0 /\ 0 = 2 * 0
      BY SizeFacts
    <3>2. 0 \in 0 .. kFeistelFunctions
      BY SizeFacts
    <3>3. QED
      BY <1>3, <3>1, <3>2, SizeFacts DEF Begin, AtPair
  <2>4. QED
    BY <2>2, <2>3
<1>4. CASE FeistelFunction
  <2>1. PICK p \in 0 .. kFeistelFunctions - 1 :
          /\ branch = 2 * p
          /\ branch \in Branch
          /\ branch + 1 \in Branch
          /\ branch + 2 = 2 * (p + 1)
          /\ keys \in 0 .. kKeys - 1
          /\ keys + 1 = round * kFeistelFunctions + (p + 1)
    BY <1>4, AtFunction DEF FeistelFunction
  <2>2. Function(state[branch], state[branch + 1], keys) \in Block
    BY <2>1, FunctionBlock DEF TypeOK
  <2>3. TypeOK'
    BY <1>4, <2>1, <2>2, SizeFacts DEF FeistelFunction, TypeOK
  <2>4. p + 1 \in 0 .. kFeistelFunctions
    BY SizeFacts
  <2>5. AtPair'
    BY <1>4, <2>1, <2>4 DEF FeistelFunction, AtPair
  <2>6. QED
    BY <2>3, <2>5
<1>5. CASE BlockShuffle
  <2>1. round \in Nat /\ round < kFeistelRounds
    BY <1>5, SizeFacts DEF BlockShuffle, AtPair, TypeOK
  <2>2. keys = round * kFeistelFunctions + kFeistelFunctions
    <3>1. PICK p \in 0 .. kFeistelFunctions :
            branch = 2 * p /\ keys = round * kFeistelFunctions + p
      BY <1>5 DEF BlockShuffle, AtPair
    <3>2. p = kFeistelFunctions
      BY <1>5, <3>1, SizeFacts DEF BlockShuffle
    <3>3. QED
      BY <3>1, <3>2
  <2>3. /\ keys = (round + 1) * kFeistelFunctions
        /\ round + 1 = kFeistelRounds => keys = kKeys
    BY <2>1, <2>2, KeysOfRound, SizeFacts
  <2>4. state' \in [Branch -> Block]
    BY <1>5, SizeFacts DEF BlockShuffle, Shuffled, TypeOK
  <2>5. TypeOK'
    BY <1>5, <2>1, <2>4, SizeFacts DEF BlockShuffle, TypeOK
  <2>6. AtPair'
    <3>1. CASE round + 1 < kFeistelRounds
      <4>1. /\ pc' = "permute" /\ round' = round + 1
            /\ branch' = 2 * 0 /\ keys' = round' * kFeistelFunctions + 0
        <5>1. pc' = "permute" /\ round' = round + 1 /\ branch' = 0 /\ keys' = keys
          BY <1>5, <3>1 DEF BlockShuffle, MoreRounds
        <5>2. (round + 1) * kFeistelFunctions \in Int
          BY <2>1, SizeFacts
        <5>3. QED
          BY <5>1, <5>2, <2>3
      <4>2. 0 \in 0 .. kFeistelFunctions
        BY SizeFacts
      <4>3. QED
        BY <1>5, <3>1, <4>1, <4>2 DEF BlockShuffle, AtPair
    <3>2. CASE ~(round + 1 < kFeistelRounds)
      <4>1. round + 1 = kFeistelRounds
        BY <2>1, <3>2, SizeFacts
      <4>2. QED
        BY <1>5, <2>3, <4>1, SizeFacts DEF BlockShuffle, MoreRounds, AtPair
    <3>3. QED
      BY <3>1, <3>2
  <2>7. QED
    BY <2>5, <2>6
<1>6. CASE Finish
  <2>1. state' \in [Branch -> Block]
    <3>1. Swapped(state) \in [Branch -> Block] /\ 0 \in Branch
      BY SizeFacts, SwappedBlocks DEF TypeOK
    <3>2. XOR(Swapped(state)[0], prev_inner) \in Block
      BY <3>1, BlockAssumption DEF TypeOK
    <3>3. QED
      BY <1>6, <3>1, <3>2 DEF Finish
  <2>2. gens + 1 \in 0 .. MaxGenerate
    BY <1>6, BoundAssumption DEF Finish, TypeOK, AtPair
  <2>3. QED
    BY <1>6, <2>1, <2>2, SizeFacts DEF Finish, TypeOK, AtPair
<1>7. CASE UNCHANGED vars
  BY <1>7 DEF vars, TypeOK, AtPair
<1>8. QED
  BY <1>1, <1>2, <1>3, <1>4, <1>5, <1>6, <1>7 DEF Next, GenerateStep

LEMMA KeyInvariant == Spec => []KInv
<1>1. QED
  BY KeyInit, KeyStep, PTL DEF Spec

\* The counters and the buffer of randen.cc stay in their types.
THEOREM TypeCorrect == Spec => []TypeOK
<1>1. KInv => TypeOK
  BY DEF KInv
<1>2. QED
  BY <1>1, KeyInvariant, PTL

\* randen.cc:217-242 reads no key outside the table, uses every key of it for
\* exactly one function, and leaves Permute with the table used up.
THEOREM Keys == Spec => []KeyPerFunction
<1>1. ASSUME KInv PROVE KeyPerFunction
  <2>1. CASE pc = "permute"
    <3>1. PICK p \in 0 .. kFeistelFunctions :
            branch = 2 * p /\ keys = round * kFeistelFunctions + p
      BY <1>1, <2>1 DEF KInv, AtPair
    <3>2. round \in Nat /\ kFeistelFunctions \in Nat
      BY <1>1, SizeFacts DEF KInv, TypeOK
    <3>3. round * (2 * kFeistelFunctions) = 2 * (round * kFeistelFunctions)
      BY <3>2
    <3>4. 2 * keys = round * (2 * kFeistelFunctions) + branch
      <4>1. round * kFeistelFunctions \in Int
        BY <3>2
      <4>2. QED
        BY <3>1, <3>3, <4>1
    <3>5. branch < kFeistelBlocks => keys < kKeys
      <4>1. branch < kFeistelBlocks => keys \in 0 .. kKeys - 1
        BY <1>1, <2>1, AtFunction
      <4>2. QED
        BY <4>1, SizeFacts
    <3>6. QED
      BY <2>1, <3>4, <3>5, SizeFacts DEF KeyPerFunction
  <2>2. CASE pc # "permute"
    BY <1>1, <2>2 DEF KInv, AtPair, KeyPerFunction
  <2>3. QED
    BY <2>1, <2>2
<1>2. KInv => KeyPerFunction
  BY <1>1
<1>3. QED
  BY <1>2, KeyInvariant, PTL

-----------------------------------------------------------------------------
RInv == KInv /\ InPlace /\ before \in [Branch -> Block]

LEMMA RoundInit == HInit => RInv
<1> SUFFICES ASSUME HInit PROVE RInv
  OBVIOUS
<1>1. KInv
  BY KeyInit DEF HInit
<1>2. before = state /\ pc = "idle"
  BY DEF HInit, Init
<1>3. InPlace
  BY <1>2 DEF InPlace
<1>4. QED
  BY <1>1, <1>2, <1>3 DEF RInv, KInv, TypeOK

LEMMA RoundStep == RInv /\ [HNext]_hvars => RInv'
<1> SUFFICES ASSUME RInv, [HNext]_hvars PROVE RInv'
  OBVIOUS
<1>1. KInv'
  BY KeyStep DEF RInv, HNext, hvars, vars
<1>2. CASE FeistelFunction /\ before' = before
  <2>1. PICK p \in 0 .. kFeistelFunctions - 1 :
          /\ branch = 2 * p
          /\ keys = round * kFeistelFunctions + p
          /\ branch \in Branch
          /\ branch + 1 \in Branch
    BY <1>2, AtFunction DEF FeistelFunction, RInv
  <2>2. /\ state[branch] = before[branch]
        /\ state[branch + 1] = before[branch + 1]
    BY <2>1 DEF RInv, InPlace
  <2>3. (branch + 1) \div 2 = p /\ (branch + 1) % 2 = 1
    BY <2>1, SizeFacts
  <2>4. ASSUME NEW b \in Branch
        PROVE  state'[b] =
                 IF b < branch + 2 /\ b % 2 = 1
                 THEN Function(before[b - 1], before[b],
                               round * kFeistelFunctions + b \div 2)
                 ELSE before[b]
    <3>1. /\ state'[b] = IF b = branch + 1
                         THEN Function(state[branch], state[branch + 1], keys)
                         ELSE state[b]
      BY <1>2, <2>1 DEF FeistelFunction, RInv, KInv, TypeOK
    <3>2. CASE b = branch + 1
      <4>1. state'[b] = Function(before[branch], before[branch + 1],
                                 round * kFeistelFunctions + p)
        BY <2>1, <2>2, <3>1, <3>2
      <4>2. b - 1 = branch /\ b < branch + 2 /\ b % 2 = 1 /\ b \div 2 = p
        BY <2>1, <2>3, <3>2, SizeFacts
      <4>3. QED
        BY <3>2, <4>1, <4>2
    <3>3. CASE b # branch + 1
      <4>1. (b < branch + 2 /\ b % 2 = 1) <=> (b < branch /\ b % 2 = 1)
        <5>1. b \in Nat /\ p \in Nat
          BY SizeFacts
        <5>2. b % 2 = 1 => b # 2 * p
          BY <5>1
        <5>3. QED
          BY <2>1, <3>3, <5>1, <5>2
      <4>2. state'[b] = state[b]
        BY <3>1, <3>3
      <4>3. QED
        BY <1>2, <4>1, <4>2 DEF RInv, InPlace, FeistelFunction
    <3>4. QED
      BY <3>2, <3>3
  <2>5. InPlace'
    BY <1>2, <2>4 DEF InPlace, FeistelFunction
  <2>6. QED
    BY <1>1, <1>2, <2>5 DEF RInv
<1>3. CASE Next /\ before' = state' /\ ~FeistelFunction
  <2>1. pc' = "permute" => branch' = 0
    BY <1>3 DEF Next, GenerateStep, Reset, Absorb, Begin, BlockShuffle, Finish,
                RInv, KInv, AtPair
  <2>2. ASSUME NEW b \in Branch, pc' = "permute" PROVE ~(b < branch')
    BY <2>1, <2>2, SizeFacts
  <2>3. InPlace'
    BY <1>3, <2>2 DEF InPlace
  <2>4. QED
    BY <1>1, <1>3, <2>3 DEF RInv, KInv, TypeOK
<1>4. CASE UNCHANGED hvars
  BY <1>1, <1>4 DEF hvars, vars, RInv, InPlace
<1>5. QED
  BY <1>2, <1>3, <1>4 DEF HNext

LEMMA RoundInvariant == HSpec => []RInv
<1>1. QED
  BY RoundInit, RoundStep, PTL DEF HSpec

\* The loop of randen.cc:226-239 lets no function see the result of another
\* function of the same round.
THEOREM RoundInPlace == HSpec => []InPlace
<1>1. RInv => InPlace
  BY DEF RInv
<1>2. QED
  BY <1>1, RoundInvariant, PTL

\* Outside a round the buffer is where the round left it.
LEMMA BetweenRounds ==
    ASSUME RInv, pc # "permute"
    PROVE  state = before
  BY DEF RInv, KInv, TypeOK, InPlace

LEMMA RoundsInit == HInit => Rounds!Init
  BY DEF HInit, Init, Seeded, Branch, Rounds!Init, Rounds!Blocks

\* When all functions of a round are done, shuffling completes the round.
LEMMA RoundComplete ==
    ASSUME RInv, pc = "permute", branch >= kFeistelBlocks
    PROVE  Shuffled(state) = Rounds!Round(before, round)
<1>1. ASSUME NEW b \in Branch
      PROVE  state[shuffle[b]] =
               IF shuffle[b] = 2 * (shuffle[b] \div 2)
               THEN before[shuffle[b]]
               ELSE AES(AES(before[shuffle[b] - 1],
                            Key(round * kFeistelFunctions + shuffle[b] \div 2)),
                        before[shuffle[b]])
  <2>1. PICK c \in Branch : c = shuffle[b]
    BY SizeFacts
  <2>2. c < branch /\ c \in Nat
    BY SizeFacts DEF RInv, KInv, TypeOK
  <2>3. c % 2 = 1 <=> c # 2 * (c \div 2)
    BY <2>2
  <2>4. state[c] = IF c % 2 = 1
                   THEN Function(before[c - 1], before[c],
                                 round * kFeistelFunctions + c \div 2)
                   ELSE before[c]
    BY <2>2 DEF RInv, InPlace
  <2>5. QED
    BY <2>1, <2>3, <2>4 DEF Function
<1>2. QED
  BY <1>1 DEF Shuffled, Branch, Rounds!Round, Rounds!Blocks, kFeistelFunctions

LEMMA RoundsStep == RInv /\ [HNext]_hvars => [Rounds!Next]_(Rounds!vars)
<1> SUFFICES ASSUME RInv, [HNext]_hvars PROVE [Rounds!Next]_(Rounds!vars)
  OBVIOUS
<1>1. ASSUME NEW v \in Seed, Reset(v), before' = state' PROVE Rounds!Refill(v)
  BY <1>1 DEF Reset, Seeded, Branch, Rounds!Refill, Rounds!Blocks
<1>2. ASSUME NEW seed \in SeedBuffer, Absorb(seed), before' = state'
      PROVE  Rounds!AddEntropy(seed)
  <2>1. state = before
    BY <1>2, BetweenRounds DEF Absorb
  <2>2. QED
    BY <1>2, <2>1 DEF Absorb, Absorbed, Branch, Rounds!AddEntropy, Rounds!Blocks
<1>3. CASE Begin /\ before' = state'
  <2>1. state = before
    BY <1>3, BetweenRounds DEF Begin
  <2>2. Rounds!Start
    BY <1>3, <2>1 DEF Begin, Swapped, Branch, Rounds!Start, Rounds!Blocks
  <2>3. QED
    BY <2>2 DEF Rounds!Next
<1>4. CASE FeistelFunction /\ before' = before
  BY <1>4 DEF FeistelFunction, Rounds!vars
<1>5. CASE BlockShuffle /\ before' = state'
  <2>1. before' = Rounds!Round(before, round)
    BY <1>5, RoundComplete DEF BlockShuffle
  <2>2. round < kFeistelRounds
    BY <1>5 DEF BlockShuffle, RInv, KInv, AtPair
  <2>3. Rounds!MakeRound
    BY <1>5, <2>1, <2>2 DEF BlockShuffle, Rounds!MakeRound
  <2>4. QED
    BY <2>3 DEF Rounds!Next
<1>6. CASE Finish /\ before' = state'
  <2>1. state = before
    BY <1>6, BetweenRounds DEF Finish
  <2>2. round = kFeistelRounds
    BY <1>6 DEF Finish, RInv, KInv, AtPair
  <2>3. before' = [b \in Rounds!Blocks |->
                     IF b = 0 THEN XOR(SwapIfBigEndian(before[0]), prev_inner)
                     ELSE SwapIfBigEndian(before[b])]
    <3>1. Branch = Rounds!Blocks /\ 0 \in Branch
      BY SizeFacts DEF Rounds!Blocks
    <3>2. QED
      BY <1>6, <2>1, <3>1 DEF Finish, Swapped
  <2>4. Rounds!FeedForward
    BY <1>6, <2>2, <2>3 DEF Finish, Rounds!FeedForward
  <2>5. QED
    BY <2>4 DEF Rounds!Next
<1>7. CASE UNCHANGED hvars
  BY <1>7 DEF hvars, vars, Rounds!vars
<1>8. ASSUME HNext
      PROVE  \/ FeistelFunction /\ before' = before
             \/ Next /\ ~FeistelFunction /\ before' = state'
  BY <1>8 DEF HNext
<1>9. ASSUME Next, ~FeistelFunction, before' = state'
      PROVE  [Rounds!Next]_(Rounds!vars)
  <2>1. CASE \E v \in Seed : Reset(v)
    BY <1>1, <1>9, <2>1 DEF Rounds!Next
  <2>2. CASE \E seed \in SeedBuffer : Absorb(seed)
    BY <1>2, <1>9, <2>2 DEF Rounds!Next
  <2>3. CASE Begin
    BY <1>3, <1>9, <2>3
  <2>4. CASE BlockShuffle
    BY <1>5, <1>9, <2>4
  <2>5. CASE Finish
    BY <1>6, <1>9, <2>5
  <2>6. QED
    BY <1>9, <2>1, <2>2, <2>3, <2>4, <2>5 DEF Next, GenerateStep
<1>10. QED
  BY <1>4, <1>7, <1>8, <1>9

\* The in-place network of randen.cc implements the network of its papers.
THEOREM RoundsRefinement == HSpec => ImplementsRounds
<1>1. QED
  BY RoundInvariant, RoundsInit, RoundsStep, PTL
     DEF HSpec, ImplementsRounds, Rounds!Spec

-----------------------------------------------------------------------------
PInv == KInv /\ other \in [Branch -> Block] /\ StayDifferent

LEMMA FunctionInjective ==
    ASSUME NEW e \in Block, NEW a \in Block, NEW b \in Block,
           NEW k \in 0 .. kKeys - 1, Function(e, a, k) = Function(e, b, k)
    PROVE  a = b
<1>1. AES(e, Key(k)) \in Block
  BY BlockAssumption
<1>2. QED
  BY <1>1, KeyAdditionAssumption DEF Function

\* A shuffle reads every block, so two buffers it makes equal were equal.
LEMMA ShuffleInjective ==
    ASSUME NEW s \in [Branch -> Block], NEW t \in [Branch -> Block],
           Shuffled(s) = Shuffled(t)
    PROVE  s = t
<1>1. ASSUME NEW b \in Branch PROVE s[b] = t[b]
  <2>1. PICK c \in Branch : shuffle[c] = b
    BY NetworkAssumption
  <2>2. Shuffled(s)[c] = s[b] /\ Shuffled(t)[c] = t[b]
    BY <2>1 DEF Shuffled
  <2>3. QED
    BY <2>2
<1>2. QED
  BY <1>1

LEMMA PairInit == PInit => PInv
<1> SUFFICES ASSUME PInit PROVE PInv
  OBVIOUS
<1>1. KInv
  BY KeyInit DEF PInit
<1>2. QED
  BY <1>1 DEF PInit, PInv, KInv, TypeOK, StayDifferent, Init

LEMMA PairStep == PInv /\ [PNext]_pvars => PInv'
<1> SUFFICES ASSUME PInv, [PNext]_pvars PROVE PInv'
  OBVIOUS
<1>1. KInv'
  BY KeyStep
     DEF PInv, PNext, PBegin, PFunction, PShuffle, POther, pvars, vars, Next,
         GenerateStep
<1>2. CASE PBegin
  <2>1. other' \in [Branch -> Block] /\ other' # state'
    BY <1>2, OthersAssumption DEF PBegin
  <2>2. QED
    BY <1>1, <2>1 DEF PInv, StayDifferent
<1>3. CASE PFunction
  <2>1. /\ branch \in Branch
        /\ branch + 1 \in Branch
        /\ branch # branch + 1
        /\ keys \in 0 .. kKeys - 1
    BY <1>3, AtFunction, SizeFacts DEF PInv, PFunction, FeistelFunction
  <2>2. /\ state \in [Branch -> Block]
        /\ other \in [Branch -> Block]
        /\ state # other
    BY <1>3 DEF PInv, KInv, TypeOK, StayDifferent, PFunction, FeistelFunction
  <2>3. Function(other[branch], other[branch + 1], keys) \in Block
    BY <2>1, <2>2, FunctionBlock
  <2>4. other' \in [Branch -> Block]
    BY <1>3, <2>1, <2>2, <2>3 DEF PFunction
  <2>5. \A b \in Branch : b # branch + 1 =>
          state'[b] = state[b] /\ other'[b] = other[b]
    BY <1>3, <2>2 DEF PFunction, FeistelFunction
  <2>6. /\ state'[branch + 1]
             = Function(state[branch], state[branch + 1], keys)
        /\ other'[branch + 1]
             = Function(other[branch], other[branch + 1], keys)
    BY <1>3, <2>1, <2>2 DEF PFunction, FeistelFunction
  <2>7. state' # other'
    <3>1. SUFFICES ASSUME state' = other' PROVE FALSE
      OBVIOUS
    <3>2. \A b \in Branch : b # branch + 1 => state[b] = other[b]
      BY <2>5, <3>1
    <3>3. state[branch] = other[branch]
      BY <2>1, <3>2
    <3>4. state[branch + 1] = other[branch + 1]
      <4>1. /\ state[branch] \in Block
            /\ state[branch + 1] \in Block
            /\ other[branch + 1] \in Block
        BY <2>1, <2>2
      <4>2. QED
        BY <2>1, <2>6, <3>1, <3>3, <4>1, FunctionInjective
    <3>5. \A b \in Branch : state[b] = other[b]
      BY <3>2, <3>4
    <3>6. QED
      BY <2>2, <3>5
  <2>8. QED
    BY <1>1, <2>4, <2>7 DEF PInv, StayDifferent
<1>4. CASE PShuffle
  <2>1. other' \in [Branch -> Block]
    BY <1>4, SizeFacts DEF PInv, PShuffle, Shuffled
  <2>2. state' # other'
    <3>1. state' = Shuffled(state) /\ other' = Shuffled(other)
      BY <1>4 DEF PShuffle, BlockShuffle
    <3>2. state # other
      BY <1>4 DEF PInv, StayDifferent, PShuffle, BlockShuffle
    <3>3. QED
      BY <3>1, <3>2, ShuffleInjective DEF PInv, KInv, TypeOK
  <2>3. QED
    BY <1>1, <2>1, <2>2 DEF PInv, StayDifferent
<1>5. CASE POther
  <2>1. other' = state' /\ pc' = "idle"
    BY <1>5 DEF POther, Reset, Absorb, Finish
  <2>2. QED
    BY <1>1, <2>1 DEF PInv, KInv, TypeOK, StayDifferent
<1>6. CASE UNCHANGED pvars
  BY <1>1, <1>6 DEF PInv, pvars, vars, StayDifferent
<1>7. QED
  BY <1>2, <1>3, <1>4, <1>5, <1>6 DEF PNext

\* Permute (randen.cc:217-242) maps different buffers to different buffers,
\* at its end and at every point on the way: it is a permutation of the
\* states whatever the substitution inside AES does, as long as the second
\* AES subround adds its key.
THEOREM PermuteInjective == PSpec => []StayDifferent
<1>1. PInv => StayDifferent
  BY DEF PInv
<1>2. QED
  BY <1>1, PairInit, PairStep, PTL DEF PSpec

-----------------------------------------------------------------------------
\* Block b of randen.cc as the port has it.
Ported(b) == IF pc = "idle" THEN SwapIfBigEndian(state[b]) ELSE state[b]

PortInv ==
    /\ KInv
    /\ port \in [1 .. STATE_LEN -> Block]
    /\ \A b \in Branch : port[b + 1] = Ported(b)
    /\ port_keys = keys
    /\ port_branch \in Nat
    /\ pc = "permute" => branch = 2 * port_branch
    /\ pc # "idle" => port_round = round /\ port_inner = SwapIfBigEndian(prev_inner)

\* Sequences count from 1.
LEMMA PortPlaces ==
    ASSUME SameNetwork
    PROVE  /\ Branch = 0 .. 15 /\ STATE_LEN = 16 /\ 0 \in Branch
           /\ \A b \in Branch : b + 1 \in 1 .. STATE_LEN /\ b \in Nat
           /\ \A k \in 1 .. STATE_LEN : k - 1 \in Branch /\ (k - 1) + 1 = k
           /\ \A b \in Branch : b # 0 => b - 1 \in 0 .. kFeistelBlocks - 2
  BY DEF SameNetwork, STATE_LEN, Branch

\* The state of the port, in the numbers of randen.cc.
LEMMA PortTyped ==
    ASSUME SameNetwork, NEW t, t = [k \in 1 .. STATE_LEN |-> t[k]],
           \A b \in Branch : t[b + 1] \in Block
    PROVE  t \in [1 .. STATE_LEN -> Block]
<1>1. ASSUME NEW k \in 1 .. STATE_LEN PROVE t[k] \in Block
  <2>1. k - 1 \in Branch /\ (k - 1) + 1 = k
    BY PortPlaces
  <2>2. t[(k - 1) + 1] \in Block
    BY <2>1
  <2>3. QED
    BY <2>1, <2>2
<1>2. QED
  BY <1>1

LEMMA SeedFacts ==
    ASSUME SameNetwork, NEW v \in Seed
    PROVE  /\ FromSeed(v) \in [1 .. STATE_LEN -> Block]
           /\ \A b \in Branch : FromSeed(v)[b + 1] = SwapIfBigEndian(Seeded(v)[b])
<1> DEFINE s == [k \in 1 .. STATE_LEN - 1 |-> SwapIfBigEndian(v)]
           t == FromSeed(v)
<1>1. v \in Block /\ SwapIfBigEndian(v) \in Block
  BY BlockAssumption
<1>2. t = [k \in 1 .. STATE_LEN |->
             IF k = 1 THEN new_unseeded[k] ELSE XOR(new_unseeded[k], s[k - 1])]
  BY DEF FromSeed, from_seed, randen_absorb
<1>3. ASSUME NEW b \in Branch
      PROVE  t[b + 1] = SwapIfBigEndian(Seeded(v)[b]) /\ t[b + 1] \in Block
  <2>1. b + 1 \in 1 .. STATE_LEN /\ b \in Nat
    BY PortPlaces
  <2>2. new_unseeded[b + 1] = Zero
    BY <2>1 DEF new_unseeded
  <2>3. CASE b = 0
    <3>1. t[b + 1] = Zero
      BY <1>2, <2>1, <2>2, <2>3
    <3>2. Seeded(v)[b] = Zero
      BY <2>3 DEF Seeded
    <3>3. QED
      BY <3>1, <3>2, BlockAssumption, SwapAssumption
  <2>4. CASE b # 0
    <3>1. (b + 1) - 1 \in 1 .. STATE_LEN - 1 /\ b + 1 # 1
      BY <2>4, PortPlaces
    <3>2. s[(b + 1) - 1] = SwapIfBigEndian(v)
      BY <3>1
    <3>3. t[b + 1] = XOR(Zero, SwapIfBigEndian(v))
      BY <1>2, <2>1, <2>2, <3>1, <3>2
    <3>4. Seeded(v)[b] = v
      BY <2>4 DEF Seeded
    <3>5. QED
      BY <1>1, <3>3, <3>4, SwapAssumption
  <2>5. QED
    BY <2>3, <2>4
<1>4. t = [k \in 1 .. STATE_LEN |-> t[k]]
  BY <1>2
<1>5. t \in [1 .. STATE_LEN -> Block]
  BY <1>3, <1>4, PortTyped
<1>6. QED
  BY <1>3, <1>5

LEMMA PortInit == SameNetwork /\ RInit => PortInv
<1> SUFFICES ASSUME SameNetwork, RInit PROVE PortInv
  OBVIOUS
<1>1. KInv /\ pc = "idle" /\ keys = 0
  BY KeyInit DEF RInit, Init
<1>2. PICK v \in Seed : state = Seeded(v)
  BY DEF RInit, Init
<1>3. 1 \in Branch
  BY PortPlaces
<1>4. state[1] = v
  BY <1>2, <1>3 DEF Seeded
<1>5. port = FromSeed(v)
  BY <1>4 DEF RInit
<1>6. port \in [1 .. STATE_LEN -> Block] /\ \A b \in Branch : port[b + 1] = Ported(b)
  BY <1>1, <1>2, <1>5, SeedFacts DEF Ported
<1>7. QED
  BY <1>1, <1>6 DEF RInit, PortInv

LEMMA PortReset ==
    ASSUME SameNetwork, PortInv, KInv', NEW v \in Seed, Reset(v), port' = FromSeed(v),
           UNCHANGED <<port_inner, port_round, port_branch, port_keys>>
    PROVE  PortInv'
<1>1. pc = "idle" /\ pc' = "idle" /\ state' = Seeded(v) /\ keys' = keys
  BY DEF Reset
<1>2. port' \in [1 .. STATE_LEN -> Block] /\ \A b \in Branch : port'[b + 1] = Ported(b)'
  BY <1>1, SeedFacts DEF Ported
<1>3. QED
  BY <1>1, <1>2 DEF PortInv

LEMMA PortAbsorb ==
    ASSUME SameNetwork, PortInv, KInv', NEW seed \in SeedBuffer, Absorb(seed),
           port' = randen_absorb(port, Converted(seed)),
           UNCHANGED <<port_inner, port_round, port_branch, port_keys>>
    PROVE  PortInv'
<1>1. pc = "idle" /\ pc' = "idle" /\ state' = Absorbed(state, seed) /\ keys' = keys
  BY DEF Absorb
<1>2. seed \in [0 .. kFeistelBlocks - 2 -> Block] /\ state \in [Branch -> Block]
  BY BlockAssumption DEF PortInv, KInv, TypeOK
<1>3. port' = [k \in 1 .. STATE_LEN |->
                 IF k = 1 THEN port[k] ELSE XOR(port[k], Converted(seed)[k - 1])]
  BY DEF randen_absorb
<1>4. ASSUME NEW b \in Branch
      PROVE  port'[b + 1] = SwapIfBigEndian(state'[b]) /\ state'[b] \in Block
  <2>1. b + 1 \in 1 .. STATE_LEN /\ b \in Nat /\ state[b] \in Block
    BY <1>2, PortPlaces
  <2>2. port[b + 1] = SwapIfBigEndian(state[b])
    BY <1>1 DEF PortInv, Ported
  <2>3. CASE b = 0
    <3>1. port'[b + 1] = port[b + 1] /\ state'[b] = state[b]
      BY <1>1, <1>3, <2>1, <2>3 DEF Absorbed
    <3>2. QED
      BY <2>1, <2>2, <3>1
  <2>4. CASE b # 0
    <3>1. b - 1 \in 0 .. kFeistelBlocks - 2 /\ seed[b - 1] \in Block
      BY <1>2, <2>4, PortPlaces
    <3>2. (b + 1) - 1 = b /\ b + 1 # 1 /\ b \in 1 .. STATE_LEN - 1
      BY <2>1, <2>4, PortPlaces
    <3>3. Converted(seed)[b] = SwapIfBigEndian(seed[b - 1])
      BY <3>2 DEF Converted
    <3>4. port'[b + 1] = XOR(SwapIfBigEndian(state[b]), SwapIfBigEndian(seed[b - 1]))
      BY <1>3, <2>1, <2>2, <3>2, <3>3
    <3>5. state'[b] = XOR(state[b], seed[b - 1])
      BY <1>1, <2>4 DEF Absorbed
    <3>6. /\ XOR(state[b], seed[b - 1]) \in Block
          /\ SwapIfBigEndian(XOR(state[b], seed[b - 1]))
               = XOR(SwapIfBigEndian(state[b]), SwapIfBigEndian(seed[b - 1]))
      BY <2>1, <3>1, SwapAssumption, BlockAssumption
    <3>7. QED
      BY <3>4, <3>5, <3>6
  <2>5. QED
    BY <2>3, <2>4
<1>5. \A b \in Branch : port'[b + 1] = Ported(b)' /\ port'[b + 1] \in Block
  BY <1>1, <1>4, BlockAssumption DEF Ported
<1>6. port' = [k \in 1 .. STATE_LEN |-> port'[k]]
  BY <1>3
<1>7. port' \in [1 .. STATE_LEN -> Block]
  BY <1>5, <1>6, PortTyped
<1>8. QED
  BY <1>1, <1>5, <1>7 DEF PortInv

LEMMA PortBegin ==
    ASSUME SameNetwork, PortInv, KInv', Begin, RustBegin
    PROVE  PortInv'
<1>1. /\ pc = "idle" /\ pc' = "permute" /\ state' = Swapped(state) /\ keys' = 0
      /\ branch' = 0 /\ round' = 0 /\ prev_inner' = state[0]
  BY DEF Begin
<1>2. /\ port' = port /\ port_inner' = port[1]
      /\ port_round' = 0 /\ port_branch' = 0 /\ port_keys' = 0
  BY DEF RustBegin
<1>3. \A b \in Branch : port[b + 1] = SwapIfBigEndian(state[b])
  BY <1>1 DEF PortInv, Ported
<1>4. \A b \in Branch : port'[b + 1] = Ported(b)'
  BY <1>1, <1>2, <1>3 DEF Ported, Swapped
<1>5. port_inner' = SwapIfBigEndian(prev_inner')
  <2>1. port[0 + 1] = SwapIfBigEndian(state[0])
    BY <1>3, PortPlaces
  <2>2. QED
    BY <1>1, <1>2, <2>1
<1>6. QED
  BY <1>1, <1>2, <1>4, <1>5 DEF PortInv

LEMMA PortFunction ==
    ASSUME SameNetwork, PortInv, KInv', FeistelFunction, RustFunction
    PROVE  PortInv'
<1> DEFINE q == port_branch
<1>1. /\ pc = "permute" /\ pc' = "permute" /\ branch < kFeistelBlocks
      /\ branch' = branch + 2 /\ keys' = keys + 1 /\ prev_inner' = prev_inner
      /\ state' = [state EXCEPT ![branch + 1] = Function(state[branch], @, keys)]
  BY DEF FeistelFunction
<1>2. /\ port' = [port EXCEPT ![2 * q + 2] = AES(AES(port[2 * q + 1], Key(port_keys)), @)]
      /\ port_keys' = port_keys + 1 /\ port_branch' = q + 1 /\ port_inner' = port_inner
  BY DEF RustFunction
<1>3. /\ branch = 2 * q /\ q \in Nat /\ port_keys = keys
      /\ port \in [1 .. STATE_LEN -> Block] /\ state \in [Branch -> Block]
      /\ \A b \in Branch : port[b + 1] = state[b]
  BY <1>1 DEF PortInv, Ported, KInv, TypeOK
<1>4. branch \in Branch /\ branch + 1 \in Branch
  BY <1>1, AtFunction DEF PortInv
<1>5. /\ 2 * q + 1 = branch + 1 /\ 2 * q + 2 = (branch + 1) + 1
      /\ (branch + 1) + 1 \in 1 .. STATE_LEN
  BY <1>3, <1>4, PortPlaces
<1>6. port[2 * q + 1] = state[branch] /\ port[2 * q + 2] = state[branch + 1]
  BY <1>3, <1>4, <1>5
<1> DEFINE new == Function(state[branch], state[branch + 1], keys)
<1>7. state' = [state EXCEPT ![branch + 1] = new]
  BY <1>1
<1>8. port' = [port EXCEPT ![(branch + 1) + 1] = new]
  BY <1>2, <1>3, <1>5, <1>6 DEF Function
<1> HIDE DEF new, q
<1>9. ASSUME NEW b \in Branch PROVE port'[b + 1] = state'[b]
  <2>1. CASE b = branch + 1
    BY <1>3, <1>4, <1>5, <1>7, <1>8, <2>1
  <2>2. CASE b # branch + 1
    <3>1. b + 1 # (branch + 1) + 1
      BY <1>4, <2>2, PortPlaces
    <3>2. port'[b + 1] = port[b + 1]
      BY <1>3, <1>8, <3>1, PortPlaces
    <3>3. QED
      BY <1>3, <1>7, <2>2, <3>2
  <2>3. QED
    BY <2>1, <2>2
<1>10. \A b \in Branch : port'[b + 1] = Ported(b)' /\ port'[b + 1] \in Block
  BY <1>1, <1>9 DEF Ported, KInv, TypeOK
<1>11. port' = [k \in 1 .. STATE_LEN |-> port'[k]]
  BY <1>3, <1>8
<1>12. port' \in [1 .. STATE_LEN -> Block]
  BY <1>10, <1>11, PortTyped
<1>13. branch' = 2 * port_branch' /\ port_branch' \in Nat
  BY <1>1, <1>2, <1>3
<1>14. /\ port_keys' = keys' /\ port_inner' = SwapIfBigEndian(prev_inner')
       /\ port_round' = round'
  BY <1>1, <1>2, <1>3 DEF PortInv, FeistelFunction, RustFunction
<1>15. QED
  BY <1>10, <1>12, <1>13, <1>14 DEF PortInv

LEMMA PortShuffle ==
    ASSUME SameNetwork, PortInv, KInv', BlockShuffle, RustShuffle
    PROVE  PortInv'
<1>1. /\ pc = "permute" /\ pc' # "idle" /\ state' = Shuffled(state)
      /\ round' = round + 1 /\ branch' = 0 /\ UNCHANGED <<keys, prev_inner>>
  BY DEF BlockShuffle
<1>2. /\ port' = block_shuffle(port) /\ port_round' = port_round + 1 /\ port_branch' = 0
      /\ UNCHANGED <<port_inner, port_keys>>
  BY DEF RustShuffle
<1>3. ASSUME NEW b \in Branch PROVE port'[b + 1] = state'[b]
  <2>1. b + 1 \in 1 .. STATE_LEN /\ shuffle[b] = RustTable[b + 1] /\ shuffle[b] \in Branch
    BY PortPlaces, SizeFacts DEF SameNetwork
  <2>2. port'[b + 1] = port[shuffle[b] + 1]
    BY <1>2, <2>1 DEF block_shuffle
  <2>3. state'[b] = state[shuffle[b]]
    BY <1>1 DEF Shuffled
  <2>4. QED
    BY <1>1, <2>1, <2>2, <2>3 DEF PortInv, Ported
<1>4. \A b \in Branch : port'[b + 1] = Ported(b)' /\ port'[b + 1] \in Block
  BY <1>1, <1>3 DEF Ported, KInv, TypeOK
<1>5. port' = [k \in 1 .. STATE_LEN |-> port'[k]]
  BY <1>2 DEF block_shuffle
<1>6. port' \in [1 .. STATE_LEN -> Block]
  BY <1>4, <1>5, PortTyped
<1>7. QED
  BY <1>1, <1>2, <1>4, <1>6 DEF PortInv

\* The words of the inner block are folded back in the order of memory by
\* the one, and of the registers by the other.
LEMMA PortFinish ==
    ASSUME SameNetwork, PortInv, KInv', Finish, RustFinish
    PROVE  PortInv'
<1>1. /\ pc = "finish" /\ pc' = "idle" /\ UNCHANGED keys
      /\ state' = [Swapped(state) EXCEPT ![0] = XOR(@, prev_inner)]
  BY DEF Finish
<1>2. /\ port' = [port EXCEPT ![1] = XOR(@, port_inner)]
      /\ UNCHANGED <<port_inner, port_round, port_branch, port_keys>>
  BY DEF RustFinish
<1>3. /\ port \in [1 .. STATE_LEN -> Block] /\ state \in [Branch -> Block]
      /\ prev_inner \in Block /\ port_inner = SwapIfBigEndian(prev_inner)
      /\ \A b \in Branch : port[b + 1] = state[b]
  BY <1>1 DEF PortInv, Ported, KInv, TypeOK
<1>4. ASSUME NEW b \in Branch PROVE port'[b + 1] = SwapIfBigEndian(state'[b])
  <2>1. b + 1 \in 1 .. STATE_LEN /\ b \in Nat /\ state[b] \in Block
        /\ SwapIfBigEndian(state[b]) \in Block
    BY <1>3, PortPlaces, BlockAssumption
  <2>2. CASE b = 0
    <3>1. state'[b] = XOR(SwapIfBigEndian(state[b]), prev_inner)
      BY <1>1, <2>2, PortPlaces DEF Swapped
    <3>2. port'[b + 1] = XOR(state[b], SwapIfBigEndian(prev_inner))
      BY <1>2, <1>3, <2>1, <2>2
    <3>3. SwapIfBigEndian(XOR(SwapIfBigEndian(state[b]), prev_inner))
            = XOR(SwapIfBigEndian(SwapIfBigEndian(state[b])), SwapIfBigEndian(prev_inner))
      BY <1>3, <2>1, SwapAssumption
    <3>4. SwapIfBigEndian(SwapIfBigEndian(state[b])) = state[b]
      BY <2>1, SwapAssumption
    <3>5. QED
      BY <3>1, <3>2, <3>3, <3>4
  <2>3. CASE b # 0
    <3>1. state'[b] = SwapIfBigEndian(state[b])
      BY <1>1, <2>3 DEF Swapped
    <3>2. b + 1 # 1
      BY <2>1, <2>3
    <3>3. port'[b + 1] = state[b]
      BY <1>2, <1>3, <2>1, <3>2
    <3>4. QED
      BY <2>1, <3>1, <3>3, SwapAssumption
  <2>4. QED
    BY <2>2, <2>3
<1>5. \A b \in Branch : port'[b + 1] = Ported(b)' /\ port'[b + 1] \in Block
  BY <1>1, <1>4, BlockAssumption DEF Ported, KInv, TypeOK
<1>6. port' = [k \in 1 .. STATE_LEN |-> port'[k]]
  BY <1>2, <1>3
<1>7. port' \in [1 .. STATE_LEN -> Block]
  BY <1>5, <1>6, PortTyped
<1>8. QED
  BY <1>1, <1>2, <1>5, <1>7 DEF PortInv

LEMMA PortStep == SameNetwork /\ PortInv /\ [RNext]_rvars => PortInv'
<1> SUFFICES ASSUME SameNetwork, PortInv, [RNext]_rvars PROVE PortInv'
  OBVIOUS
<1>1. KInv'
  BY KeyStep DEF PortInv, RNext, rvars, vars, Next, GenerateStep
<1>2. ASSUME NEW v \in Seed, Reset(v), port' = FromSeed(v),
             UNCHANGED <<port_inner, port_round, port_branch, port_keys>>
      PROVE  PortInv'
  BY <1>1, <1>2, PortReset
<1>3. ASSUME NEW seed \in SeedBuffer, Absorb(seed),
             port' = randen_absorb(port, Converted(seed)),
             UNCHANGED <<port_inner, port_round, port_branch, port_keys>>
      PROVE  PortInv'
  BY <1>1, <1>3, PortAbsorb
<1>4. CASE UNCHANGED rvars
  BY <1>1, <1>4 DEF rvars, vars, portVars, PortInv, Ported
<1>5. QED
  BY <1>1, <1>2, <1>3, <1>4, PortBegin, PortFunction, PortShuffle, PortFinish DEF RNext

\* The state of the Rust port (lib.rs:211-283) is that of randen.cc after
\* every function, round and Generate, and after every seed and entropy, for
\* all keys, blocks and AES, if the two have the same shuffle table and the
\* same number of rounds; its iterator over the keys is never asked for more
\* than there are, and its loops are where those of randen.cc are.
THEOREM PortIsRanden ==
    ASSUME SameNetwork
    PROVE  RSpec => []SameAsPort
<1>1. PortInv => SameAsPort
  <2>1. ASSUME PortInv PROVE SameAsPort
    <3>1. keys <= kKeys
      BY <2>1, SizeFacts DEF PortInv, KInv, TypeOK
    <3>2. pc # "idle" => (port_round < FEISTEL_ROUNDS <=> pc = "permute")
      BY <2>1 DEF PortInv, KInv, TypeOK, AtPair, SameNetwork, FEISTEL_ROUNDS
    <3>3. pc = "permute" => (port_branch < FEISTEL_FUNCTIONS <=> branch < kFeistelBlocks)
      BY <2>1 DEF PortInv, SameNetwork, STATE_LEN, FEISTEL_FUNCTIONS
    <3>4. QED
      BY <2>1, <3>1, <3>2, <3>3 DEF PortInv, Ported, SameAsPort
  <2>2. QED
    BY <2>1
<1>2. RInit => PortInv
  BY PortInit
<1>3. PortInv /\ [RNext]_rvars => PortInv'
  BY PortStep
<1>4. QED
  BY <1>1, <1>2, <1>3, PTL DEF RSpec

-----------------------------------------------------------------------------
(* Diffusion.                                                              *)

\* A round in which the functions of the pairs before `done` are made.
InRound(d, done) ==
    [b \in Branch |-> IF b % 2 = 1 /\ b < done THEN d[b] \cup d[b - 1] ELSE d[b]]

\* Rounds are counted from the last diffusion.
Diffusing(D, K, s) ==
    /\ s \in 0 .. K - 1
    /\ round = K * diffusions + s
    /\ dep = InRound(D[s], branch)

DiffusionInv(D, K) ==
    /\ KInv
    /\ diffusions \in Nat
    /\ pc = "permute" => \E s \in Nat : Diffusing(D, K, s)
    /\ pc = "finish" => diffusions >= 2

LEMMA InRoundFacts ==
    ASSUME NEW d, d = [b \in Branch |-> d[b]]
    PROVE  /\ InRound(d, 0) = d
           /\ \A n \in Nat : n >= kFeistelBlocks => Shuffled(InRound(d, n)) = AfterRound(d)
<1>1. ASSUME NEW b \in Branch PROVE ~ b < 0
  BY DEF Branch
<1>2. InRound(d, 0) = d
  BY <1>1 DEF InRound
<1>3. ASSUME NEW n \in Nat, n >= kFeistelBlocks, NEW b \in Branch
      PROVE  Shuffled(InRound(d, n))[b] = AfterRound(d)[b]
  <2>1. shuffle[b] \in Branch /\ shuffle[b] < n
    BY <1>3, SizeFacts
  <2>2. QED
    BY <2>1 DEF Shuffled, InRound, AfterRound
<1>4. QED
  BY <1>2, <1>3 DEF Shuffled, AfterRound

\* Every state of the sequence is one of sets, block by block.
LEMMA DependencyFacts ==
    ASSUME NEW K \in Nat, NEW D, FullAfter(D, K), NEW n \in 0 .. K
    PROVE  D[n] = [b \in Branch |-> D[n][b]]
<1>1. CASE n = 0
  BY <1>1 DEF FullAfter, Identity
<1>2. CASE n # 0
  <2>1. n - 1 \in 0 .. K - 1 /\ (n - 1) + 1 = n
    BY <1>2
  <2>2. D[n] = AfterRound(D[n - 1])
    BY <2>1 DEF FullAfter
  <2>3. QED
    BY <2>2 DEF AfterRound
<1>3. QED
  BY <1>1, <1>2

\* A round less than K behind two diffusions is not the 2 * K-th.
LEMMA TwoDiffusions ==
    ASSUME NEW K \in Nat, NEW n \in Nat, NEW s \in 0 .. K - 1, K * n + s >= 2 * K
    PROVE  n >= 2
<1>1. CASE n = 0
  BY <1>1
<1>2. CASE n = 1
  BY <1>2
<1>3. QED
  BY <1>1, <1>2

LEMMA DiffusionFunction ==
    ASSUME NEW K \in Nat \ {0}, NEW D, FullAfter(D, K),
           DiffusionInv(D, K), DFunction, KInv'
    PROVE  DiffusionInv(D, K)'
<1>1. /\ pc = "permute" /\ pc' = "permute" /\ branch' = branch + 2 /\ round' = round
      /\ branch < kFeistelBlocks /\ diffusions' = diffusions
      /\ dep' = [dep EXCEPT ![branch + 1] = dep[branch + 1] \cup dep[branch]]
  BY DEF DFunction, FeistelFunction
<1>2. PICK s \in Nat : Diffusing(D, K, s)
  BY <1>1 DEF DiffusionInv
<1>3. PICK p \in 0 .. kFeistelFunctions - 1 :
        branch = 2 * p /\ branch \in Branch /\ branch + 1 \in Branch
  BY <1>1, AtFunction DEF DiffusionInv
<1> DEFINE d == D[s]
<1>4. dep = InRound(d, branch) /\ p \in Nat /\ branch \in Nat
  BY <1>2, <1>3, SizeFacts DEF Diffusing
<1> HIDE DEF d
<1>5. /\ branch % 2 = 0 /\ (branch + 1) % 2 = 1
      /\ dep[branch + 1] = d[branch + 1] /\ dep[branch] = d[branch]
  <2>1. (2 * p) % 2 = 0 /\ (2 * p + 1) % 2 = 1
    BY <1>4
  <2>2. branch % 2 = 0 /\ (branch + 1) % 2 = 1
    BY <1>3, <2>1
  <2>3. QED
    BY <1>3, <1>4, <2>2 DEF InRound
<1>6. ASSUME NEW b \in Branch
      PROVE  dep'[b] = InRound(d, branch + 2)[b]
  <2>1. b \in Nat
    BY SizeFacts
  <2>2. CASE b = branch + 1
    <3>1. dep'[b] = d[b] \cup d[branch]
      BY <1>1, <1>3, <1>4, <1>5, <2>2 DEF InRound
    <3>2. InRound(d, branch + 2)[b] = d[b] \cup d[b - 1] /\ b - 1 = branch
      BY <1>4, <1>5, <2>2 DEF InRound
    <3>3. QED
      BY <3>1, <3>2
  <2>3. CASE b = branch
    BY <1>1, <1>4, <1>5, <2>3 DEF InRound
  <2>4. CASE b # branch /\ b # branch + 1
    <3>1. b < branch <=> b < branch + 2
      BY <1>4, <2>1, <2>4
    <3>2. dep'[b] = dep[b]
      BY <1>1, <1>4, <2>4 DEF InRound
    <3>3. QED
      BY <1>4, <3>1, <3>2 DEF InRound
  <2>5. QED
    BY <2>2, <2>3, <2>4
<1>7. dep' = InRound(d, branch + 2)
  BY <1>1, <1>4, <1>6 DEF InRound
<1>8. Diffusing(D, K, s)'
  BY <1>1, <1>2, <1>7 DEF Diffusing, d
<1>9. QED
  BY <1>1, <1>8 DEF DiffusionInv

LEMMA DiffusionShuffle ==
    ASSUME NEW K \in Nat \ {0}, NEW D, FullAfter(D, K), 2 * K <= kFeistelRounds,
           DiffusionInv(D, K), DShuffle, KInv'
    PROVE  DiffusionInv(D, K)'
<1>1. /\ pc = "permute" /\ branch >= kFeistelBlocks
      /\ round' = round + 1 /\ branch' = 0
      /\ pc' \in {"permute", "finish"}
  BY DEF DShuffle, BlockShuffle
<1>2. PICK s \in Nat : Diffusing(D, K, s)
  BY <1>1 DEF DiffusionInv
<1>3. s \in 0 .. K - 1 /\ s + 1 \in 1 .. K /\ s \in 0 .. K /\ s + 1 \in 0 .. K /\ 0 \in 0 .. K
  BY <1>2 DEF Diffusing
<1>4. /\ dep = InRound(D[s], branch) /\ round = K * diffusions + s
      /\ branch \in Nat /\ diffusions \in Nat
  BY <1>2, SizeFacts DEF Diffusing, DiffusionInv, KInv, TypeOK
<1>5. Shuffled(dep) = D[s + 1]
  <2>1. D[s] = [b \in Branch |-> D[s][b]]
    BY <1>3, DependencyFacts
  <2>2. Shuffled(InRound(D[s], branch)) = AfterRound(D[s])
    BY <2>1, <1>1, <1>4, InRoundFacts
  <2>3. D[s + 1] = AfterRound(D[s])
    BY <1>3 DEF FullAfter
  <2>4. QED
    BY <1>4, <2>2, <2>3, Zenon
<1>6. Full(D[s + 1]) <=> s + 1 = K
  BY <1>3 DEF FullAfter
<1>7. PICK t \in 0 .. K - 1 :
        /\ round' = K * diffusions' + t
        /\ dep' = D[t]
        /\ diffusions' \in Nat
  <2>1. CASE s + 1 = K
    <3>1. dep' = Identity /\ diffusions' = diffusions + 1
      BY <1>5, <1>6, <2>1 DEF DShuffle
    <3>2. D[0] = Identity
      BY DEF FullAfter
    <3>3. K * (diffusions + 1) = K * diffusions + K
      BY <1>4
    <3>4. round' = K * diffusions' + 0
      BY <1>1, <1>4, <2>1, <3>1, <3>3
    <3>5. QED
      BY <1>4, <3>1, <3>2, <3>4
  <2>2. CASE s + 1 # K
    <3>1. dep' = D[s + 1] /\ diffusions' = diffusions
      BY <1>5, <1>6, <2>2 DEF DShuffle
    <3>2. s + 1 \in 0 .. K - 1
      BY <1>3, <2>2
    <3>3. round' = K * diffusions' + (s + 1)
      <4>1. K * diffusions \in Nat
        BY <1>4
      <4>2. QED
        BY <1>1, <1>4, <3>1, <4>1
    <3>4. QED
      BY <1>4, <3>1, <3>2, <3>3
  <2>3. QED
    BY <2>1, <2>2
<1>8. t \in Nat /\ t \in 0 .. K
  BY <1>7
<1>9. dep' = InRound(D[t], branch')
  <2>1. D[t] = [b \in Branch |-> D[t][b]]
    BY <1>8, DependencyFacts
  <2>2. InRound(D[t], 0) = D[t]
    BY <2>1, InRoundFacts
  <2>3. QED
    BY <1>1, <1>7, <2>2
<1>10. Diffusing(D, K, t)'
  BY <1>7, <1>9 DEF Diffusing
<1>11. pc' = "finish" => diffusions' >= 2
  <2>1. pc' = "finish" => round' = kFeistelRounds
    BY DEF KInv, AtPair
  <2>2. pc' = "finish" => K * diffusions' + t >= 2 * K
    BY <1>7, <2>1, SizeFacts
  <2>3. QED
    BY <1>7, <2>2, TwoDiffusions
<1>12. QED
  BY <1>7, <1>8, <1>10, <1>11 DEF DiffusionInv

\* "Two full subblock diffusions" (randen.cc:49), for every shuffle: if a
\* table, from one round to the next, diffuses fully in K rounds and there are
\* twice as many, the loops, in place and function by function, make two full
\* diffusions, the second one from nothing (TwoFullDiffusions).
THEOREM DiffusesTwice ==
    ASSUME NEW K \in Nat \ {0}, NEW D, FullAfter(D, K), 2 * K <= kFeistelRounds
    PROVE  DSpec => []TwoFullDiffusions
<1>1. DInit => DiffusionInv(D, K)
  BY KeyInit DEF DInit, Init, DiffusionInv
<1>2. ASSUME DiffusionInv(D, K), [DNext]_dvars
      PROVE  DiffusionInv(D, K)'
  <2>1. KInv'
    BY <1>2, KeyStep
      DEF DiffusionInv, DNext, DFunction, DShuffle, DOther, dvars, vars, Next, GenerateStep
  <2>2. CASE DFunction
    BY <1>2, <2>1, <2>2, DiffusionFunction
  <2>3. CASE DShuffle
    BY <1>2, <2>1, <2>3, DiffusionShuffle
  <2>4. CASE DOther /\ Begin
    <3>1. /\ pc' = "permute" /\ round' = 0 /\ branch' = 0
          /\ dep' = Identity /\ diffusions' = 0
      BY <2>4 DEF DOther, Begin
    <3>2. 0 \in 0 .. K /\ 0 \in 0 .. K - 1 /\ K * 0 + 0 = 0
      OBVIOUS
    <3>3. D[0] = Identity /\ InRound(D[0], 0) = D[0]
      <4>1. D[0] = [b \in Branch |-> D[0][b]]
        BY <3>2, DependencyFacts
      <4>2. InRound(D[0], 0) = D[0]
        BY <4>1, InRoundFacts
      <4>3. QED
        BY <4>2 DEF FullAfter
    <3>4. Diffusing(D, K, 0)'
      BY <3>1, <3>2, <3>3 DEF Diffusing
    <3>5. QED
      BY <2>1, <3>1, <3>4 DEF DiffusionInv
  <2>5. CASE DOther /\ ~ Begin
    <3>1. pc' = "idle" /\ diffusions' = diffusions
      BY <2>5 DEF DOther, Reset, Absorb, Finish
    <3>2. QED
      BY <1>2, <2>1, <3>1 DEF DiffusionInv
  <2>6. CASE UNCHANGED dvars
    BY <1>2, <2>1, <2>6 DEF dvars, vars, DiffusionInv, Diffusing
  <2>7. QED
    BY <1>2, <2>2, <2>3, <2>4, <2>5, <2>6 DEF DNext
<1>3. DiffusionInv(D, K) => TwoFullDiffusions
  BY DEF DiffusionInv, TwoFullDiffusions
<1>4. QED
  BY <1>1, <1>2, <1>3, PTL DEF DSpec
=============================================================================
