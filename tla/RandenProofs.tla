---------------------------- MODULE RandenProofs ----------------------------
(***************************************************************************)
(* Theorems about Randen, for every number of engines, every size of the   *)
(* buffer and of its inner part, and all bounds: the type invariant, the   *)
(* invariant that the buffer never offers a word it must not, that == is   *)
(* equality of futures, that the engine implements RandomStream, and that  *)
(* operator>> restores what operator<< wrote.                              *)
(***************************************************************************)
EXTENDS Randen, StreamIO, SequenceTheorems, TLAPS

-----------------------------------------------------------------------------
(* Arithmetic of blocks.                                                   *)

\* A block has at least one word (randen.h:137, 198-199).
LEMMA RateFacts ==
    /\ kRateT \in Nat
    /\ kRateT >= 1
    /\ kStateT = kCapacityT + kRateT
    /\ kCapacityT \in Nat
    /\ kStateT \in Nat
    /\ MaxGenerate \in Nat
    /\ MaxDiscard \in Nat
  BY SizeAssumption, BoundAssumption DEF kRateT

\* One more run of Generate (randen.cc:270) is one more block of the tape.
LEMMA NextBlock ==
    ASSUME NEW g \in Int, NEW r \in Int
    PROVE  (g + 1) * r = g * r + r
  OBVIOUS

\* There is no room without a block that is still to be generated.
LEMMA RoomMeansBlock ==
    ASSUME NEW g \in Nat, NEW m \in Nat, NEW r \in Nat, NEW n \in Int,
           g <= m, n > 0, n <= (m - g) * r
    PROVE  g + 1 <= m
<1>1. SUFFICES ASSUME g = m PROVE FALSE
  OBVIOUS
<1>2. (m - g) * r = 0 * r
  BY <1>1
<1>3. QED
  BY <1>2

\* The room that is left shrinks by one block per run of Generate.
LEMMA RoomShrinks ==
    ASSUME NEW g \in Int, NEW m \in Int, NEW r \in Int
    PROVE  (m - (g + 1)) * r = (m - g) * r - r
<1>1. m - g = (m - (g + 1)) + 1
  OBVIOUS
<1>2. QED
  BY <1>1, NextBlock, m - (g + 1) \in Int

\* What two engines have left of a block, and how many blocks they are in,
\* can be read off their positions.
LEMMA PositionUnique ==
    ASSUME NEW g \in Nat, NEW h \in Nat, NEW r \in Nat,
           NEW i \in 0 .. r - 1, NEW j \in 0 .. r - 1,
           g * r - i = h * r - j
    PROVE  g = h /\ i = j
<1>1. ASSUME NEW a \in Nat, NEW b \in Nat, a < b
      PROVE  b * r >= a * r + r
  <2>1. PICK k \in Nat : b = (a + 1) + k
    <3>1. b - (a + 1) \in Nat
      BY <1>1
    <3>2. QED
      BY <3>1
  <2>2. b * r = (a + 1) * r + k * r
    BY <2>1
  <2>3. k * r >= 0
    OBVIOUS
  <2>4. (a + 1) * r = a * r + r
    BY NextBlock
  <2>5. QED
    BY <2>2, <2>3, <2>4
<1>2. g * r \in Int /\ h * r \in Int
  OBVIOUS
<1>3. ~(g < h)
  BY <1>1, <1>2
<1>4. ~(h < g)
  BY <1>1, <1>2
<1>5. g = h
  BY <1>3, <1>4
<1>6. QED
  BY <1>5, <1>2

-----------------------------------------------------------------------------
(* The inductive invariant.                                                *)

LEMMA HistoryUpdate ==
    ASSUME NEW s \in Content, NEW x \in Entropy
    PROVE  /\ Absorb(x, s) \in Content
           /\ Absorb(x, s).gens = s.gens
           /\ Absorb(x, s).seed = s.seed
           /\ Absorb(x, s).absorbed
                = [s.absorbed EXCEPT ![s.gens] = Toggle(@, x)]
           /\ \A b \in 0 .. MaxGenerate :
                b # s.gens => Absorb(x, s).absorbed[b] = s.absorbed[b]
  BY DEF Absorb, Toggle, Content, History

LEMMA FilledContent ==
    ASSUME NEW v \in Seed
    PROVE  /\ Filled(v) \in Content
           /\ Filled(v).gens = 0
           /\ Filled(v).seed = v
           /\ \A b \in 0 .. MaxGenerate : Filled(v).absorbed[b] = {}
  BY RateFacts DEF Filled, Content, History

LEMMA GeneratedContent ==
    ASSUME NEW s \in Content, s.gens + 1 <= MaxGenerate
    PROVE  /\ Generate(s) \in Content
           /\ Generate(s).gens = s.gens + 1
           /\ Generate(s).seed = s.seed
           /\ Generate(s).absorbed = s.absorbed
  BY RateFacts DEF Generate, Content, History

LEMMA InitInvariant == Init => IInv
<1> SUFFICES ASSUME Init PROVE IInv
  OBVIOUS
<1>1. /\ state_ \in [Engine -> Content]
      /\ \A e \in Engine : state_[e].gens = 0
      /\ \A e \in Engine : \A b \in 0 .. MaxGenerate : state_[e].absorbed[b] = {}
  BY FilledContent DEF Init
<1>2. TypeOK
  BY <1>1, RateFacts DEF Init, TypeOK
<1>3. OnlyGeneratedWords /\ Canonical
  BY RateFacts DEF Init, OnlyGeneratedWords, Canonical
<1>4. RoomForDiscard
  <2> SUFFICES ASSUME NEW e \in Engine
               PROVE  count[e] <= (MaxGenerate - state_[e].gens) * kRateT
    BY DEF RoomForDiscard
  <2>1. MaxGenerate * kRateT >= 0
    BY RateFacts
  <2>2. MaxGenerate - state_[e].gens = MaxGenerate
    BY <1>1, RateFacts
  <2>3. count[e] = 0
    BY DEF Init
  <2>4. QED
    BY <2>1, <2>2, <2>3
<1>5. NoFutureEntropy
  BY <1>1 DEF NoFutureEntropy
<1>6. QED
  BY <1>2, <1>3, <1>4, <1>5 DEF IInv

\* What the invariant says of one engine with content s, index n, count c.
EngineOK(s, n, c) ==
    /\ n < kStateT => /\ s.gens > 0
                      /\ s.absorbed[s.gens] = {}
                      /\ n >= kCapacityT
    /\ c = 0 => n > kCapacityT
    /\ c <= (MaxGenerate - s.gens) * kRateT
    /\ \A b \in 0 .. MaxGenerate : b > s.gens => s.absorbed[b] = {}

LEMMA EachEngineOK ==
    ASSUME IInv, NEW e \in Engine
    PROVE  /\ state_[e] \in Content
           /\ next_[e] \in kCapacityT .. kStateT
           /\ count[e] \in 0 .. MaxDiscard
           /\ EngineOK(state_[e], next_[e], count[e])
  BY DEF IInv, TypeOK, OnlyGeneratedWords, Canonical, RoomForDiscard,
         NoFutureEntropy, EngineOK, Idle

\* A step that changes one engine keeps the invariant if it leaves that
\* engine in order.
LEMMA OneEngine ==
    ASSUME IInv, NEW e \in Engine,
           NEW s \in Content, NEW n \in kCapacityT .. kStateT,
           NEW c \in 0 .. MaxDiscard, EngineOK(s, n, c),
           state_' = [state_ EXCEPT ![e] = s],
           next_' = [next_ EXCEPT ![e] = n],
           count' = [count EXCEPT ![e] = c],
           ret' \in Word \cup {NoWord},
           asked' \in 0 .. MaxDiscard
    PROVE  IInv'
<1>1. TypeOK'
  BY DEF IInv, TypeOK
<1>2. ASSUME NEW f \in Engine
      PROVE  EngineOK(state_'[f], next_'[f], count'[f])
  <2>1. CASE f = e
    BY <2>1 DEF IInv, TypeOK
  <2>2. CASE f # e
    <3>1. EngineOK(state_[f], next_[f], count[f])
      BY EachEngineOK
    <3>2. /\ state_'[f] = state_[f]
          /\ next_'[f] = next_[f]
          /\ count'[f] = count[f]
      BY <2>2 DEF IInv, TypeOK
    <3>3. QED
      BY <3>1, <3>2
  <2>3. QED
    BY <2>1, <2>2
<1>3. /\ OnlyGeneratedWords'
      /\ Canonical'
      /\ RoomForDiscard'
      /\ NoFutureEntropy'
  BY <1>2 DEF OnlyGeneratedWords, Canonical, RoomForDiscard, NoFutureEntropy,
              EngineOK, Idle
<1>4. QED
  BY <1>1, <1>3 DEF IInv

LEMMA NoChange ==
    ASSUME IInv, NEW e \in Engine
    PROVE  /\ state_ = [state_ EXCEPT ![e] = state_[e]]
           /\ next_ = [next_ EXCEPT ![e] = next_[e]]
           /\ count = [count EXCEPT ![e] = count[e]]
  BY DEF IInv, TypeOK

\* The room in front of an engine is never negative.
LEMMA RoomNonnegative ==
    ASSUME NEW s \in Content
    PROVE  /\ (MaxGenerate - s.gens) * kRateT \in Nat
           /\ s.gens \in 0 .. MaxGenerate
  BY RateFacts DEF Content

\* A buffer from which no word is offered.
LEMMA EmptyOK ==
    ASSUME NEW s \in Content,
           \A b \in 0 .. MaxGenerate : b > s.gens => s.absorbed[b] = {}
    PROVE  EngineOK(s, kStateT, 0)
  BY RoomNonnegative, RateFacts DEF EngineOK

\* Absorbing leaves what lies beyond the next block alone.
LEMMA AbsorbedOK ==
    ASSUME NEW s \in Content, NEW x \in Entropy,
           \A b \in 0 .. MaxGenerate : b > s.gens => s.absorbed[b] = {}
    PROVE  /\ Absorb(x, s) \in Content
           /\ EngineOK(Absorb(x, s), kStateT, 0)
<1>1. Absorb(x, s) \in Content
  BY HistoryUpdate
<1>2. \A b \in 0 .. MaxGenerate :
        b > Absorb(x, s).gens => Absorb(x, s).absorbed[b] = {}
  <2> SUFFICES ASSUME NEW b \in 0 .. MaxGenerate, b > s.gens
               PROVE  Absorb(x, s).absorbed[b] = {}
    BY HistoryUpdate
  <2>1. b # s.gens
    BY DEF Content
  <2>2. QED
    BY <2>1, HistoryUpdate
<1>3. QED
  BY <1>1, <1>2, EmptyOK

\* A block just generated, with its first n - kCapacityT words used.
LEMMA RefilledOK ==
    ASSUME NEW s \in Content, NEW n \in kCapacityT .. kStateT, NEW c \in Nat,
           NEW d \in Nat, d > 0, d <= (MaxGenerate - s.gens) * kRateT,
           c = 0 => n > kCapacityT,
           c + kRateT = d \/ c = 0,
           \A b \in 0 .. MaxGenerate : b > s.gens => s.absorbed[b] = {}
    PROVE  /\ s.gens + 1 <= MaxGenerate
           /\ Generate(s) \in Content
           /\ EngineOK(Generate(s), n, c)
<1>1. s.gens \in Nat /\ s.gens <= MaxGenerate
  BY RateFacts DEF Content
<1>2. s.gens + 1 <= MaxGenerate
  BY <1>1, RateFacts, RoomMeansBlock
<1>3. /\ Generate(s) \in Content
      /\ Generate(s).gens = s.gens + 1
      /\ Generate(s).absorbed = s.absorbed
  BY <1>2, GeneratedContent
<1>4. c <= (MaxGenerate - (s.gens + 1)) * kRateT
  <2>1. CASE c = 0
    BY <2>1, <1>3, RoomNonnegative
  <2>2. CASE c + kRateT = d
    <3>1. (MaxGenerate - (s.gens + 1)) * kRateT
            = (MaxGenerate - s.gens) * kRateT - kRateT
      BY <1>1, RateFacts, RoomShrinks
    <3>2. (MaxGenerate - s.gens) * kRateT \in Int
      BY <1>1, RateFacts
    <3>3. QED
      BY <3>1, <3>2, <2>2, RateFacts
  <2>3. QED
    BY <2>1, <2>2
<1>5. QED
  BY <1>1, <1>2, <1>3, <1>4 DEF EngineOK

LEMMA StepInvariant == IInv /\ [Next]_vars => IInv'
<1> SUFFICES ASSUME IInv, [Next]_vars PROVE IInv'
  OBVIOUS
<1> USE DEF Idle
<1>0. kStateT \in kCapacityT .. kStateT /\ 0 \in 0 .. MaxDiscard
  BY RateFacts
<1>1. ASSUME NEW e \in Engine, NEW v \in Seed, SeedValue(e, v)
      PROVE  IInv'
  <2>1. Filled(v) \in Content /\ EngineOK(Filled(v), kStateT, 0)
    BY FilledContent, EmptyOK
  <2>2. /\ state_' = [state_ EXCEPT ![e] = Filled(v)]
        /\ next_' = [next_ EXCEPT ![e] = kStateT]
        /\ count' = [count EXCEPT ![e] = 0]
        /\ ret' \in Word \cup {NoWord}
        /\ asked' = 0
    BY <1>1, NoChange DEF SeedValue
  <2>3. QED
    BY <1>0, <2>1, <2>2, OneEngine
<1>2. ASSUME NEW e \in Engine, NEW x \in Entropy, SeedSeq(e, x)
      PROVE  IInv'
  <2>1. /\ Absorb(x, Filled(0)) \in Content
        /\ EngineOK(Absorb(x, Filled(0)), kStateT, 0)
    BY FilledContent, AbsorbedOK, SeedAssumption
  <2>2. /\ state_' = [state_ EXCEPT ![e] = Absorb(x, Filled(0))]
        /\ next_' = [next_ EXCEPT ![e] = kStateT]
        /\ count' = [count EXCEPT ![e] = 0]
        /\ ret' \in Word \cup {NoWord}
        /\ asked' = 0
    BY <1>2, NoChange DEF SeedSeq
  <2>3. QED
    BY <1>0, <2>1, <2>2, OneEngine
<1>3. ASSUME NEW e \in Engine, NEW x \in Entropy, Reseed(e, x)
      PROVE  IInv'
  <2>1. /\ Absorb(x, state_[e]) \in Content
        /\ EngineOK(Absorb(x, state_[e]), kStateT, 0)
    BY EachEngineOK, AbsorbedOK DEF EngineOK
  <2>2. /\ state_' = [state_ EXCEPT ![e] = Absorb(x, state_[e])]
        /\ next_' = [next_ EXCEPT ![e] = kStateT]
        /\ count' = [count EXCEPT ![e] = 0]
        /\ ret' \in Word \cup {NoWord}
        /\ asked' = 0
    BY <1>3, NoChange DEF Reseed
  <2>3. QED
    BY <1>0, <2>1, <2>2, OneEngine
<1>4. ASSUME NEW e \in Engine, Call(e)
      PROVE  IInv'
  <2>1. CASE next_[e] >= kStateT
    <3>0. /\ kCapacityT + 1 \in kCapacityT .. kStateT
          /\ kCapacityT + 1 > kCapacityT
          /\ 0 \in Nat /\ 1 \in Nat /\ 1 > 0
      BY RateFacts
    <3>1. next_[e] = kStateT
      BY <2>1, EachEngineOK, RateFacts
    <3>2. 1 <= (MaxGenerate - state_[e].gens) * kRateT
      BY <3>1, <1>4, RateFacts DEF Call, HasRoom, Remaining
    <3>3. /\ Generate(state_[e]) \in Content
          /\ EngineOK(Generate(state_[e]), kCapacityT + 1, 0)
      <4>1. \A b \in 0 .. MaxGenerate :
              b > state_[e].gens => state_[e].absorbed[b] = {}
        BY EachEngineOK DEF EngineOK
      <4>2. state_[e] \in Content
        BY EachEngineOK
      <4>3. QED
        BY <3>0, <3>2, <4>1, <4>2, RefilledOK
    <3>4. /\ state_' = [state_ EXCEPT ![e] = Generate(state_[e])]
          /\ next_' = [next_ EXCEPT ![e] = kCapacityT + 1]
          /\ count' = [count EXCEPT ![e] = 0]
          /\ ret' = [content |-> Generate(state_[e]), index |-> kCapacityT]
          /\ asked' = 0
      BY <1>4, <2>1, NoChange DEF Call, Exhausted
    <3>5. ret' \in Word
      BY <3>3, <3>4, RateFacts DEF Word
    <3>6. QED
      BY <1>0, <3>3, <3>4, <3>5, <3>0, OneEngine
  <2>2. CASE ~(next_[e] >= kStateT)
    <3>1. /\ state_[e] \in Content
          /\ next_[e] \in kCapacityT .. kStateT - 1
          /\ next_[e] + 1 \in kCapacityT .. kStateT
      BY <2>2, EachEngineOK, RateFacts
    <3>2. EngineOK(state_[e], next_[e] + 1, 0)
      BY <3>1, EachEngineOK, RoomNonnegative, RateFacts DEF EngineOK
    <3>3. /\ state_' = [state_ EXCEPT ![e] = state_[e]]
          /\ next_' = [next_ EXCEPT ![e] = next_[e] + 1]
          /\ count' = [count EXCEPT ![e] = 0]
          /\ ret' = [content |-> state_[e], index |-> next_[e]]
          /\ asked' = 0
      BY <1>4, <2>2, NoChange DEF Call, Exhausted
    <3>4. ret' \in Word
      BY <3>1, <3>3, RateFacts DEF Word
    <3>5. QED
      BY <1>0, <3>1, <3>2, <3>3, <3>4, OneEngine
  <2>3. QED
    BY <2>1, <2>2
<1>5. ASSUME NEW e \in Engine, NEW n \in 0 .. MaxDiscard, DiscardWithin(e, n)
      PROVE  IInv'
  <2>1. next_[e] + n \in kCapacityT .. kStateT
    BY <1>5, EachEngineOK, RateFacts DEF DiscardWithin, Fits, Remaining
  <2>2. EngineOK(state_[e], next_[e] + n, 0)
    BY <1>5, <2>1, EachEngineOK, RateFacts DEF EngineOK, DiscardWithin
  <2>3. /\ state_' = [state_ EXCEPT ![e] = state_[e]]
        /\ next_' = [next_ EXCEPT ![e] = next_[e] + n]
        /\ count' = [count EXCEPT ![e] = 0]
        /\ ret' \in Word \cup {NoWord}
        /\ asked' = n
    BY <1>5, NoChange DEF DiscardWithin
  <2>4. QED
    BY <1>0, <2>1, <2>2, <2>3, EachEngineOK, OneEngine
<1>6. ASSUME NEW e \in Engine, NEW n \in 0 .. MaxDiscard, DiscardBegin(e, n)
      PROVE  IInv'
  <2>1. n - Remaining(e) \in 0 .. MaxDiscard /\ n - Remaining(e) # 0
    BY <1>6, EachEngineOK, RateFacts DEF DiscardBegin, Fits, Remaining
  <2>2. EngineOK(state_[e], next_[e], n - Remaining(e))
    BY <1>6, <2>1, EachEngineOK DEF EngineOK, DiscardBegin, HasRoom
  <2>3. /\ state_' = [state_ EXCEPT ![e] = state_[e]]
        /\ next_' = [next_ EXCEPT ![e] = next_[e]]
        /\ count' = [count EXCEPT ![e] = n - Remaining(e)]
        /\ ret' \in Word \cup {NoWord}
        /\ asked' = n
    BY <1>6, NoChange DEF DiscardBegin
  <2>4. QED
    BY <1>0, <2>1, <2>2, <2>3, EachEngineOK, OneEngine
<1>7. ASSUME NEW e \in Engine, DiscardBlock(e)
      PROVE  IInv'
  <2>1. /\ count[e] - kRateT \in 0 .. MaxDiscard
        /\ count[e] - kRateT # 0
        /\ kCapacityT \in kCapacityT .. kStateT
    BY <1>7, EachEngineOK, RateFacts DEF DiscardBlock, WholeBlock
  <2>2. /\ Generate(state_[e]) \in Content
        /\ EngineOK(Generate(state_[e]), kCapacityT, count[e] - kRateT)
    <3>1. /\ count[e] \in Nat
          /\ count[e] > 0
          /\ count[e] - kRateT \in Nat
          /\ count[e] - kRateT # 0
          /\ (count[e] - kRateT) + kRateT = count[e]
          /\ kCapacityT \in kCapacityT .. kStateT
      BY <2>1, EachEngineOK, RateFacts
    <3>2. /\ state_[e] \in Content
          /\ count[e] <= (MaxGenerate - state_[e].gens) * kRateT
          /\ \A b \in 0 .. MaxGenerate :
               b > state_[e].gens => state_[e].absorbed[b] = {}
      BY EachEngineOK DEF EngineOK
    <3>3. QED
      BY <3>1, <3>2, RefilledOK
  <2>3. /\ state_' = [state_ EXCEPT ![e] = Generate(state_[e])]
        /\ next_' = [next_ EXCEPT ![e] = kCapacityT]
        /\ count' = [count EXCEPT ![e] = count[e] - kRateT]
        /\ ret' \in Word \cup {NoWord}
        /\ asked' \in 0 .. MaxDiscard
    BY <1>7 DEF DiscardBlock, IInv, TypeOK
  <2>4. QED
    BY <1>0, <2>1, <2>2, <2>3, OneEngine
<1>8. ASSUME NEW e \in Engine, DiscardTail(e)
      PROVE  IInv'
  <2>1. /\ count[e] \in 1 .. kRateT
        /\ kCapacityT + count[e] \in kCapacityT .. kStateT
        /\ kCapacityT + count[e] > kCapacityT
    BY <1>8, EachEngineOK, RateFacts
       DEF DiscardTail, PartOfBlock, WholeBlock
  <2>2. /\ Generate(state_[e]) \in Content
        /\ EngineOK(Generate(state_[e]), kCapacityT + count[e], 0)
    <3>1. /\ state_[e] \in Content
          /\ count[e] <= (MaxGenerate - state_[e].gens) * kRateT
          /\ \A b \in 0 .. MaxGenerate :
               b > state_[e].gens => state_[e].absorbed[b] = {}
      BY EachEngineOK DEF EngineOK
    <3>2. count[e] \in Nat /\ count[e] > 0
      BY <2>1
    <3>3. QED
      BY <2>1, <3>1, <3>2, RefilledOK
  <2>3. /\ state_' = [state_ EXCEPT ![e] = Generate(state_[e])]
        /\ next_' = [next_ EXCEPT ![e] = kCapacityT + count[e]]
        /\ count' = [count EXCEPT ![e] = 0]
        /\ ret' \in Word \cup {NoWord}
        /\ asked' \in 0 .. MaxDiscard
    BY <1>8 DEF DiscardTail, IInv, TypeOK
  <2>4. QED
    BY <1>0, <2>1, <2>2, <2>3, OneEngine
<1>9. ASSUME NEW e \in Engine, NEW f \in Engine, Copy(e, f)
      PROVE  IInv'
  <2>1. /\ state_' = [state_ EXCEPT ![e] = state_[f]]
        /\ next_' = [next_ EXCEPT ![e] = next_[f]]
        /\ count' = [count EXCEPT ![e] = count[f]]
        /\ ret' \in Word \cup {NoWord}
        /\ asked' = 0
    BY <1>9, NoChange DEF Copy
  <2>2. QED
    BY <1>0, <2>1, EachEngineOK, OneEngine
<1>10. ASSUME UNCHANGED vars
       PROVE  IInv'
  BY <1>10 DEF vars, IInv, TypeOK, OnlyGeneratedWords, Canonical,
               RoomForDiscard, NoFutureEntropy
<1>11. QED
  BY <1>1, <1>2, <1>3, <1>4, <1>5, <1>6, <1>7, <1>8, <1>9, <1>10
     DEF Next, DiscardStep

\* The inductive invariant holds in every state of every run.
THEOREM Invariant == Spec => []IInv
<1>1. QED
  BY InitInvariant, StepInvariant, PTL DEF Spec

\* The index stays inside the buffer and past its inner part, and nothing the
\* engine keeps or returns is outside its type (randen.h:198-203).
THEOREM TypeCorrect == Spec => []TypeOK
<1>1. IInv => TypeOK
  BY DEF IInv
<1>2. QED
  BY <1>1, Invariant, PTL

\* operator() (randen.h:85-98) can only hand out outer words of a block that
\* Generate produced and nothing was absorbed into since.
THEOREM GeneratedWords == Spec => []OnlyGeneratedWords
<1>1. IInv => OnlyGeneratedWords
  BY DEF IInv
<1>2. QED
  BY <1>1, Invariant, PTL

-----------------------------------------------------------------------------
(* Equality.                                                               *)

\* operator== (randen.h:150-154) on engines between two operations is exactly
\* equality of the tape and of the position on it.
THEOREM Equality == Spec => []EqualIffSameFuture
<1>1. ASSUME IInv, NEW e \in Engine, NEW f \in Engine, Idle(e), Idle(f),
             Tape(e) = Tape(f), Position(e) = Position(f)
      PROVE  state_[e] = state_[f] /\ next_[e] = next_[f]
  <2>1. /\ state_[e] \in Content /\ state_[f] \in Content
        /\ kStateT - next_[e] \in 0 .. kRateT - 1
        /\ kStateT - next_[f] \in 0 .. kRateT - 1
        /\ next_[e] \in Int /\ next_[f] \in Int
    BY <1>1, EachEngineOK, RateFacts DEF EngineOK, Idle
  <2>2. state_[e].gens \in Nat /\ state_[f].gens \in Nat
    BY <2>1, RateFacts DEF Content
  <2>3. state_[e].gens * kRateT - (kStateT - next_[e])
          = state_[f].gens * kRateT - (kStateT - next_[f])
    BY <1>1 DEF Position, PositionOf, Idle
  <2>4. /\ state_[e].gens = state_[f].gens
        /\ kStateT - next_[e] = kStateT - next_[f]
    <3>1. kRateT \in Nat
      BY RateFacts
    <3>2. PICK g \in Nat, h \in Nat, i \in 0 .. kRateT - 1, j \in 0 .. kRateT - 1 :
            /\ g = state_[e].gens
            /\ h = state_[f].gens
            /\ i = kStateT - next_[e]
            /\ j = kStateT - next_[f]
      BY <2>1, <2>2, Zenon
    <3>3. g * kRateT - i = h * kRateT - j
      BY <2>3, <3>2
    <3>4. g = h /\ i = j
      BY <3>1, <3>3, PositionUnique
    <3>5. QED
      BY <3>2, <3>4
  <2>5. next_[e] = next_[f]
    BY <2>1, <2>4, RateFacts
  <2>6. /\ state_[e].seed = state_[f].seed
        /\ state_[e].absorbed = state_[f].absorbed
    BY <1>1 DEF Tape, TapeOf
  <2>7. state_[e] = state_[f]
    BY <2>1, <2>4, <2>6 DEF Content
  <2>8. QED
    BY <2>5, <2>7
<1>2. ASSUME NEW e \in Engine, NEW f \in Engine, Idle(e), Idle(f),
             state_[e] = state_[f], next_[e] = next_[f]
      PROVE  Tape(e) = Tape(f) /\ Position(e) = Position(f)
  BY <1>2 DEF Tape, Position, Idle
<1>3. IInv => EqualIffSameFuture
  BY <1>1, <1>2 DEF EqualIffSameFuture
<1>4. QED
  BY <1>3, Invariant, PTL

-----------------------------------------------------------------------------
(* The engine implements the stream.                                       *)

LEMMA Distribute ==
    ASSUME NEW g \in Int, NEW m \in Int, NEW r \in Int
    PROVE  /\ (m - g) * r = m * r - g * r
           /\ g * r \in Int
           /\ m * r \in Int
  OBVIOUS

\* What a step that changes one engine does to the mapped variables.
LEMMA OneEngineMap ==
    ASSUME IInv, NEW e \in Engine,
           NEW s \in Content, NEW n \in Int, NEW c \in Int,
           state_' = [state_ EXCEPT ![e] = s],
           next_' = [next_ EXCEPT ![e] = n],
           count' = [count EXCEPT ![e] = c]
    PROVE  /\ TapeMap' = [TapeMap EXCEPT ![e] = TapeOf(s)]
           /\ PositionMap' = [PositionMap EXCEPT ![e] = PositionOf(s, n, c)]
<1>1. ASSUME NEW f \in Engine
      PROVE  /\ state_'[f] = IF f = e THEN s ELSE state_[f]
             /\ next_'[f] = IF f = e THEN n ELSE next_[f]
             /\ count'[f] = IF f = e THEN c ELSE count[f]
  BY DEF IInv, TypeOK
<1>2. TapeMap' = [TapeMap EXCEPT ![e] = TapeOf(s)]
  BY <1>1 DEF TapeMap, Tape, TapeOf
<1>3. PositionMap' = [PositionMap EXCEPT ![e] = PositionOf(s, n, c)]
  <2>1. ASSUME NEW f \in Engine
        PROVE  Position(f)' = IF f = e THEN PositionOf(s, n, c) ELSE Position(f)
    <3>1. CASE f = e
      BY <1>1, <3>1 DEF Position, PositionOf
    <3>2. CASE f # e
      BY <1>1, <3>2 DEF Position, PositionOf
    <3>3. QED
      BY <3>1, <3>2
  <2>2. QED
    BY <2>1 DEF PositionMap
<1>4. QED
  BY <1>2, <1>3

\* The position of an engine, and the room in front of it.
LEMMA WhereItStands ==
    ASSUME IInv, NEW e \in Engine
    PROVE  /\ state_[e].gens \in 0 .. MaxGenerate
           /\ state_[e].gens * kRateT \in Int
           /\ MaxGenerate * kRateT \in Int
           /\ (MaxGenerate - state_[e].gens) * kRateT
                = MaxGenerate * kRateT - state_[e].gens * kRateT
           /\ state_[e].gens * kRateT <= MaxGenerate * kRateT
           /\ (state_[e].gens - 1) * kRateT = state_[e].gens * kRateT - kRateT
           /\ (state_[e].gens + 1) * kRateT = state_[e].gens * kRateT + kRateT
           /\ PositionMap[e] = Position(e)
           /\ TapeMap[e] = Tape(e)
           /\ Idle(e) => /\ Remaining(e) \in 0 .. kRateT - 1
                         /\ Position(e) = state_[e].gens * kRateT - Remaining(e)
           /\ ~Idle(e) => Position(e) = state_[e].gens * kRateT + count[e]
<1>1. state_[e].gens \in 0 .. MaxGenerate
  BY EachEngineOK, RoomNonnegative
<1>2. /\ state_[e].gens \in Int
      /\ state_[e].gens - 1 \in Int
      /\ (state_[e].gens - 1) + 1 = state_[e].gens
      /\ MaxGenerate \in Int
      /\ kRateT \in Int
  BY <1>1, RateFacts
<1>3. /\ state_[e].gens * kRateT \in Int
      /\ MaxGenerate * kRateT \in Int
      /\ (MaxGenerate - state_[e].gens) * kRateT
           = MaxGenerate * kRateT - state_[e].gens * kRateT
  BY <1>2, Distribute
<1>4. state_[e].gens * kRateT <= MaxGenerate * kRateT
  <2>1. (MaxGenerate - state_[e].gens) * kRateT >= 0
    BY EachEngineOK, RoomNonnegative
  <2>2. QED
    BY <1>3, <2>1
<1>5. (state_[e].gens + 1) * kRateT = state_[e].gens * kRateT + kRateT
  BY <1>2, NextBlock
<1>6. (state_[e].gens - 1) * kRateT = state_[e].gens * kRateT - kRateT
  <2>1. (state_[e].gens - 1) * kRateT \in Int
    BY <1>2
  <2>2. ((state_[e].gens - 1) + 1) * kRateT
          = (state_[e].gens - 1) * kRateT + kRateT
    BY <1>2, NextBlock
  <2>3. QED
    BY <1>2, <1>3, <2>1, <2>2
<1>7. Idle(e) => Remaining(e) \in 0 .. kRateT - 1
  BY EachEngineOK, RateFacts DEF EngineOK, Idle, Remaining
<1>8. /\ Idle(e) => Position(e) = state_[e].gens * kRateT - Remaining(e)
      /\ ~Idle(e) => Position(e) = state_[e].gens * kRateT + count[e]
  BY DEF Idle, Remaining, Position, PositionOf
<1>9. PositionMap[e] = Position(e) /\ TapeMap[e] = Tape(e)
  BY DEF PositionMap, TapeMap
<1>10. QED
  BY <1>1, <1>3, <1>4, <1>5, <1>6, <1>7, <1>8, <1>9

\* The run of Generate that a discard makes next stays on the same tape.
LEMMA GenerateInDiscard ==
    ASSUME IInv, NEW e \in Engine, count[e] > 0
    PROVE  /\ Generate(state_[e]) \in Content
           /\ Generate(state_[e]).gens = state_[e].gens + 1
           /\ TapeOf(Generate(state_[e])) = Tape(e)
<1>1. /\ state_[e] \in Content
      /\ count[e] \in Int
      /\ count[e] <= (MaxGenerate - state_[e].gens) * kRateT
      /\ state_[e].gens \in Nat
      /\ state_[e].gens <= MaxGenerate
  BY EachEngineOK, WhereItStands DEF EngineOK
<1>2. state_[e].gens + 1 <= MaxGenerate
  BY <1>1, RoomMeansBlock, RateFacts
<1>3. QED
  BY <1>1, <1>2, GeneratedContent DEF TapeOf, Tape

LEMMA StreamInit == Init => Stream!Init
<1> SUFFICES ASSUME Init PROVE Stream!Init
  OBVIOUS
<1>1. ASSUME NEW e \in Engine
      PROVE  /\ Tape(e) \in {Stream!Fresh(v) : v \in Seed}
             /\ Position(e) = 0
  <2>1. PICK v \in Seed : state_[e] = Filled(v)
    BY DEF Init
  <2>2. Tape(e) = Stream!Fresh(v)
    BY <2>1 DEF Tape, TapeOf, Filled, Stream!Fresh
  <2>3. state_[e].gens = 0 /\ next_[e] = kStateT /\ count[e] = 0
    BY <2>1, FilledContent DEF Init
  <2>4. Position(e) = 0
    BY <2>3, RateFacts DEF Position, PositionOf
  <2>5. QED
    BY <2>2, <2>4
<1>2. TapeMap \in [Engine -> {Stream!Fresh(v) : v \in Seed}]
  BY <1>1 DEF TapeMap
<1>3. PositionMap = [e \in Engine |-> 0]
  BY <1>1 DEF PositionMap
<1>4. RetMap = NoWord
  BY DEF Init, RetMap
<1>5. asked = 0
  BY DEF Init
<1>6. QED
  BY <1>2, <1>3, <1>4, <1>5 DEF Stream!Init

LEMMA StreamStep == IInv /\ [Next]_vars => [Stream!Next]_(Stream!vars)
<1> SUFFICES ASSUME IInv, [Next]_vars PROVE [Stream!Next]_(Stream!vars)
  OBVIOUS
<1>0. kStateT \in Int /\ kCapacityT + 1 \in Int /\ 0 \in Int
  BY RateFacts
<1>1. ASSUME NEW e \in Engine, NEW v \in Seed, SeedValue(e, v)
      PROVE  Stream!Reset(e, v)
  <2>1. /\ state_' = [state_ EXCEPT ![e] = Filled(v)]
        /\ next_' = [next_ EXCEPT ![e] = kStateT]
        /\ count' = [count EXCEPT ![e] = 0]
        /\ RetMap' = NoWord
        /\ asked' = 0
    BY <1>1, NoChange DEF SeedValue, Idle, RetMap
  <2>0. Filled(v) \in Content
    BY FilledContent
  <2>2. /\ TapeMap' = [TapeMap EXCEPT ![e] = TapeOf(Filled(v))]
        /\ PositionMap'
             = [PositionMap EXCEPT ![e] = PositionOf(Filled(v), kStateT, 0)]
    <3>1. TapeMap' = [TapeMap EXCEPT ![e] = TapeOf(Filled(v))]
      BY <1>0, <2>0, <2>1, OneEngineMap
    <3>2. PositionMap'
           = [PositionMap EXCEPT ![e] = PositionOf(Filled(v), kStateT, 0)]
      BY <1>0, <2>0, <2>1, OneEngineMap
    <3>3. QED
      BY <3>1, <3>2
  <2>3. TapeOf(Filled(v)) = Stream!Fresh(v)
    BY DEF TapeOf, Filled, Stream!Fresh
  <2>4. PositionOf(Filled(v), kStateT, 0) = 0
    BY FilledContent, RateFacts DEF PositionOf
  <2>5. QED
    BY <2>1, <2>2, <2>3, <2>4 DEF Stream!Reset
<1>2. ASSUME NEW e \in Engine, NEW x \in Entropy, SeedSeq(e, x)
      PROVE  Stream!ResetSeq(e, x)
  <2>1. /\ state_' = [state_ EXCEPT ![e] = Absorb(x, Filled(0))]
        /\ next_' = [next_ EXCEPT ![e] = kStateT]
        /\ count' = [count EXCEPT ![e] = 0]
        /\ RetMap' = NoWord
        /\ asked' = 0
    BY <1>2, NoChange DEF SeedSeq, Idle, RetMap
  <2>0. Absorb(x, Filled(0)) \in Content
    BY FilledContent, AbsorbedOK, SeedAssumption
  <2>2. /\ TapeMap' = [TapeMap EXCEPT ![e] = TapeOf(Absorb(x, Filled(0)))]
        /\ PositionMap'
             = [PositionMap EXCEPT
                  ![e] = PositionOf(Absorb(x, Filled(0)), kStateT, 0)]
    <3>1. TapeMap' = [TapeMap EXCEPT ![e] = TapeOf(Absorb(x, Filled(0)))]
      BY <1>0, <2>0, <2>1, OneEngineMap
    <3>2. PositionMap'
           = [PositionMap EXCEPT
           ![e] = PositionOf(Absorb(x, Filled(0)), kStateT, 0)]
      BY <1>0, <2>0, <2>1, OneEngineMap
    <3>3. QED
      BY <3>1, <3>2
  <2>3. TapeOf(Absorb(x, Filled(0))) = Stream!Perturbed(Stream!Fresh(0), 0, x)
    BY DEF TapeOf, Absorb, Toggle, Filled, Stream!Toggle, Stream!Fresh,
           Stream!Perturbed
  <2>4. PositionOf(Absorb(x, Filled(0)), kStateT, 0) = 0
    <3>1. Absorb(x, Filled(0)).gens = 0
      BY DEF Absorb, Filled
    <3>2. QED
      BY <3>1, RateFacts DEF PositionOf
  <2>5. QED
    BY <2>1, <2>2, <2>3, <2>4 DEF Stream!ResetSeq
<1>3. ASSUME NEW e \in Engine, NEW x \in Entropy, Reseed(e, x)
      PROVE  Stream!Perturb(e, x)
  <2> DEFINE s == Absorb(x, state_[e])
             b == state_[e].gens
  <2>1. /\ state_' = [state_ EXCEPT ![e] = s]
        /\ next_' = [next_ EXCEPT ![e] = kStateT]
        /\ count' = [count EXCEPT ![e] = 0]
        /\ RetMap' = NoWord
        /\ asked' = 0
    BY <1>3, NoChange DEF Reseed, Idle, RetMap
  <2>0. s \in Content
    BY EachEngineOK, HistoryUpdate
  <2>2. /\ TapeMap' = [TapeMap EXCEPT ![e] = TapeOf(s)]
        /\ PositionMap' = [PositionMap EXCEPT ![e] = PositionOf(s, kStateT, 0)]
    <3> HIDE DEF s
    <3>1. TapeMap' = [TapeMap EXCEPT ![e] = TapeOf(s)]
      BY <1>0, <2>0, <2>1, OneEngineMap
    <3>2. PositionMap' = [PositionMap EXCEPT ![e] = PositionOf(s, kStateT, 0)]
      BY <1>0, <2>0, <2>1, OneEngineMap
    <3>3. QED
      BY <3>1, <3>2
  <2>3. b \in 0 .. MaxGenerate
    BY WhereItStands
  <2>4. TapeOf(s) = Stream!Perturbed(TapeMap[e], b, x)
    <3>1. TapeMap[e] = [seed |-> state_[e].seed,
                        absorbed |-> state_[e].absorbed]
      BY WhereItStands DEF Tape, TapeOf
    <3>2. QED
      BY <3>1
         DEF TapeOf, Absorb, Toggle, Stream!Toggle, Stream!Perturbed
  <2>5. PositionOf(s, kStateT, 0) = b * kRateT
    <3>1. s.gens = b
      BY DEF Absorb
    <3>2. b * kRateT \in Int
      BY WhereItStands
    <3>3. QED
      BY <3>1, <3>2, RateFacts DEF PositionOf
  <2>6. Stream!StartsAt(b, PositionMap[e])
    BY <1>3, WhereItStands, RateFacts DEF Stream!StartsAt, Reseed
  <2> HIDE DEF s, b
  <2>7. QED
    BY <2>1, <2>2, <2>3, <2>4, <2>5, <2>6 DEF Stream!Perturb
<1>4. ASSUME NEW e \in Engine, Call(e)
      PROVE  Stream!Deliver(e)
  <2>1. CASE next_[e] >= kStateT
    <3> DEFINE s == Generate(state_[e])
    <3>0. Remaining(e) = 0 /\ next_[e] = kStateT /\ Idle(e)
      BY <1>4, <2>1, EachEngineOK, RateFacts DEF Call, Remaining
    <3>1. /\ state_' = [state_ EXCEPT ![e] = s]
          /\ next_' = [next_ EXCEPT ![e] = kCapacityT + 1]
          /\ count' = [count EXCEPT ![e] = 0]
          /\ ret' = [content |-> s, index |-> kCapacityT]
          /\ asked' = 0
      BY <1>4, <2>1, NoChange DEF Call, Exhausted, Idle
    <3>2. /\ state_[e].gens + 1 <= MaxGenerate
          /\ s \in Content
          /\ s.gens = state_[e].gens + 1
          /\ TapeOf(s) = Tape(e)
      <4>1. 1 <= (MaxGenerate - state_[e].gens) * kRateT
        BY <1>4, <3>0, RateFacts DEF Call, HasRoom
      <4>2. state_[e].gens + 1 <= MaxGenerate
        BY <4>1, WhereItStands, RoomMeansBlock, RateFacts
      <4>3. QED
        BY <4>2, EachEngineOK, GeneratedContent DEF TapeOf, Tape
    <3>3. /\ TapeMap' = [TapeMap EXCEPT ![e] = TapeOf(s)]
          /\ PositionMap'
               = [PositionMap EXCEPT ![e] = PositionOf(s, kCapacityT + 1, 0)]
      <4> HIDE DEF s
      <4>1. TapeMap' = [TapeMap EXCEPT ![e] = TapeOf(s)]
        BY <1>0, <3>1, <3>2, OneEngineMap
      <4>2. PositionMap'
             = [PositionMap EXCEPT ![e] = PositionOf(s, kCapacityT + 1, 0)]
        BY <1>0, <3>1, <3>2, OneEngineMap
      <4>3. QED
        BY <4>1, <4>2
    <3>4. TapeMap' = TapeMap
      BY <3>2, <3>3, WhereItStands DEF TapeMap
    <3>5. /\ PositionMap[e] = state_[e].gens * kRateT
          /\ PositionMap[e] \in Int
          /\ PositionOf(s, kCapacityT + 1, 0) = PositionMap[e] + 1
      BY <3>0, <3>2, WhereItStands, RateFacts DEF PositionOf
    <3>6. PositionMap[e] < MaxGenerate * kRateT
      BY <1>4, <3>0, <3>5, WhereItStands, RateFacts DEF Call, HasRoom
    <3>7. RetMap' = Stream!Word(TapeMap[e], PositionMap[e])
      <4>1. ret' # NoWord
        BY <3>1, <3>2, NoWordAssumption, RateFacts DEF Word
      <4>2. (s.gens - 1) * kRateT + (kCapacityT - kCapacityT) = PositionMap[e]
        <5>1. s.gens - 1 = state_[e].gens
          BY <3>2, WhereItStands
        <5>2. QED
          BY <5>1, <3>5, RateFacts
      <4>3. s.seed = Tape(e).seed /\ s.absorbed = Tape(e).absorbed
        BY <3>2 DEF TapeOf
      <4> HIDE DEF s
      <4>4. QED
        BY <3>1, <4>1, <4>2, <4>3, WhereItStands DEF RetMap, PlaceOf, Stream!Word
    <3> HIDE DEF s
    <3>8. QED
      BY <3>1, <3>3, <3>4, <3>5, <3>6, <3>7 DEF Stream!Deliver
  <2>2. CASE ~(next_[e] >= kStateT)
    <3>0. /\ next_[e] \in kCapacityT .. kStateT - 1
          /\ state_[e].gens > 0
          /\ Idle(e)
      BY <1>4, <2>2, EachEngineOK, RateFacts DEF Call, EngineOK
    <3>1. /\ state_' = [state_ EXCEPT ![e] = state_[e]]
          /\ next_' = [next_ EXCEPT ![e] = next_[e] + 1]
          /\ count' = [count EXCEPT ![e] = 0]
          /\ ret' = [content |-> state_[e], index |-> next_[e]]
          /\ asked' = 0
      BY <1>4, <2>2, NoChange DEF Call, Exhausted, Idle
    <3>00. state_[e] \in Content /\ next_[e] + 1 \in Int
      BY EachEngineOK, RateFacts
    <3>2. /\ TapeMap' = [TapeMap EXCEPT ![e] = TapeOf(state_[e])]
          /\ PositionMap'
               = [PositionMap EXCEPT
                    ![e] = PositionOf(state_[e], next_[e] + 1, 0)]
      <4>1. TapeMap' = [TapeMap EXCEPT ![e] = TapeOf(state_[e])]
        BY <1>0, <3>00, <3>1, OneEngineMap
      <4>2. PositionMap'
             = [PositionMap EXCEPT
             ![e] = PositionOf(state_[e], next_[e] + 1, 0)]
        BY <1>0, <3>00, <3>1, OneEngineMap
      <4>3. QED
        BY <4>1, <4>2
    <3>3. TapeMap' = TapeMap
      BY <3>2, WhereItStands DEF TapeMap, Tape
    <3>4. /\ PositionMap[e] = state_[e].gens * kRateT - (kStateT - next_[e])
          /\ PositionMap[e] \in Int
          /\ PositionOf(state_[e], next_[e] + 1, 0) = PositionMap[e] + 1
      BY <3>0, WhereItStands, RateFacts DEF PositionOf, Remaining
    <3>5. PositionMap[e] < MaxGenerate * kRateT
      BY <3>0, <3>4, WhereItStands, RateFacts
    <3>6. RetMap' = Stream!Word(TapeMap[e], PositionMap[e])
      <4>1. ret' # NoWord
        BY <3>0, <3>1, EachEngineOK, NoWordAssumption, RateFacts DEF Word
      <4>2. (state_[e].gens - 1) * kRateT + (next_[e] - kCapacityT)
              = PositionMap[e]
        BY <3>0, <3>4, WhereItStands, RateFacts
      <4>3. /\ TapeMap[e].seed = state_[e].seed
            /\ TapeMap[e].absorbed = state_[e].absorbed
        <5>1. TapeMap[e] = TapeOf(state_[e])
          BY WhereItStands DEF Tape
        <5>2. QED
          BY <5>1 DEF TapeOf
      <4>4. RetMap' = PlaceOf([content |-> state_[e], index |-> next_[e]])
        BY <3>1, <4>1 DEF RetMap, PlaceOf
      <4>5. QED
        BY <4>2, <4>3, <4>4 DEF PlaceOf, Stream!Word
    <3>7. QED
      BY <3>1, <3>2, <3>3, <3>4, <3>5, <3>6 DEF Stream!Deliver
  <2>3. QED
    BY <2>1, <2>2
<1>5. ASSUME NEW e \in Engine, NEW n \in 0 .. MaxDiscard, DiscardWithin(e, n)
      PROVE  Stream!Skip(e, n)
  <2>1. /\ state_' = [state_ EXCEPT ![e] = state_[e]]
        /\ next_' = [next_ EXCEPT ![e] = next_[e] + n]
        /\ count' = [count EXCEPT ![e] = 0]
        /\ RetMap' = NoWord
        /\ asked' = n
    BY <1>5, NoChange DEF DiscardWithin, Idle, RetMap
  <2>0. state_[e] \in Content /\ next_[e] + n \in Int
    BY EachEngineOK, RateFacts
  <2>2. /\ TapeMap' = [TapeMap EXCEPT ![e] = TapeOf(state_[e])]
        /\ PositionMap'
             = [PositionMap EXCEPT ![e] = PositionOf(state_[e], next_[e] + n, 0)]
    <3>1. TapeMap' = [TapeMap EXCEPT ![e] = TapeOf(state_[e])]
      BY <1>0, <2>0, <2>1, OneEngineMap
    <3>2. PositionMap'
           = [PositionMap EXCEPT ![e] = PositionOf(state_[e], next_[e] + n, 0)]
      BY <1>0, <2>0, <2>1, OneEngineMap
    <3>3. QED
      BY <3>1, <3>2
  <2>3. TapeMap' = TapeMap
    BY <2>2, WhereItStands DEF TapeMap, Tape
  <2>4. /\ next_[e] \in Int
        /\ n <= kStateT - next_[e]
        /\ PositionMap[e] = state_[e].gens * kRateT - (kStateT - next_[e])
    BY <1>5, EachEngineOK, WhereItStands, RateFacts
       DEF DiscardWithin, Fits, Remaining
  <2>5. /\ PositionOf(state_[e], next_[e] + n, 0) = PositionMap[e] + n
        /\ PositionMap[e] + n <= MaxGenerate * kRateT
    BY <2>4, WhereItStands, RateFacts DEF PositionOf
  <2>6. QED
    BY <2>1, <2>2, <2>3, <2>5 DEF Stream!Skip
<1>6. ASSUME NEW e \in Engine, NEW n \in 0 .. MaxDiscard, DiscardBegin(e, n)
      PROVE  Stream!Skip(e, n)
  <2>1. /\ state_' = [state_ EXCEPT ![e] = state_[e]]
        /\ next_' = [next_ EXCEPT ![e] = next_[e]]
        /\ count' = [count EXCEPT ![e] = n - Remaining(e)]
        /\ RetMap' = NoWord
        /\ asked' = n
    BY <1>6, NoChange DEF DiscardBegin, RetMap
  <2>0. /\ state_[e] \in Content
        /\ next_[e] \in Int
        /\ n - Remaining(e) \in Int
    BY EachEngineOK, RateFacts DEF Remaining
  <2>2. /\ TapeMap' = [TapeMap EXCEPT ![e] = TapeOf(state_[e])]
        /\ PositionMap'
             = [PositionMap EXCEPT
                  ![e] = PositionOf(state_[e], next_[e], n - Remaining(e))]
    <3>1. TapeMap' = [TapeMap EXCEPT ![e] = TapeOf(state_[e])]
      BY <1>0, <2>0, <2>1, OneEngineMap
    <3>2. PositionMap'
           = [PositionMap EXCEPT
           ![e] = PositionOf(state_[e], next_[e], n - Remaining(e))]
      BY <1>0, <2>0, <2>1, OneEngineMap
    <3>3. QED
      BY <3>1, <3>2
  <2>3. TapeMap' = TapeMap
    BY <2>2, WhereItStands DEF TapeMap, Tape
  <2>4. /\ Remaining(e) \in Int
        /\ n - Remaining(e) # 0
        /\ n - Remaining(e)
             <= MaxGenerate * kRateT - state_[e].gens * kRateT
        /\ PositionMap[e] = state_[e].gens * kRateT - Remaining(e)
    BY <1>6, EachEngineOK, WhereItStands, RateFacts
       DEF DiscardBegin, HasRoom, Fits
  <2>5. /\ PositionOf(state_[e], next_[e], n - Remaining(e))
             = PositionMap[e] + n
        /\ PositionMap[e] + n <= MaxGenerate * kRateT
    BY <2>4, WhereItStands, RateFacts DEF PositionOf
  <2>6. QED
    BY <2>1, <2>2, <2>3, <2>5 DEF Stream!Skip
<1>7. ASSUME NEW e \in Engine, NEW f \in Engine, Copy(e, f)
      PROVE  Stream!Duplicate(e, f)
  <2>1. /\ state_' = [state_ EXCEPT ![e] = state_[f]]
        /\ next_' = [next_ EXCEPT ![e] = next_[f]]
        /\ count' = [count EXCEPT ![e] = count[f]]
        /\ RetMap' = NoWord
        /\ asked' = 0
    BY <1>7, NoChange DEF Copy, Idle, RetMap
  <2>0. state_[f] \in Content /\ next_[f] \in Int /\ count[f] \in Int
    BY EachEngineOK, RateFacts
  <2>2. /\ TapeMap' = [TapeMap EXCEPT ![e] = Tape(f)]
        /\ PositionMap' = [PositionMap EXCEPT ![e] = Position(f)]
    <3>1. TapeMap' = [TapeMap EXCEPT ![e] = Tape(f)]
      BY <2>0, <2>1, OneEngineMap DEF Tape, Position
    <3>2. PositionMap' = [PositionMap EXCEPT ![e] = Position(f)]
      BY <2>0, <2>1, OneEngineMap DEF Tape, Position
    <3>3. QED
      BY <3>1, <3>2
  <2>3. QED
    BY <2>1, <2>2, WhereItStands DEF Stream!Duplicate
<1>8. ASSUME NEW e \in Engine, DiscardBlock(e)
      PROVE  UNCHANGED Stream!vars
  <2> DEFINE s == Generate(state_[e])
  <2>1. /\ state_' = [state_ EXCEPT ![e] = s]
        /\ next_' = [next_ EXCEPT ![e] = kCapacityT]
        /\ count' = [count EXCEPT ![e] = count[e] - kRateT]
        /\ RetMap' = RetMap
        /\ asked' = asked
    BY <1>8 DEF DiscardBlock, RetMap
  <2>2. /\ count[e] \in Int
        /\ count[e] > 0
        /\ count[e] - kRateT \in Int
        /\ count[e] - kRateT # 0
        /\ kCapacityT \in Int
        /\ ~Idle(e)
    BY <1>8, EachEngineOK, RateFacts DEF DiscardBlock, WholeBlock, Idle
  <2>3. s \in Content /\ s.gens = state_[e].gens + 1 /\ TapeOf(s) = Tape(e)
    BY <2>2, GenerateInDiscard
  <2>4. /\ TapeMap' = [TapeMap EXCEPT ![e] = TapeOf(s)]
        /\ PositionMap' =
             [PositionMap EXCEPT
                ![e] = PositionOf(s, kCapacityT, count[e] - kRateT)]
    <3> HIDE DEF s
    <3>1. TapeMap' = [TapeMap EXCEPT ![e] = TapeOf(s)]
      BY <2>1, <2>2, <2>3, OneEngineMap
    <3>2. PositionMap' =
            [PositionMap EXCEPT
               ![e] = PositionOf(s, kCapacityT, count[e] - kRateT)]
      BY <2>1, <2>2, <2>3, OneEngineMap
    <3>3. QED
      BY <3>1, <3>2
  <2>5. PositionOf(s, kCapacityT, count[e] - kRateT) = PositionMap[e]
    BY <2>2, <2>3, WhereItStands, RateFacts DEF PositionOf
  <2> HIDE DEF s
  <2>6. TapeMap' = TapeMap
    BY <2>3, <2>4, WhereItStands DEF TapeMap
  <2>7. PositionMap' = PositionMap
    BY <2>4, <2>5 DEF PositionMap
  <2>8. QED
    BY <2>1, <2>6, <2>7 DEF Stream!vars
<1>9. ASSUME NEW e \in Engine, DiscardTail(e)
      PROVE  UNCHANGED Stream!vars
  <2> DEFINE s == Generate(state_[e])
  <2>1. /\ state_' = [state_ EXCEPT ![e] = s]
        /\ next_' = [next_ EXCEPT ![e] = kCapacityT + count[e]]
        /\ count' = [count EXCEPT ![e] = 0]
        /\ RetMap' = RetMap
        /\ asked' = asked
    BY <1>9 DEF DiscardTail, RetMap
  <2>2. /\ count[e] \in Int
        /\ count[e] > 0
        /\ kCapacityT + count[e] \in Int
        /\ ~Idle(e)
    BY <1>9, EachEngineOK, RateFacts DEF DiscardTail, PartOfBlock, Idle
  <2>3. s \in Content /\ s.gens = state_[e].gens + 1 /\ TapeOf(s) = Tape(e)
    BY <2>2, GenerateInDiscard
  <2>4. /\ TapeMap' = [TapeMap EXCEPT ![e] = TapeOf(s)]
        /\ PositionMap' =
             [PositionMap EXCEPT ![e] = PositionOf(s, kCapacityT + count[e], 0)]
    <3> HIDE DEF s
    <3>1. TapeMap' = [TapeMap EXCEPT ![e] = TapeOf(s)]
      BY <1>0, <2>1, <2>2, <2>3, OneEngineMap
    <3>2. PositionMap' =
            [PositionMap EXCEPT ![e] = PositionOf(s, kCapacityT + count[e], 0)]
      BY <1>0, <2>1, <2>2, <2>3, OneEngineMap
    <3>3. QED
      BY <3>1, <3>2
  <2>5. PositionOf(s, kCapacityT + count[e], 0) = PositionMap[e]
    BY <2>2, <2>3, WhereItStands, RateFacts DEF PositionOf
  <2> HIDE DEF s
  <2>6. TapeMap' = TapeMap
    BY <2>3, <2>4, WhereItStands DEF TapeMap
  <2>7. PositionMap' = PositionMap
    BY <2>4, <2>5 DEF PositionMap
  <2>8. QED
    BY <2>1, <2>6, <2>7 DEF Stream!vars
<1>10. ASSUME UNCHANGED vars
       PROVE  UNCHANGED Stream!vars
  BY <1>10 DEF vars, Stream!vars, TapeMap, PositionMap, RetMap, Tape, TapeOf,
               Position, PositionOf
<1>11. QED
  BY <1>1, <1>2, <1>3, <1>4, <1>5, <1>6, <1>7, <1>8, <1>9, <1>10
     DEF Next, DiscardStep, Stream!Next

\* Randen.h implements the abstract stream: seeds and reseeds start where they
\* should, discard(n) has the effect of n calls whatever n is, and a copy goes
\* on exactly like its original.
THEOREM Refinement == Spec => ImplementsStream
<1>1. QED
  BY Invariant, StreamInit, StreamStep, PTL
     DEF Spec, ImplementsStream, Stream!Spec

-----------------------------------------------------------------------------
(* The way to the end of discard.                                          *)

\* Once it is entered, its own steps have fewer words left to skip, and
\* the steps of other engines leave it as it is.
RunningDiscardShrinks ==
    \A e \in Engine : count[e] > 0 =>
      /\ DiscardStep(e) => count'[e] < count[e]
      /\ ~ DiscardStep(e) =>
           /\ count'[e] = count[e]
           /\ state_'[e] = state_[e]
           /\ next_'[e] = next_[e]

LEMMA OtherEngine ==
    ASSUME IInv, NEW d \in Engine, NEW e \in Engine, d # e, DiscardStep(d)
    PROVE  /\ count'[e] = count[e]
           /\ state_'[e] = state_[e]
           /\ next_'[e] = next_[e]
<1>1. /\ count \in [Engine -> 0 .. MaxDiscard]
      /\ state_ \in [Engine -> Content]
      /\ next_ \in [Engine -> kCapacityT .. kStateT]
  BY DEF IInv, TypeOK
<1>2. CASE DiscardBlock(d)
  BY <1>1, <1>2 DEF DiscardBlock
<1>3. CASE DiscardTail(d)
  BY <1>1, <1>3 DEF DiscardTail
<1>4. QED
  BY <1>2, <1>3 DEF DiscardStep

LEMMA FewerToSkip ==
    ASSUME IInv, NEW e \in Engine, DiscardStep(e)
    PROVE  count'[e] < count[e]
<1>1. count \in [Engine -> 0 .. MaxDiscard] /\ count[e] \in Nat
  BY RateFacts DEF IInv, TypeOK
<1>2. CASE DiscardBlock(e)
  <2>1. count'[e] = count[e] - kRateT
    BY <1>1, <1>2 DEF DiscardBlock
  <2>2. QED
    BY <1>1, <2>1, RateFacts
<1>3. CASE DiscardTail(e)
  <2>1. count'[e] = 0 /\ count[e] # 0
    BY <1>1, <1>3 DEF DiscardTail, PartOfBlock
  <2>2. QED
    BY <1>1, <2>1
<1>4. QED
  BY <1>2, <1>3 DEF DiscardStep

\* The loop of discard (randen.h:138-147) skips at least one word per pass,
\* whatever the size of a block: with count[e] in Nat it has finitely many.
THEOREM DiscardShrinks == Spec => [][RunningDiscardShrinks]_vars
<1>1. ASSUME IInv, Next, NEW e \in Engine, count[e] > 0, ~ DiscardStep(e)
      PROVE  /\ count'[e] = count[e]
             /\ state_'[e] = state_[e]
             /\ next_'[e] = next_[e]
  <2>1. /\ count \in [Engine -> 0 .. MaxDiscard]
        /\ state_ \in [Engine -> Content]
        /\ next_ \in [Engine -> kCapacityT .. kStateT]
        /\ ~ Idle(e)
    BY <1>1, RateFacts DEF IInv, TypeOK, Idle
  <2>2. ASSUME NEW d \in Engine, NEW v \in Seed, SeedValue(d, v)
        PROVE  /\ count'[e] = count[e] /\ state_'[e] = state_[e]
               /\ next_'[e] = next_[e]
    BY <2>1, <2>2 DEF SeedValue
  <2>3. ASSUME NEW d \in Engine, NEW x \in Entropy, SeedSeq(d, x) \/ Reseed(d, x)
        PROVE  /\ count'[e] = count[e] /\ state_'[e] = state_[e]
               /\ next_'[e] = next_[e]
    BY <2>1, <2>3 DEF SeedSeq, Reseed
  <2>4. ASSUME NEW d \in Engine, Call(d)
        PROVE  /\ count'[e] = count[e] /\ state_'[e] = state_[e]
               /\ next_'[e] = next_[e]
    BY <2>1, <2>4 DEF Call
  <2>5. ASSUME NEW d \in Engine, NEW n \in 0 .. MaxDiscard,
               DiscardWithin(d, n) \/ DiscardBegin(d, n)
        PROVE  /\ count'[e] = count[e] /\ state_'[e] = state_[e]
               /\ next_'[e] = next_[e]
    BY <2>1, <2>5 DEF DiscardWithin, DiscardBegin
  <2>6. ASSUME NEW d \in Engine, DiscardStep(d)
        PROVE  /\ count'[e] = count[e] /\ state_'[e] = state_[e]
               /\ next_'[e] = next_[e]
    BY <1>1, <2>6, OtherEngine
  <2>7. ASSUME NEW d \in Engine, NEW f \in Engine, Copy(d, f)
        PROVE  /\ count'[e] = count[e] /\ state_'[e] = state_[e]
               /\ next_'[e] = next_[e]
    BY <2>1, <2>7 DEF Copy
  <2>8. QED
    BY <1>1, <2>2, <2>3, <2>4, <2>5, <2>6, <2>7 DEF Next
<1>2. ASSUME IInv, Next
      PROVE  RunningDiscardShrinks
  BY <1>1, <1>2, FewerToSkip DEF RunningDiscardShrinks
<1>3. IInv /\ [Next]_vars => [RunningDiscardShrinks]_vars
  BY <1>2
<1>4. QED
  BY <1>3, Invariant, PTL DEF Spec

-----------------------------------------------------------------------------
(* The text streams.  Operand k is the k-th that operator<< inserts, the    *)
(* index after the words.                                                  *)

Operand(k) ==
    IF k <= StateWords THEN Printed(engine.state[k]) ELSE Decimal(engine.next)

\* The place of its last character.
EndOf(k) == offset[k] + Len(Operand(k))

\* What the text still has of operand k is where it was inserted, with the
\* fill character and the next operand behind it.
Placed(k) ==
    /\ offset[k] \in Nat
    /\ \A i \in 1 .. Len(Operand(k)) :
         offset[k] + i <= Len(text) => text[offset[k] + i] = Operand(k)[i]
    /\ k <= StateWords /\ EndOf(k) < Len(text) => text[EndOf(k) + 1] = Fill
    /\ k < Len(offset) => offset[k + 1] = EndOf(k) + 1
    /\ ~cut => EndOf(k) <= Len(text)

Inserting ==
    /\ Len(offset) <= StateWords
    /\ IF Len(offset) = 0 THEN Len(text) = 0
       ELSE Len(text) = EndOf(Len(offset)) + 1
    /\ ~cut

Layout ==
    /\ offset \in Seq(Nat)
    /\ text \in Seq(Nat)
    /\ offset # << >> => offset[1] = 0
    /\ \A k \in 1 .. Len(offset) : Placed(k)
    /\ pc = "inserting" => Inserting
    /\ pc \in {"inserted", "words", "next"} =>
         Len(offset) = StateWords + 1 /\ Len(text) <= EndOf(StateWords + 1)

\* The words read are those that were inserted, and the stream is behind the
\* last of them; or it is at its end, and nothing more can be read.
Reading ==
    \/ /\ at = IF Len(state) = 0 THEN 1 ELSE EndOf(Len(state)) + 1
       /\ at <= Len(text) + 1
       /\ \A k \in 1 .. Len(state) : state[k] = engine.state[k]
    \/ cut /\ at = Len(text) + 1

Words ==
    /\ state \in Seq(Nat)
    /\ pc \in {"inserting", "inserted"} => state = << >> /\ at = 1 /\ ~fail
    /\ pc = "words" => Len(state) < StateWords
    /\ pc = "next" => Len(state) = StateWords
    /\ pc \in {"words", "next"} /\ ~fail => Reading
    /\ pc \in {"words", "next"} /\ fail => cut

TargetInv ==
    /\ engine \in Saved
    /\ pc # "done" => target = old
    /\ pc = "done" /\ fail => cut /\ target = old
    /\ pc = "done" /\ ~fail => target.state \in {old.state, engine.state}
    /\ pc = "done" /\ ~cut => target = engine

StreamInv == Layout /\ Words /\ TargetInv

\* The words are not read as white space: numbers never are, characters may be.
Readable ==
    CharT => \A e \in Saved : \A k \in 1 .. StateWords : e.state[k] \notin Space

-----------------------------------------------------------------------------
(* What is inserted and how it is read.                                    *)

LEMMA SavedFacts ==
    ASSUME NEW e \in Saved
    PROVE  /\ e.state \in [1 .. StateWords -> Nat]
           /\ e.next \in Nat
           /\ StateWords \in Nat \ {0}
  BY SavedAssumption

\* The number that is operand k.
NumberOf(k) == IF k <= StateWords THEN engine.state[k] ELSE engine.next

LEMMA OperandKinds ==
    ASSUME engine \in Saved, NEW k \in 1 .. StateWords + 1
    PROVE  /\ NumberOf(k) \in Nat
           /\ Printable(NumberOf(k))
           /\ k = StateWords + 1 => ~(k <= StateWords)
           /\ CharT /\ k <= StateWords => Operand(k) = <<NumberOf(k)>>
           /\ ~(CharT /\ k <= StateWords) => Operand(k) = Decimal(NumberOf(k))
<1>1. StateWords \in Nat \ {0}
  BY SavedAssumption
<1>2. CASE k <= StateWords
  <2>1. k \in 1 .. StateWords
    BY <1>1, <1>2
  <2> QED
    BY <1>1, <1>2, <2>1, SavedFacts, DecimalAssumption
       DEF NumberOf, Operand, Printed
<1>3. CASE ~(k <= StateWords)
  BY <1>1, <1>3, SavedFacts, DecimalAssumption DEF NumberOf, Operand
<1> QED
  BY <1>2, <1>3

\* Every operand has a first character, and it is not white space.
LEMMA OperandFacts ==
    ASSUME engine \in Saved, NEW k \in 1 .. StateWords + 1
    PROVE  /\ Operand(k) \in Seq(Nat)
           /\ Len(Operand(k)) \in Nat \ {0}
           /\ \A i \in 1 .. Len(Operand(k)) : Operand(k)[i] \in Nat
           /\ Readable => Operand(k)[1] \notin Space
<1>1. StateWords \in Nat \ {0}
  BY SavedAssumption
<1>2. CASE CharT /\ k <= StateWords
  <2>1. Operand(k) = <<NumberOf(k)>> /\ NumberOf(k) \in Nat
    BY <1>2, OperandKinds
  <2>2. Readable => NumberOf(k) \notin Space
    BY <1>1, <1>2 DEF Readable, NumberOf
  <2> QED
    BY <2>1, <2>2
<1>3. CASE ~(CharT /\ k <= StateWords)
  <2> DEFINE d == Decimal(NumberOf(k))
  <2>1. Operand(k) = d /\ d \in Seq(Digit) /\ d # << >>
    BY <1>3, OperandKinds DEF Printable
  <2> HIDE DEF d
  <2>2. Len(d) \in Nat \ {0}
    BY <2>1, EmptySeq
  <2>3. \A i \in 1 .. Len(d) : d[i] \in Digit
    BY <2>1, ElementOfSeq
  <2>4. d \in Seq(Nat)
    BY <2>1, SeqMonotonic DEF Digit
  <2>5. \A i \in 1 .. Len(d) : d[i] \in Nat /\ d[i] \notin Space
    BY <2>3 DEF Digit, Space
  <2> QED
    BY <2>1, <2>2, <2>4, <2>5
<1> QED
  BY <1>2, <1>3

\* The choice of EndOfRun is unique.
LEMMA RunEnds ==
    ASSUME text \in Seq(Nat), NEW class, NEW j \in Nat,
           NEW k \in j .. Len(text) + 1,
           \A i \in j .. k - 1 : text[i] \in class,
           k <= Len(text) => text[k] \notin class
    PROVE  EndOfRun(class, j) = k
<1> DEFINE P(m) == /\ \A i \in j .. m - 1 : text[i] \in class
                   /\ m <= Len(text) => text[m] \notin class
<1>0. Len(text) \in Nat
  BY LenProperties
<1>1. P(k)
  OBVIOUS
<1>2. ASSUME NEW m \in j .. Len(text) + 1, P(m)
      PROVE  m = k
  <2>1. ASSUME m < k PROVE FALSE
    <3>1. m \in j .. k - 1 /\ m <= Len(text)
      BY <1>0, <2>1
    <3> QED
      BY <1>2, <3>1
  <2>2. ASSUME k < m PROVE FALSE
    <3>1. k \in j .. m - 1 /\ k <= Len(text)
      BY <1>0, <2>2
    <3> QED
      BY <1>2, <3>1
  <2> QED
    BY <1>0, <2>1, <2>2
<1>3. EndOfRun(class, j) = CHOOSE m \in j .. Len(text) + 1 : P(m)
  BY DEF EndOfRun
<1> HIDE DEF P
<1> QED
  BY <1>1, <1>2, <1>3

\* Operand k as it is read from the place it was inserted at: a number ends
\* where its last digit does, or with the text.
LEMMA NumberIsRead ==
    ASSUME text \in Seq(Nat), engine \in Saved, NEW k \in 1 .. StateWords + 1,
           Placed(k), ~(CharT /\ k <= StateWords),
           offset[k] + 1 <= Len(text),
           k = StateWords + 1 => Len(text) <= EndOf(k)
    PROVE  /\ text[offset[k] + 1] \in Digit
           /\ EndOf(k) <= Len(text) =>
                /\ EndOfRun(Digit, offset[k] + 1) = EndOf(k) + 1
                /\ NumberAt(offset[k] + 1) = NumberOf(k)
           /\ EndOf(k) > Len(text) =>
                /\ EndOfRun(Digit, offset[k] + 1) = Len(text) + 1
                /\ NumberAt(offset[k] + 1) \in Nat
<1> DEFINE d == Decimal(NumberOf(k))
<1>1. /\ Operand(k) = d
      /\ d \in Seq(Digit) /\ d # << >>
      /\ ValueOf(d) = NumberOf(k)
      /\ \A m \in 1 .. Len(d) : ValueOf(SubSeq(d, 1, m)) \in Nat
  BY OperandKinds DEF Printable
<1> HIDE DEF d
<1>2. PICK l \in Nat \ {0} : l = Len(d)
  BY <1>1, EmptySeq
<1>3. \A i \in 1 .. l : d[i] \in Digit
  BY <1>1, <1>2, ElementOfSeq
<1>4. PICK t \in Nat : t = Len(text)
  BY LenProperties
<1>5. PICK o \in Nat : o = offset[k]
  BY DEF Placed
<1>6. PICK e \in Nat : e = EndOf(k) /\ e = o + l
  BY <1>1, <1>2, <1>5 DEF EndOf
<1>7. PICK s \in Nat : s = offset[k] + 1 /\ s = o + 1 /\ s <= t
  BY <1>4, <1>5
<1>8. \A i \in 1 .. l : o + i <= t => text[o + i] = d[i]
  BY <1>1, <1>2, <1>4, <1>5 DEF Placed
<1>9. ASSUME NEW m \in s .. e, m <= t
      PROVE  text[m] = d[m - o] /\ text[m] \in Digit
  <2>1. m - o \in 1 .. l /\ o + (m - o) = m
    BY <1>6, <1>7
  <2>2. text[o + (m - o)] = d[m - o]
    BY <1>8, <1>9, <2>1
  <2> QED
    BY <1>3, <2>1, <2>2
<1>10. text[s] \in Digit
  <2>1. s \in s .. e /\ s <= t
    BY <1>6, <1>7
  <2> QED
    BY <1>9, <2>1
<1>11. ASSUME NEW n \in 1 .. l, o + n <= t
       PROVE  SubSeq(text, s, o + n) = SubSeq(d, 1, n)
  <2>1. \A m \in s .. o + n : text[m] \in Digit /\ text[m] = d[m - o]
    <3> TAKE m \in s .. o + n
    <3>1. m \in s .. e /\ m <= t
      BY <1>6, <1>7, <1>11
    <3> QED
      BY <1>9, <3>1
  <2>2. /\ SubSeq(text, s, o + n) \in Seq(Digit)
        /\ Len(SubSeq(text, s, o + n)) = n
        /\ \A i \in 1 .. n : SubSeq(text, s, o + n)[i] = text[s + i - 1]
    <3>1. s \in Int /\ o + n \in Int /\ s <= o + n /\ (o + n) - s + 1 = n
      <4>1. s = o + 1 /\ n \in Nat /\ 1 <= n
        BY <1>7
      <4> QED
        BY <4>1
    <3>2. \A i \in s .. o + n : text[i] \in Digit
      BY <2>1
    <3> QED
      BY <3>1, <3>2, SubSeqProperties
  <2>3. /\ SubSeq(d, 1, n) \in Seq(Digit)
        /\ Len(SubSeq(d, 1, n)) = n
        /\ \A i \in 1 .. n : SubSeq(d, 1, n)[i] = d[i]
    <3>1. \A i \in 1 .. n : d[i] \in Digit
      BY <1>3
    <3>2. 1 \in Int /\ n \in Int /\ 1 <= n /\ n - 1 + 1 = n
      OBVIOUS
    <3>3. \A i \in 1 .. n : 1 + i - 1 = i
      OBVIOUS
    <3> QED
      BY <3>1, <3>2, <3>3, SubSeqProperties
  <2>4. ASSUME NEW i \in 1 .. n
        PROVE  SubSeq(text, s, o + n)[i] = SubSeq(d, 1, n)[i]
    <3>1. s + i - 1 \in s .. o + n /\ (s + i - 1) - o = i
      <4>1. s = o + 1 /\ n \in Nat /\ i \in Nat /\ 1 <= i /\ i <= n
        BY <1>7
      <4> QED
        BY <4>1
    <3>2. text[s + i - 1] = d[(s + i - 1) - o]
      BY <2>1, <3>1
    <3> QED
      BY <2>2, <2>3, <3>1, <3>2
  <2> QED
    BY <2>2, <2>3, <2>4, SeqEqual
<1>12. CASE e <= t
  <2>1. e + 1 <= t => text[e + 1] \notin Digit
    <3>1. ASSUME e + 1 <= t PROVE text[e + 1] = Fill
      <4>1. k # StateWords + 1
        BY <1>4, <1>6, <3>1
      <4>2. k <= StateWords
        BY <4>1, SavedAssumption
      <4> QED
        BY <1>4, <1>6, <3>1, <4>2 DEF Placed
    <3> QED
      BY <3>1 DEF Fill, Digit
  <2>2. e + 1 \in s .. t + 1
    BY <1>6, <1>7, <1>12
  <2>3. \A i \in s .. (e + 1) - 1 : text[i] \in Digit
    <3> TAKE i \in s .. (e + 1) - 1
    <3>1. i \in s .. e /\ i <= t
      BY <1>12
    <3> QED
      BY <1>9, <3>1
  <2>4. EndOfRun(Digit, s) = e + 1
    BY <1>4, <2>1, <2>2, <2>3, RunEnds
  <2>5. SubSeq(text, s, o + l) = SubSeq(d, 1, l)
    <3>1. l \in 1 .. l /\ o + l <= t
      BY <1>6, <1>12
    <3> QED
      BY <1>11, <3>1
  <2>6. SubSeq(d, 1, l) = d
    BY <1>1, <1>2, SubSeqFull
  <2>7. (e + 1) - 1 = o + l
    BY <1>6
  <2>8. NumberAt(s) = NumberOf(k)
    BY <1>1, <2>4, <2>5, <2>6, <2>7 DEF NumberAt
  <2> QED
    BY <1>4, <1>6, <1>7, <1>10, <1>12, <2>4, <2>8
<1>13. CASE e > t
  <2>1. t + 1 \in s .. t + 1
    BY <1>7
  <2>2. \A i \in s .. (t + 1) - 1 : text[i] \in Digit
    <3> TAKE i \in s .. (t + 1) - 1
    <3>1. i \in s .. e /\ i <= t
      BY <1>13
    <3> QED
      BY <1>9, <3>1
  <2>3. EndOfRun(Digit, s) = t + 1
    BY <1>4, <2>1, <2>2, RunEnds
  <2>4. PICK n \in 1 .. l : (t + 1) - 1 = o + n
    <3>1. t - o \in 1 .. l /\ (t + 1) - 1 = o + (t - o)
      BY <1>6, <1>7, <1>13
    <3> QED
      BY <3>1
  <2>5. o + n <= t
    BY <2>4
  <2>6. SubSeq(text, s, (t + 1) - 1) = SubSeq(d, 1, n)
    BY <1>11, <2>4, <2>5
  <2>7. NumberAt(s) \in Nat
    BY <1>1, <1>2, <2>3, <2>6 DEF NumberAt
  <2> QED
    BY <1>4, <1>6, <1>7, <1>10, <1>13, <2>3, <2>7
<1> QED
  BY <1>12, <1>13

-----------------------------------------------------------------------------
(* The layout of the text.                                                 *)

\* While operands are inserted, every one ends in front of the last character.
LEMMA InsertedInside ==
    ASSUME Layout, engine \in Saved, pc = "inserting",
           NEW k \in 1 .. Len(offset)
    PROVE  EndOf(k) \in Nat /\ EndOf(k) < Len(text)
<1>1. PICK n \in Nat : n = Len(offset) /\ n <= StateWords
  BY LenProperties DEF Layout, Inserting
<1>2. PICK t \in Nat : t = Len(text)
  BY LenProperties DEF Layout
<1>3. k \in 1 .. StateWords + 1 /\ k \in 1 .. n
  BY <1>1, SavedAssumption
<1>4. PICK e \in Nat : e = EndOf(k)
  <2>1. offset[k] \in Nat /\ Len(Operand(k)) \in Nat
    BY <1>3, OperandFacts DEF Layout, Placed
  <2> QED
    BY <2>1 DEF EndOf
<1>5. CASE k = n
  <2>1. t = e + 1
    BY <1>1, <1>2, <1>3, <1>4, <1>5 DEF Layout, Inserting
  <2> QED
    BY <1>2, <1>4, <2>1
<1>6. CASE k # n
  <2>1. k + 1 \in 1 .. n /\ k + 1 \in 1 .. StateWords + 1 /\ k < n
    BY <1>1, <1>3, <1>6, SavedAssumption
  <2>2. Placed(k) /\ Placed(k + 1)
    BY <1>1, <2>1 DEF Layout
  <2>3. offset[k + 1] = e + 1
    BY <1>1, <1>4, <2>1, <2>2 DEF Placed
  <2>4. PICK l \in Nat \ {0} : l = Len(Operand(k + 1))
    BY <2>1, OperandFacts
  <2>5. e + 1 + l <= t
    BY <1>2, <2>2, <2>3, <2>4 DEF Placed, EndOf, Layout, Inserting
  <2> QED
    BY <1>2, <1>4, <2>5
<1> QED
  BY <1>5, <1>6

\* What is inserted for an operand leaves the operands in front of it where
\* they are and is placed behind them.
LEMMA OperandInserted ==
    ASSUME Layout, engine \in Saved, pc = "inserting",
           UNCHANGED <<engine, cut>>,
           NEW n \in Nat, n = Len(offset), n + 1 \in 1 .. StateWords + 1,
           NEW w \in Seq(Nat),
           text' = text \o w,
           offset' = Append(offset, Len(text)),
           Len(Operand(n + 1)) <= Len(w),
           \A i \in 1 .. Len(Operand(n + 1)) : w[i] = Operand(n + 1)[i],
           n + 1 <= StateWords =>
             w[Len(Operand(n + 1)) + 1] = Fill
             /\ Len(w) = Len(Operand(n + 1)) + 1
    PROVE  /\ offset' \in Seq(Nat) /\ Len(offset') = n + 1
           /\ text' \in Seq(Nat)
           /\ offset'[1] = 0
           /\ \A k \in 1 .. n + 1 : Placed(k)'
           /\ EndOf(n + 1)' = Len(text) + Len(Operand(n + 1))
           /\ Len(text') = Len(text) + Len(w)
<1>1. PICK t \in Nat : t = Len(text)
  BY LenProperties DEF Layout
<1>2. PICK l \in Nat \ {0} : l = Len(Operand(n + 1))
  BY OperandFacts
<1>3. PICK m \in Nat : m = Len(w) /\ l <= m
  BY <1>2, LenProperties
<1>4. /\ text' \in Seq(Nat)
      /\ Len(text') = t + m
      /\ \A i \in 1 .. t + m : text'[i] = IF i <= t THEN text[i] ELSE w[i - t]
  BY <1>1, <1>3, ConcatProperties DEF Layout
<1>5. /\ offset' \in Seq(Nat)
      /\ Len(offset') = n + 1
      /\ \A i \in 1 .. n : offset'[i] = offset[i]
      /\ offset'[n + 1] = t
  BY <1>1, AppendProperties DEF Layout
<1>6. \A k \in Nat : Operand(k)' = Operand(k)
  BY DEF Operand, Printed
<1>7. ~cut /\ (n # 0 => t = EndOf(n) + 1)
  <2>1. Inserting
    BY DEF Layout
  <2>2. EndOf(n) = EndOf(Len(offset))
    OBVIOUS
  <2> QED
    BY <1>1, <2>1, <2>2 DEF Inserting
<1>8. ASSUME NEW k \in 1 .. n
      PROVE  Placed(k)'
  <2>1. /\ Operand(k)' = Operand(k) /\ offset'[k] = offset[k]
        /\ k \in 1 .. StateWords + 1
    <3>1. k \in Nat /\ k \in 1 .. StateWords + 1
      BY SavedAssumption
    <3> QED
      BY <1>5, <1>6, <3>1
  <2>2. PICK lk \in Nat : lk = Len(Operand(k))
    BY <2>1, OperandFacts
  <2>3. PICK o \in Nat : o = offset[k] /\ o = offset'[k]
    BY <2>1 DEF Layout, Placed
  <2>4. PICK e \in Nat : e = EndOf(k) /\ e = o + lk /\ e < t
    BY <1>1, <2>2, <2>3, InsertedInside DEF EndOf
  <2>5. ASSUME NEW i \in 1 .. lk
        PROVE  text'[o + i] = Operand(k)[i]
    <3>1. o + i <= t /\ o + i \in 1 .. t + m
      BY <2>4
    <3>2. text'[o + i] = text[o + i]
      BY <1>4, <3>1
    <3>3. text[o + i] = Operand(k)[i]
      BY <1>1, <2>2, <2>3, <3>1 DEF Layout, Placed
    <3> QED
      BY <3>2, <3>3
  <2>6. k <= StateWords => text'[e + 1] = Fill
    <3>1. e + 1 <= t /\ e + 1 \in 1 .. t + m
      BY <2>4
    <3>2. text'[e + 1] = text[e + 1]
      BY <1>4, <3>1
    <3>3. k <= StateWords => text[e + 1] = Fill
      BY <1>1, <2>4 DEF Layout, Placed
    <3> QED
      BY <3>2, <3>3
  <2>7. offset'[k + 1] = e + 1
    <3>1. CASE k = n
      <4>0. EndOf(n) = EndOf(k)
        BY <3>1, Zenon
      <4>1. n # 0
        BY 1 <= k /\ k <= n
      <4>2. t = EndOf(k) + 1
        BY <1>7, <4>0, <4>1, Zenon
      <4>3. t = e + 1
        BY <2>4, <4>2
      <4> QED
        BY <1>5, <3>1, <4>3
    <3>2. CASE k # n
      <4>1. k < n /\ k + 1 \in 1 .. n
        BY <3>2
      <4>2. offset[k + 1] = e + 1
        BY <2>4, <4>1 DEF Layout, Placed
      <4> QED
        BY <1>5, <4>1, <4>2
    <3> QED
      BY <3>1, <3>2
  <2>8. e <= Len(text')
    BY <1>4, <2>4
  <2> QED
    BY <2>1, <2>2, <2>3, <2>4, <2>5, <2>6, <2>7, <2>8 DEF Placed, EndOf
<1>9. Operand(n + 1)' = Operand(n + 1)
  BY DEF Operand, Printed
<1>10. PICK e \in Nat : e = t + l
  BY <1>2
<1>11. Placed(n + 1)'
  <2>1. ASSUME NEW i \in 1 .. l
        PROVE  text'[t + i] = Operand(n + 1)[i]
    <3>1. t + i \in 1 .. t + m /\ ~(t + i <= t) /\ (t + i) - t = i
      BY <1>3
    <3>2. text'[t + i] = w[(t + i) - t]
      BY <1>4, <3>1
    <3> QED
      BY <1>2, <3>1, <3>2
  <2>2. ASSUME n + 1 <= StateWords
        PROVE  text'[e + 1] = Fill
    <3>1. m = l + 1 /\ w[l + 1] = Fill
      BY <1>2, <1>3, <2>2
    <3>2. e + 1 \in 1 .. t + m /\ ~(e + 1 <= t) /\ (e + 1) - t = l + 1
      BY <1>10, <3>1
    <3>3. text'[e + 1] = w[(e + 1) - t]
      BY <1>4, <3>2
    <3> QED
      BY <3>1, <3>2, <3>3
  <2>3. e <= Len(text') /\ ~(n + 1 < Len(offset'))
    BY <1>3, <1>4, <1>5, <1>10
  <2> QED
    BY <1>2, <1>5, <1>9, <1>10, <2>1, <2>2, <2>3 DEF Placed, EndOf
<1>12. offset'[1] = 0
  <2>1. CASE n = 0
    <3>1. t = 0
      BY <1>1, <2>1 DEF Layout, Inserting
    <3> QED
      BY <1>5, <2>1, <3>1
  <2>2. CASE n # 0
    <3>1. 1 \in 1 .. n /\ offset # << >>
      BY <2>2
    <3> QED
      BY <1>5, <3>1 DEF Layout
  <2> QED
    BY <2>1, <2>2
<1>13. \A k \in 1 .. n + 1 : Placed(k)'
  <2> TAKE k \in 1 .. n + 1
  <2>1. k \in 1 .. n \/ k = n + 1
    OBVIOUS
  <2> QED
    BY <1>8, <1>11, <2>1
<1>14. EndOf(n + 1)' = Len(text) + Len(Operand(n + 1))
  BY <1>1, <1>5, <1>9 DEF EndOf
<1> QED
  BY <1>1, <1>3, <1>4, <1>5, <1>12, <1>13, <1>14

\* A text that nobody touches keeps its layout.
LEMMA LayoutSame ==
    ASSUME Layout, UNCHANGED <<engine, text, offset, cut>>,
           pc' = "inserting" => pc = "inserting",
           pc' \in {"inserted", "words", "next"}
             => pc \in {"inserted", "words", "next"}
    PROVE  Layout'
  BY DEF Layout, Inserting, Placed, EndOf, Operand, Printed

LEMMA LayoutInsertWord ==
    ASSUME Layout, engine \in Saved, InsertWord
    PROVE  Layout'
<1>1. PICK n \in Nat : n = Len(offset) /\ n < StateWords
  BY LenProperties DEF Layout, InsertWord
<1>2. n + 1 \in 1 .. StateWords + 1 /\ n + 1 <= StateWords
  BY <1>1, SavedAssumption
<1> DEFINE p == Operand(n + 1)
           w == Append(p, Fill)
<1>3. p \in Seq(Nat) /\ Len(p) \in Nat
  BY <1>2, OperandFacts
<1>4. w = Inserted(n + 1)
  BY <1>2 DEF Inserted, Operand
<1> HIDE DEF p
<1>5. /\ w \in Seq(Nat) /\ Len(w) = Len(p) + 1
      /\ \A i \in 1 .. Len(p) : w[i] = p[i]
      /\ w[Len(p) + 1] = Fill
  BY <1>3, AppendProperties DEF Fill
<1> HIDE DEF w
<1>6. /\ text' = text \o w /\ offset' = Append(offset, Len(text))
      /\ UNCHANGED <<engine, cut, pc>> /\ pc = "inserting"
  BY <1>1, <1>4 DEF InsertWord
<1>7. /\ Len(p) <= Len(w)
      /\ n + 1 <= StateWords => w[Len(p) + 1] = Fill /\ Len(w) = Len(p) + 1
  BY <1>3, <1>5
<1>8. /\ offset' \in Seq(Nat) /\ Len(offset') = n + 1
      /\ text' \in Seq(Nat)
      /\ offset'[1] = 0
      /\ \A k \in 1 .. n + 1 : Placed(k)'
      /\ EndOf(n + 1)' = Len(text) + Len(p)
      /\ Len(text') = Len(text) + Len(w)
  BY <1>1, <1>2, <1>5, <1>6, <1>7, OperandInserted DEF p
<1>9. Len(text) \in Nat
  BY LenProperties DEF Layout
<1>10. Len(text') = EndOf(n + 1)' + 1
  BY <1>3, <1>5, <1>8, <1>9
<1>11. EndOf(Len(offset))' = EndOf(n + 1)'
  BY <1>8 DEF EndOf, Operand
<1>12. Inserting'
  <2>1. ~cut' /\ Len(offset') <= StateWords /\ Len(offset') # 0
    BY <1>2, <1>6, <1>8 DEF Layout, Inserting
  <2> QED
    BY <1>10, <1>11, <2>1 DEF Inserting
<1> QED
  BY <1>6, <1>8, <1>12 DEF Layout

LEMMA LayoutInsertNext ==
    ASSUME Layout, engine \in Saved, InsertNext
    PROVE  Layout'
<1>1. PICK n \in Nat : n = Len(offset) /\ n = StateWords
  BY LenProperties DEF Layout, InsertNext
<1>2. n + 1 \in 1 .. StateWords + 1 /\ ~(n + 1 <= StateWords)
  BY <1>1, SavedAssumption
<1> DEFINE w == Operand(n + 1)
<1>3. w \in Seq(Nat) /\ Len(w) \in Nat
  BY <1>2, OperandFacts
<1>4. w = Decimal(engine.next)
  BY <1>2 DEF Operand
<1> HIDE DEF w
<1>5. /\ text' = text \o w /\ offset' = Append(offset, Len(text))
      /\ UNCHANGED <<engine, cut>> /\ pc = "inserting" /\ pc' = "inserted"
  BY <1>1, <1>4 DEF InsertNext
<1>6. Len(w) <= Len(w) /\ \A i \in 1 .. Len(w) : w[i] = w[i]
  BY <1>3
<1>7. /\ offset' \in Seq(Nat) /\ Len(offset') = n + 1
      /\ text' \in Seq(Nat)
      /\ offset'[1] = 0
      /\ \A k \in 1 .. n + 1 : Placed(k)'
      /\ EndOf(n + 1)' = Len(text) + Len(w)
      /\ Len(text') = Len(text) + Len(w)
  BY <1>1, <1>2, <1>3, <1>5, <1>6, OperandInserted DEF w
<1>8. EndOf(StateWords + 1)' = EndOf(n + 1)'
  BY <1>1 DEF EndOf, Operand
<1>9. Len(text) \in Nat
  BY LenProperties DEF Layout
<1>10. Len(text') <= EndOf(StateWords + 1)' /\ Len(offset') = StateWords + 1
  BY <1>1, <1>3, <1>7, <1>8, <1>9
<1> QED
  BY <1>5, <1>7, <1>10 DEF Layout

LEMMA LayoutCutShort ==
    ASSUME Layout, engine \in Saved, NEW n \in 0 .. Len(text) - 1, CutShort(n)
    PROVE  Layout' /\ Len(text') = n
<1>1. PICK t \in Nat : t = Len(text) /\ n \in Nat /\ n < t
  BY LenProperties DEF Layout
<1>2. /\ text' \in Seq(Nat) /\ Len(text') = n
      /\ \A i \in 1 .. n : text'[i] = text[i]
  <2>1. \A i \in 1 .. n : text[i] \in Nat /\ 1 + i - 1 = i
    BY <1>1, ElementOfSeq DEF Layout
  <2>2. 1 \in Int /\ n \in Int /\ n - 1 + 1 = n /\ (1 <= n \/ n = 0)
    BY <1>1
  <2>3. text' = SubSeq(text, 1, n)
    BY DEF CutShort
  <2> QED
    BY <2>1, <2>2, <2>3, SubSeqProperties
<1>3. cut' /\ pc' = "words" /\ pc = "inserted" /\ UNCHANGED <<engine, offset>>
  BY DEF CutShort
<1>4. Len(offset) = StateWords + 1 /\ Len(text) <= EndOf(StateWords + 1)
  BY <1>3 DEF Layout
<1>5. \A k \in Nat : Operand(k)' = Operand(k)
  BY <1>3 DEF Operand, Printed
<1>6. ASSUME NEW k \in 1 .. Len(offset)
      PROVE  Placed(k)'
  <2>1. k \in 1 .. StateWords + 1 /\ k \in Nat
    BY <1>4, SavedAssumption
  <2>2. PICK o \in Nat : o = offset[k] /\ o = offset'[k]
    BY <1>3 DEF Layout, Placed
  <2>3. PICK l \in Nat : l = Len(Operand(k))
    BY <2>1, OperandFacts
  <2>4. Operand(k)' = Operand(k)
    BY <1>5, <2>1
  <2>5. ASSUME NEW i \in 1 .. l, o + i <= n
        PROVE  text'[o + i] = Operand(k)[i]
    <3>1. o + i \in 1 .. n /\ o + i <= t
      BY <1>1, <2>5
    <3>2. text[o + i] = Operand(k)[i]
      BY <1>1, <2>2, <2>3, <3>1 DEF Layout, Placed
    <3> QED
      BY <1>2, <3>1, <3>2
  <2>6. ASSUME k <= StateWords, o + l < n
        PROVE  text'[o + l + 1] = Fill
    <3>1. o + l + 1 \in 1 .. n /\ o + l < t
      BY <1>1, <2>6
    <3>2. text[o + l + 1] = Fill
      BY <1>1, <2>2, <2>3, <2>6, <3>1 DEF Layout, Placed, EndOf
    <3> QED
      BY <1>2, <3>1, <3>2
  <2>7. k < Len(offset) => offset'[k + 1] = o + l + 1
    BY <1>3, <2>2, <2>3 DEF Layout, Placed, EndOf
  <2> QED
    BY <1>2, <1>3, <2>2, <2>3, <2>4, <2>5, <2>6, <2>7 DEF Placed, EndOf
<1>7. EndOf(StateWords + 1)' = EndOf(StateWords + 1)
  BY <1>3 DEF EndOf, Operand, Printed
<1>8. Len(text') <= EndOf(StateWords + 1)'
  <2>1. PICK e \in Nat : e = EndOf(StateWords + 1)
    <3>1. StateWords + 1 \in 1 .. StateWords + 1
      BY SavedAssumption
    <3>2. offset[StateWords + 1] \in Nat /\ Len(Operand(StateWords + 1)) \in Nat
      BY <1>4, <3>1, OperandFacts DEF Layout, Placed
    <3> QED
      BY <3>2 DEF EndOf
  <2>2. Len(text') <= e
    BY <1>1, <1>2, <1>4, <2>1
  <2> QED
    BY <1>7, <2>1, <2>2
<1>9. offset' \in Seq(Nat) /\ (offset' # << >> => offset'[1] = 0)
  BY <1>3 DEF Layout
<1> QED
  BY <1>2, <1>3, <1>4, <1>6, <1>8, <1>9 DEF Layout

-----------------------------------------------------------------------------
(* The extraction.                                                         *)

\* Unless it is at the end of a cut text, the stream finds the next operand
\* that was inserted, behind the fill character.
LEMMA ReadStart ==
    ASSUME StreamInv, Readable, pc \in {"words", "next"}, ~fail,
           NEW k \in Nat, k = Len(state) + 1
    PROVE  \/ /\ k \in 1 .. StateWords + 1
              /\ Placed(k)
              /\ offset[k] + 1 <= Len(text)
              /\ Start = offset[k] + 1
              /\ \A i \in 1 .. Len(state) : state[i] = engine.state[i]
           \/ cut /\ Start = Len(text) + 1
<1>1. PICK t \in Nat : t = Len(text) /\ text \in Seq(Nat)
  BY LenProperties DEF StreamInv, Layout
<1>2. PICK n \in Nat : n = Len(state) /\ n <= StateWords /\ k = n + 1
  BY LenProperties, SavedAssumption DEF StreamInv, Words
<1>3. k \in 1 .. StateWords + 1 /\ Len(offset) = StateWords + 1 /\ Placed(k)
  BY <1>2, SavedAssumption DEF StreamInv, Layout
<1>4. engine \in Saved
  BY DEF StreamInv, TargetInv
<1>5. CASE at = t + 1 /\ cut
  <2>1. /\ t + 1 \in t + 1 .. t + 1 /\ t + 1 \in Nat
        /\ \A i \in t + 1 .. (t + 1) - 1 : text[i] \in Space
        /\ ~(t + 1 <= t)
    OBVIOUS
  <2>2. EndOfRun(Space, t + 1) = t + 1
    BY <1>1, <2>1, RunEnds
  <2>3. Start = t + 1
    BY <1>5, <2>2 DEF Start
  <2> QED
    BY <1>1, <1>5, <2>3
<1>6. CASE /\ at = IF n = 0 THEN 1 ELSE EndOf(n) + 1
           /\ at <= t + 1
           /\ \A i \in 1 .. n : state[i] = engine.state[i]
  <2>1. PICK o \in Nat : o = offset[k]
    BY <1>3 DEF Placed
  <2>2. PICK a \in Nat : a = at /\ (n = 0 => a = o + 1) /\ (n # 0 => a = o)
    <3>1. CASE n = 0
      <4>1. offset[1] = 0 /\ k = 1
        BY <1>2, <1>3, <3>1 DEF StreamInv, Layout
      <4> QED
        BY <1>6, <2>1, <3>1, <4>1
    <3>2. CASE n # 0
      <4>1. Placed(n) /\ n < Len(offset)
        BY <1>2, <1>3, <3>2 DEF StreamInv, Layout
      <4>2. offset[n + 1] = EndOf(n) + 1
        BY <4>1 DEF Placed
      <4> QED
        BY <1>2, <1>6, <2>1, <3>2, <4>2
    <3> QED
      BY <3>1, <3>2
  <2>3. \A i \in a .. o : i <= t => text[i] \in Space
    <3>1. CASE n = 0
      BY <2>2, <3>1
    <3>2. CASE n # 0
      <4>1. Placed(n) /\ n <= StateWords /\ n < Len(offset)
        BY <1>2, <1>3, <3>2 DEF StreamInv, Layout
      <4>2. EndOf(n) + 1 = o
        BY <1>2, <2>1, <4>1 DEF Placed
      <4>3. PICK e \in Nat : e = EndOf(n)
        <5>1. n \in 1 .. StateWords + 1
          BY <3>2, <4>1, SavedAssumption
        <5>2. offset[n] \in Nat /\ Len(Operand(n)) \in Nat
          BY <4>1, <5>1, OperandFacts, <1>4 DEF Placed
        <5> QED
          BY <5>2 DEF EndOf
      <4>4. o <= t => text[o] = Fill
        BY <1>1, <4>1, <4>2, <4>3 DEF Placed
      <4>5. a = o
        BY <2>2, <3>2
      <4> QED
        BY <4>4, <4>5 DEF Fill, Space
    <3> QED
      BY <3>1, <3>2
  <2>4. PICK l \in Nat \ {0} : l = Len(Operand(k)) /\ Operand(k)[1] \notin Space
    BY <1>3, <1>4, OperandFacts
  <2>5. CASE o + 1 <= t
    <3>1. text[o + 1] \notin Space
      <4>1. 1 \in 1 .. l
        BY <2>4
      <4>2. text[o + 1] = Operand(k)[1]
        BY <1>1, <1>3, <2>1, <2>4, <2>5, <4>1 DEF Placed
      <4> QED
        BY <2>4, <4>2
    <3>2. /\ o + 1 \in a .. t + 1
          /\ \A i \in a .. (o + 1) - 1 : text[i] \in Space
      <4>1. o + 1 \in a .. t + 1
        BY <2>2, <2>5
      <4>2. ASSUME NEW i \in a .. (o + 1) - 1 PROVE text[i] \in Space
        <5>1. i \in a .. o /\ i <= t
          BY <2>5
        <5> QED
          BY <2>3, <5>1
      <4> QED
        BY <4>1, <4>2
    <3>3. EndOfRun(Space, a) = o + 1
      BY <1>1, <3>1, <3>2, RunEnds
    <3>4. Start = o + 1
      BY <2>2, <3>3 DEF Start
    <3> QED
      BY <1>1, <1>2, <1>3, <1>6, <2>1, <2>5, <3>4
  <2>6. CASE o + 1 > t
    <3>1. cut
      <4>1. ASSUME ~cut PROVE FALSE
        <5>1. EndOf(k) <= t /\ EndOf(k) = o + l
          BY <1>1, <1>3, <2>1, <2>4, <4>1 DEF Placed, EndOf
        <5> QED
          BY <2>6, <5>1
      <4> QED
        BY <4>1
    <3>2. /\ t + 1 \in a .. t + 1
          /\ \A i \in a .. (t + 1) - 1 : text[i] \in Space
          /\ ~(t + 1 <= t)
      <4>1. t + 1 \in a .. t + 1
        BY <1>6, <2>2
      <4>2. ASSUME NEW i \in a .. (t + 1) - 1 PROVE text[i] \in Space
        <5>1. i \in a .. o /\ i <= t
          BY <2>6
        <5> QED
          BY <2>3, <5>1
      <4> QED
        BY <4>1, <4>2
    <3>3. EndOfRun(Space, a) = t + 1
      BY <1>1, <3>2, RunEnds
    <3>4. Start = t + 1
      BY <2>2, <3>3 DEF Start
    <3> QED
      BY <1>1, <3>1, <3>4
  <2> QED
    BY <2>5, <2>6
<1> QED
  BY <1>1, <1>2, <1>5, <1>6 DEF StreamInv, Words, Reading

\* An extraction that finds an operand succeeds.
LEMMA FoundIsExtracted ==
    ASSUME text \in Seq(Nat), engine \in Saved, NEW k \in 1 .. StateWords + 1,
           Placed(k), offset[k] + 1 <= Len(text), Start = offset[k] + 1, ~fail,
           k = StateWords + 1 => Len(text) <= EndOf(k)
    PROVE  CanExtract(CharT /\ k <= StateWords)
<1>1. CASE CharT /\ k <= StateWords
  BY <1>1 DEF CanExtract
<1>2. CASE ~(CharT /\ k <= StateWords)
  <2>1. text[offset[k] + 1] \in Digit
    BY <1>2, NumberIsRead
  <2> QED
    BY <2>1 DEF CanExtract
<1> QED
  BY <1>1, <1>2

LEMMA WordExtracted ==
    ASSUME StreamInv, Readable, ExtractWord
    PROVE  StreamInv'
<1>1. PICK n \in Nat : n = Len(state) /\ n < StateWords /\ state \in Seq(Nat)
  BY LenProperties DEF StreamInv, Words, ExtractWord
<1>2. PICK t \in Nat : t = Len(text) /\ text \in Seq(Nat)
  BY LenProperties DEF StreamInv, Layout
<1>3. /\ pc = "words"
      /\ pc' = IF n + 1 = StateWords THEN "next" ELSE "words"
      /\ UNCHANGED <<engine, text, offset, cut, target, old>>
      /\ engine \in Saved
  BY <1>1 DEF ExtractWord, StreamInv, TargetInv
<1>4. Layout'
  BY <1>3, LayoutSame DEF StreamInv
<1>5. TargetInv'
  BY <1>3 DEF StreamInv, TargetInv
<1>6. ASSUME NEW v \in Nat, state' = Append(state, v)
      PROVE  /\ state' \in Seq(Nat) /\ Len(state') = n + 1
             /\ \A i \in 1 .. n : state'[i] = state[i]
             /\ state'[n + 1] = v
             /\ pc' = "words" => Len(state') < StateWords
             /\ pc' = "next" => Len(state') = StateWords
  <2>1. /\ state' \in Seq(Nat) /\ Len(state') = n + 1
        /\ \A i \in 1 .. n : state'[i] = state[i]
        /\ state'[n + 1] = v
    BY <1>1, <1>6, AppendProperties
  <2> QED
    BY <1>1, <1>3, <2>1, SavedAssumption
<1>7. ASSUME fail', state' = Append(state, 0), cut
      PROVE  Words'
  <2>1. /\ state' \in Seq(Nat)
        /\ pc' = "words" => Len(state') < StateWords
        /\ pc' = "next" => Len(state') = StateWords
    BY <1>6, <1>7
  <2>2. pc' \in {"words", "next"} /\ cut'
    BY <1>3, <1>7
  <2> QED
    BY <1>7, <2>1, <2>2 DEF Words
<1>8. CASE fail
  <2>1. ~CanExtract(CharT) /\ cut
    BY <1>3, <1>8 DEF CanExtract, StreamInv, Words
  <2>2. Words'
    BY <1>7, <2>1 DEF ExtractWord
  <2> QED
    BY <1>4, <1>5, <2>2 DEF StreamInv
<1>9. CASE ~fail /\ cut /\ Start = t + 1
  <2>1. ~CanExtract(CharT)
    BY <1>2, <1>9 DEF CanExtract
  <2>2. Words'
    BY <1>7, <1>9, <2>1 DEF ExtractWord
  <2> QED
    BY <1>4, <1>5, <2>2 DEF StreamInv
<1> DEFINE k == n + 1
<1>10. k \in 1 .. StateWords + 1 /\ k <= StateWords /\ k # StateWords + 1
  BY <1>1, SavedAssumption
<1>11. CASE /\ ~fail
            /\ Placed(k)
            /\ offset[k] + 1 <= t
            /\ Start = offset[k] + 1
            /\ \A i \in 1 .. n : state[i] = engine.state[i]
  <2> HIDE DEF k
  <2>1. CanExtract(CharT /\ k <= StateWords)
    BY <1>2, <1>3, <1>10, <1>11, FoundIsExtracted
  <2>2. CanExtract(CharT)
    BY <1>10, <2>1 DEF CanExtract
  <2>3. PICK s \in Nat : s = offset[k] + 1 /\ s = Start /\ s <= t
    BY <1>11 DEF Placed
  <2>3a. PICK o \in Nat : o = offset[k] /\ s = o + 1
    BY <1>11, <2>3 DEF Placed
  <2>4. PICK l \in Nat \ {0} : l = Len(Operand(k))
    BY <1>3, <1>10, OperandFacts
  <2>5. PICK e \in Nat : e = EndOf(k) /\ e + 1 = s + l
    <3>1. EndOf(k) = o + l
      BY <2>4, <2>3a DEF EndOf
    <3>2. (o + l) + 1 = s + l /\ o + l \in Nat
      BY <2>3a
    <3> QED
      BY <3>1, <3>2
  <2>6. NumberOf(k) = engine.state[k] /\ NumberOf(k) \in Nat
    BY <1>3, <1>10, OperandKinds DEF NumberOf
  <2>7. /\ state' = Append(state, IF CharT THEN text[s] ELSE NumberAt(s))
        /\ at' = IF CharT THEN s + 1 ELSE EndOfRun(Digit, s)
        /\ ~fail'
    BY <2>2, <2>3 DEF ExtractWord
  <2>8. ASSUME state' = Append(state, engine.state[k]), at' = e + 1, e <= t
        PROVE  Words'
    <3>1. /\ state' \in Seq(Nat) /\ Len(state') = k
          /\ \A i \in 1 .. n : state'[i] = state[i]
          /\ state'[k] = engine.state[k]
          /\ pc' = "words" => Len(state') < StateWords
          /\ pc' = "next" => Len(state') = StateWords
      BY <1>6, <2>6, <2>8 DEF k
    <3>2. \A i \in 1 .. k : state'[i] = engine.state[i]
      <4> TAKE i \in 1 .. k
      <4>1. i \in 1 .. n \/ i = k
        BY DEF k
      <4> QED
        BY <1>11, <3>1, <4>1
    <3>3. EndOf(Len(state))' = e
      <4>1. EndOf(k)' = EndOf(k)
        BY <1>3 DEF EndOf, Operand, Printed
      <4>2. EndOf(Len(state))' = EndOf(k)'
        BY <3>1 DEF EndOf, Operand
      <4> QED
        BY <2>5, <4>1, <4>2
    <3>4. at' <= Len(text') + 1
      BY <1>2, <1>3, <2>8
    <3>5. Len(state') # 0
      BY <1>10, <3>1
    <3>6. Reading'
      <4>1. \A i \in 1 .. Len(state') : state'[i] = engine'.state[i]
        BY <1>3, <3>1, <3>2
      <4>2. at' = IF Len(state') = 0 THEN 1 ELSE EndOf(Len(state))' + 1
        BY <2>8, <3>3, <3>5
      <4> QED
        BY <3>4, <4>1, <4>2 DEF Reading
    <3>7. pc' \in {"words", "next"}
      BY <1>3
    <3> QED
      BY <2>7, <3>1, <3>6, <3>7 DEF Words
  <2>9. CASE CharT
    <3>1. Operand(k) = <<NumberOf(k)>>
      BY <1>3, <1>10, <2>9, OperandKinds
    <3>2. l = 1
      BY <2>4, <3>1
    <3>3. text[s] = NumberOf(k)
      <4>1. text[offset[k] + 1] = Operand(k)[1]
        BY <1>2, <1>11, <2>4, <3>2 DEF Placed
      <4> QED
        BY <2>3, <3>1, <4>1
    <3>4. at' = e + 1 /\ e <= t
      BY <2>3, <2>5, <2>7, <2>9, <3>2
    <3>5. state' = Append(state, engine.state[k])
      BY <2>6, <2>7, <2>9, <3>3
    <3>6. Words'
      BY <2>8, <3>4, <3>5
    <3> QED
      BY <1>4, <1>5, <3>6 DEF StreamInv
  <2>10. CASE ~CharT
    <3>1. /\ EndOf(k) <= Len(text) =>
               /\ EndOfRun(Digit, offset[k] + 1) = EndOf(k) + 1
               /\ NumberAt(offset[k] + 1) = NumberOf(k)
          /\ EndOf(k) > Len(text) =>
               /\ EndOfRun(Digit, offset[k] + 1) = Len(text) + 1
               /\ NumberAt(offset[k] + 1) \in Nat
      BY <1>2, <1>3, <1>10, <1>11, <2>10, NumberIsRead
    <3>2. /\ e <= t => EndOfRun(Digit, s) = e + 1 /\ NumberAt(s) = NumberOf(k)
          /\ e > t => EndOfRun(Digit, s) = t + 1 /\ NumberAt(s) \in Nat
      BY <1>2, <2>3, <2>5, <3>1
    <3>3. CASE e <= t
      <4>1. at' = e + 1 /\ state' = Append(state, engine.state[k])
        BY <2>6, <2>7, <2>10, <3>2, <3>3
      <4>2. Words'
        BY <2>8, <3>3, <4>1
      <4> QED
        BY <1>4, <1>5, <4>2 DEF StreamInv
    <3>4. CASE e > t
      <4>1. cut
        BY <1>2, <1>11, <2>5, <3>4 DEF Placed
      <4>2. at' = t + 1
        BY <2>7, <2>10, <3>2, <3>4
      <4>3. PICK v \in Nat : state' = Append(state, v)
        BY <2>7, <2>10, <3>2, <3>4
      <4>4. /\ state' \in Seq(Nat)
            /\ pc' = "words" => Len(state') < StateWords
            /\ pc' = "next" => Len(state') = StateWords
        BY <1>6, <4>3
      <4>5. Reading' /\ pc' \in {"words", "next"}
        BY <1>2, <1>3, <4>1, <4>2 DEF Reading
      <4>6. Words'
        BY <2>7, <4>4, <4>5 DEF Words
      <4> QED
        BY <1>4, <1>5, <4>6 DEF StreamInv
    <3> QED
      BY <3>3, <3>4
  <2> QED
    BY <2>9, <2>10
<1>12. ~fail => \/ cut /\ Start = t + 1
                \/ /\ Placed(k)
                   /\ offset[k] + 1 <= t
                   /\ Start = offset[k] + 1
                   /\ \A i \in 1 .. n : state[i] = engine.state[i]
  <2>1. k \in Nat /\ k = Len(state) + 1 /\ pc \in {"words", "next"}
    BY <1>1, <1>3
  <2> HIDE DEF k
  <2> QED
    BY <1>1, <1>2, <2>1, ReadStart
<1> QED
  BY <1>8, <1>9, <1>11, <1>12

LEMMA SameFunction ==
    ASSUME NEW S, NEW f \in [S -> Nat], NEW g \in [S -> Nat],
           \A i \in S : f[i] = g[i]
    PROVE  f = g
  OBVIOUS

\* The engine is restored from all of the words, or stays as it is.
LEMMA NextExtracted ==
    ASSUME StreamInv, Readable, ExtractNext
    PROVE  StreamInv'
<1>1. StateWords \in Nat \ {0} /\ Len(state) = StateWords /\ state \in Seq(Nat)
  BY SavedAssumption DEF StreamInv, Words, ExtractNext
<1>2. PICK t \in Nat : t = Len(text) /\ text \in Seq(Nat)
  BY LenProperties DEF StreamInv, Layout
<1>3. /\ pc = "next" /\ pc' = "done"
      /\ UNCHANGED <<engine, text, offset, cut, state, old>>
      /\ fail' = ~Extracted /\ target' = Restored(Extracted)
      /\ engine \in Saved /\ target = old
  BY DEF ExtractNext, StreamInv, TargetInv
<1>4. Layout'
  BY <1>3, LayoutSame DEF StreamInv
<1>5. Words'
  BY <1>1, <1>3 DEF Words
<1>6. ASSUME ~Extracted, cut
      PROVE  TargetInv'
  BY <1>3, <1>6 DEF TargetInv, Restored
<1>7. CASE fail
  <2>1. ~Extracted /\ cut
    BY <1>3, <1>7 DEF Extracted, CanExtract, StreamInv, Words
  <2> QED
    BY <1>4, <1>5, <1>6, <2>1 DEF StreamInv
<1>8. CASE ~fail /\ cut /\ Start = t + 1
  <2>1. ~Extracted
    BY <1>2, <1>8 DEF Extracted, CanExtract
  <2> QED
    BY <1>4, <1>5, <1>6, <1>8, <2>1 DEF StreamInv
<1>9. PICK k \in 1 .. StateWords + 1 : k = StateWords + 1
  BY <1>1
<1>10. CASE /\ ~fail
            /\ Placed(k)
            /\ offset[k] + 1 <= t
            /\ Start = offset[k] + 1
            /\ \A i \in 1 .. StateWords : state[i] = engine.state[i]
  <2>1. Len(text) <= EndOf(StateWords + 1)
    BY <1>3 DEF StreamInv, Layout
  <2>2. EndOf(k) = EndOf(StateWords + 1)
    BY <1>9, Zenon
  <2>3. Len(text) <= EndOf(k)
    BY <2>1, <2>2
  <2>4. ~(k <= StateWords)
    BY <1>1, <1>9
  <2>5. CanExtract(CharT /\ k <= StateWords)
    BY <1>2, <1>3, <1>10, <2>3, FoundIsExtracted
  <2>6. Extracted
    BY <2>4, <2>5 DEF Extracted, CanExtract
  <2>7. target' = [state |-> state, next |-> NumberAt(Start)] /\ ~fail'
    BY <1>3, <2>6 DEF Restored
  <2>8. state = engine.state
    <3>1. PICK f \in [1 .. StateWords -> Nat] : f = engine.state
      BY <1>3, SavedFacts
    <3>2. PICK g \in [1 .. StateWords -> Nat] : g = state
      BY <1>1, LenProperties
    <3>3. \A i \in 1 .. StateWords : g[i] = f[i]
      BY <1>10, <3>1, <3>2
    <3>4. g = f
      BY <3>3, SameFunction, Zenon
    <3> QED
      BY <3>1, <3>2, <3>4, Zenon
  <2>9. ~cut => target' = engine
    <3>1. ASSUME ~cut PROVE NumberAt(Start) = engine.next
      <4>1. EndOf(k) <= Len(text)
        BY <1>10, <3>1 DEF Placed
      <4>2. NumberAt(offset[k] + 1) = NumberOf(k)
        BY <1>2, <1>3, <1>10, <2>3, <2>4, <4>1, NumberIsRead
      <4> QED
        BY <1>10, <2>4, <4>2 DEF NumberOf
    <3>2. engine = [state |-> engine.state, next |-> engine.next]
      BY <1>3, SavedAssumption
    <3> QED
      BY <2>7, <2>8, <3>1, <3>2
  <2>10. target'.state = engine.state
    BY <2>7, <2>8
  <2>11. TargetInv'
    BY <1>3, <2>7, <2>9, <2>10 DEF TargetInv
  <2> QED
    BY <1>4, <1>5, <2>11 DEF StreamInv
<1>11. ~fail => \/ cut /\ Start = t + 1
                \/ /\ Placed(k)
                   /\ offset[k] + 1 <= t
                   /\ Start = offset[k] + 1
                   /\ \A i \in 1 .. StateWords : state[i] = engine.state[i]
  <2>1. k \in Nat /\ k = Len(state) + 1 /\ pc \in {"words", "next"}
    BY <1>1, <1>3, <1>9
  <2> QED
    BY <1>1, <1>2, <2>1, ReadStart
<1> QED
  BY <1>7, <1>8, <1>10, <1>11

LEMMA StreamInvInit ==
    IOInit => StreamInv
<1> SUFFICES ASSUME IOInit PROVE StreamInv
  OBVIOUS
<1>1. text \in Seq(Nat) /\ offset \in Seq(Nat) /\ state \in Seq(Nat) /\ Len(offset) = 0
  BY DEF IOInit
<1>2. Layout
  BY <1>1 DEF IOInit, Layout
<1>3. Words
  BY <1>1 DEF IOInit, Words
<1>4. TargetInv
  BY DEF IOInit, TargetInv
<1> QED
  BY <1>2, <1>3, <1>4 DEF StreamInv

LEMMA StreamInvStep ==
    ASSUME StreamInv, Readable, [IONext]_ioVars
    PROVE  StreamInv'
<1>0. engine \in Saved /\ Layout /\ Words /\ TargetInv
  BY DEF StreamInv, TargetInv
<1>1. ASSUME NEW e \in Saved, Insert(e) PROVE StreamInv'
  <2>1. /\ text' = << >> /\ offset' = << >> /\ state' = << >> /\ at' = 1
        /\ ~fail' /\ ~cut' /\ pc' = "inserting" /\ engine' = e
        /\ target' = target /\ old' = target
    BY <1>1 DEF Insert
  <2>2. << >> \in Seq(Nat) /\ Len(<< >>) = 0
    OBVIOUS
  <2>3. Layout'
    BY <2>1, <2>2, SavedAssumption DEF Layout, Inserting
  <2>4. Words'
    BY <2>1, <2>2 DEF Words
  <2>5. TargetInv'
    BY <2>1 DEF TargetInv
  <2> QED
    BY <2>3, <2>4, <2>5 DEF StreamInv
<1>2. CASE InsertWord
  <2>1. Layout'
    BY <1>0, <1>2, LayoutInsertWord
  <2>2. Words' /\ TargetInv'
    BY <1>0, <1>2 DEF InsertWord, Words, TargetInv
  <2> QED
    BY <2>1, <2>2 DEF StreamInv
<1>3. CASE InsertNext
  <2>1. Layout'
    BY <1>0, <1>3, LayoutInsertNext
  <2>2. Words' /\ TargetInv'
    BY <1>0, <1>3 DEF InsertNext, Words, TargetInv
  <2> QED
    BY <2>1, <2>2 DEF StreamInv
<1>4. ASSUME NEW n \in 0 .. Len(text) - 1, CutShort(n) PROVE StreamInv'
  <2>1. Layout' /\ Len(text') = n
    BY <1>0, <1>4, LayoutCutShort
  <2>2. /\ pc = "inserted" /\ pc' = "words" /\ cut'
        /\ UNCHANGED <<engine, offset, at, state, fail, target, old>>
    BY <1>4 DEF CutShort
  <2>3. state = << >> /\ at = 1 /\ ~fail
    BY <1>0, <2>2 DEF Words
  <2>4. Len(state') = 0 /\ state' \in Seq(Nat)
    BY <2>2, <2>3
  <2>5. Reading'
    BY <2>1, <2>2, <2>3, <2>4 DEF Reading
  <2>6. Words'
    BY <2>2, <2>3, <2>4, <2>5, SavedAssumption DEF Words
  <2>7. TargetInv'
    BY <1>0, <2>2 DEF TargetInv
  <2> QED
    BY <2>1, <2>6, <2>7 DEF StreamInv
<1>5. CASE Begin
  <2>1. /\ pc = "inserted" /\ pc' = "words"
        /\ UNCHANGED <<engine, text, offset, cut, at, state, fail, target, old>>
    BY <1>5 DEF Begin
  <2>2. Layout'
    BY <1>0, <2>1, LayoutSame
  <2>3. state = << >> /\ at = 1 /\ ~fail
    BY <1>0, <2>1 DEF Words
  <2>4. Len(state') = 0 /\ state' \in Seq(Nat)
    BY <2>1, <2>3
  <2>5. Len(text) \in Nat
    BY <1>0, LenProperties DEF Layout
  <2>6. Reading'
    BY <2>1, <2>3, <2>4, <2>5 DEF Reading
  <2>7. Words'
    BY <2>1, <2>3, <2>4, <2>6, SavedAssumption DEF Words
  <2>8. TargetInv'
    BY <1>0, <2>1 DEF TargetInv
  <2> QED
    BY <2>2, <2>7, <2>8 DEF StreamInv
<1>6. CASE ExtractWord
  BY <1>6, WordExtracted
<1>7. CASE ExtractNext
  BY <1>7, NextExtracted
<1>8. CASE UNCHANGED ioVars
  BY <1>8 DEF ioVars, StreamInv, Layout, Inserting, Placed, EndOf, Operand,
              Printed, Words, Reading, TargetInv
<1> QED
  BY <1>1, <1>2, <1>3, <1>4, <1>5, <1>6, <1>7, <1>8 DEF IONext

LEMMA StreamInvariant ==
    ASSUME Readable
    PROVE  IOSpec => []StreamInv
<1>1. IOInit => StreamInv
  BY StreamInvInit
<1>2. StreamInv /\ [IONext]_ioVars => StreamInv'
  BY StreamInvStep
<1> QED
  BY <1>1, <1>2, PTL DEF IOSpec

\* What operator<< wrote of any engine, operator>> reads back into an equal one
\* (randen.h:159-195), for numbers of any length, and for the words of a
\* character type if none of them is white space.
THEOREM TextRestores ==
    ASSUME Readable
    PROVE  IOSpec => []RoundTrip
<1>1. StreamInv => RoundTrip
  BY DEF StreamInv, TargetInv, RoundTrip
<1> QED
  BY <1>1, StreamInvariant, PTL

\* Wherever a text ends early, operator>> restores all of the words or none of
\* them (randen.h:187-191), and none when it reports a failure.
THEOREM WordsTogether ==
    ASSUME Readable
    PROVE  IOSpec => []AllWordsOrNone
<1>1. StreamInv => AllWordsOrNone
  BY DEF StreamInv, TargetInv, AllWordsOrNone
<1> QED
  BY <1>1, StreamInvariant, PTL
=============================================================================
