------------------------------- MODULE Randen -------------------------------
(***************************************************************************)
(* The engine Randen<T> of src/randen.h: a buffer state_ of kStateT words, *)
(* of which the first kCapacityT are never shown, and the index next_ of   *)
(* the next word to hand out.  Internal::Generate and Internal::Absorb     *)
(* (src/randen.cc, module Sponge) are symbolic here: the content of state_ *)
(* is the history that determines it,                                      *)
(*                                                                         *)
(*   seed      the value seed() filled the outer words with                *)
(*   gens      how often Generate has run since                            *)
(*   absorbed  absorbed[i]: the entropy XOR-ed in after i runs of Generate *)
(*                                                                         *)
(* and two contents are equal exactly when these are (Generate has no      *)
(* collisions among the histories explored, and the entropy values and the *)
(* seeds are linearly independent).  A word is a content with an index.    *)
(*                                                                         *)
(* discard runs its loop one iteration per step; an engine in that loop    *)
(* has count > 0 and takes no other operation (the object is not shared    *)
(* between threads), other engines go on.                                  *)
(***************************************************************************)
EXTENDS Integers

CONSTANTS
    Engine,         \* the engine objects of the program
    Seed,           \* the integers passed to seed(value); 0 is the default one
    Entropy,        \* what a seed sequence puts into the buffer of reseed
    kStateT,        \* words of T in state_
    kCapacityT,     \* words of T in the inner part
    MaxGenerate,    \* bound: runs of Generate after a seed
    MaxDiscard,     \* bound: largest argument of discard
    NoWord          \* "the last operation returned no word"

\* randen.h:198-199; 0 is the default argument of seed (line 108).
ASSUME SizeAssumption ==
    /\ kStateT \in Nat
    /\ kCapacityT \in Nat
    /\ kCapacityT < kStateT

ASSUME SeedAssumption == 0 \in Seed

ASSUME BoundAssumption == MaxGenerate \in Nat /\ MaxDiscard \in Nat

VARIABLES
    state_,  \* engine -> content of its buffer
    next_,   \* engine -> index into its buffer
    count,   \* engine -> words the running discard has still to skip, or 0
    asked,   \* words the last operation was asked to discard
    ret      \* the word the last operation returned, or NoWord

vars == <<state_, next_, count, asked, ret>>

kRateT == kStateT - kCapacityT

History == [0 .. MaxGenerate -> SUBSET Entropy]

Content == [seed : Seed, absorbed : History, gens : 0 .. MaxGenerate]

Word == [content : Content, index : 0 .. kStateT - 1]

ASSUME NoWordAssumption == NoWord \notin Word

-----------------------------------------------------------------------------
(* Internal, as the engine uses it.                                        *)

Generate(s) == [s EXCEPT !.gens = @ + 1]

\* XOR: absorbing the same buffer twice with no Generate between cancels.
Toggle(S, x) == IF x \in S THEN S \ {x} ELSE S \cup {x}

Absorb(x, s) ==
    [seed |-> s.seed,
     absorbed |-> [s.absorbed EXCEPT ![s.gens] = Toggle(@, x)],
     gens |-> s.gens]

\* seed(value): zeros in the inner part, the value everywhere else.
Filled(v) ==
    [seed |-> v, absorbed |-> [i \in 0 .. MaxGenerate |-> {}], gens |-> 0]

Exhausted_OffByOne(next) == next > kStateT

\* No word is left in the buffer.
Exhausted(next) == next >= kStateT

Remaining(e) == kStateT - next_[e]

Fits_Strict(e, n) == n < Remaining(e)

\* The first test of discard.
Fits(e, n) == n <= Remaining(e)

WholeBlock_OffByOne(c) == c >= kRateT

\* The condition of the loop of discard.
WholeBlock(c) == c > kRateT

PartOfBlock_Strict(c) == c # 0 /\ c < kRateT

\* What the loop leaves for the statement after it.
PartOfBlock(c) == c # 0 /\ ~WholeBlock(c)

\* The bound: no run goes past the MaxGenerate-th block of a tape.
HasRoom(e, n) == n - Remaining(e) <= (MaxGenerate - state_[e].gens) * kRateT

Idle(e) == count[e] = 0

-----------------------------------------------------------------------------
\* Every constructor calls seed; a container of engines is in one of these.
Init ==
    /\ state_ \in [Engine -> {Filled(v) : v \in Seed}]
    /\ next_ = [e \in Engine |-> kStateT]
    /\ count = [e \in Engine |-> 0]
    /\ asked = 0
    /\ ret = NoWord

SeedValue(e, v) ==
    /\ Idle(e)
    /\ state_' = [state_ EXCEPT ![e] = Filled(v)]
    /\ next_' = [next_ EXCEPT ![e] = kStateT]
    /\ asked' = 0
    /\ ret' = NoWord
    /\ UNCHANGED count

\* seed(seq) is seed() followed by reseed(seq).
SeedSeq(e, x) ==
    /\ Idle(e)
    /\ state_' = [state_ EXCEPT ![e] = Absorb(x, Filled(0))]
    /\ next_' = [next_ EXCEPT ![e] = kStateT]
    /\ asked' = 0
    /\ ret' = NoWord
    /\ UNCHANGED count

Reseed_KeepsIndex(e, x) ==
    /\ Idle(e)
    /\ state_' = [state_ EXCEPT ![e] = Absorb(x, @)]
    /\ asked' = 0
    /\ ret' = NoWord
    /\ UNCHANGED <<next_, count>>

Reseed(e, x) ==
    /\ Idle(e)
    /\ state_' = [state_ EXCEPT ![e] = Absorb(x, @)]
    /\ next_' = [next_ EXCEPT ![e] = kStateT]
    /\ asked' = 0
    /\ ret' = NoWord
    /\ UNCHANGED count

\* operator(): a word left in the buffer, or the first one of a new block.
Call(e) ==
    /\ Idle(e)
    /\ HasRoom(e, 1)
    /\ LET refill == Exhausted(next_[e])
           s == IF refill THEN Generate(state_[e]) ELSE state_[e]
           i == IF refill THEN kCapacityT ELSE next_[e]
       IN  /\ state_' = [state_ EXCEPT ![e] = s]
           /\ next_' = [next_ EXCEPT ![e] = i + 1]
           /\ ret' = [content |-> s, index |-> i]
    /\ asked' = 0
    /\ UNCHANGED count

\* discard, when the buffer holds enough words.
DiscardWithin(e, n) ==
    /\ Idle(e)
    /\ Fits(e, n)
    /\ next_' = [next_ EXCEPT ![e] = @ + n]
    /\ asked' = n
    /\ ret' = NoWord
    /\ UNCHANGED <<state_, count>>

\* discard, when it does not: the rest of the buffer is used up first.
DiscardBegin(e, n) ==
    /\ Idle(e)
    /\ HasRoom(e, n)
    /\ ~Fits(e, n)
    /\ count' = [count EXCEPT ![e] = n - Remaining(e)]
    /\ asked' = n
    /\ ret' = NoWord
    /\ UNCHANGED <<state_, next_>>

\* One iteration of the loop of discard: a whole block is skipped.
DiscardBlock(e) ==
    /\ WholeBlock(count[e])
    /\ state_' = [state_ EXCEPT ![e] = Generate(@)]
    /\ next_' = [next_ EXCEPT ![e] = kCapacityT]
    /\ count' = [count EXCEPT ![e] = @ - kRateT]
    /\ UNCHANGED <<asked, ret>>

\* After the loop: what is left lies within one block.
DiscardTail(e) ==
    /\ PartOfBlock(count[e])
    /\ state_' = [state_ EXCEPT ![e] = Generate(@)]
    /\ next_' = [next_ EXCEPT ![e] = kCapacityT + count[e]]
    /\ count' = [count EXCEPT ![e] = 0]
    /\ UNCHANGED <<asked, ret>>

\* The defaulted copy and move operations: moving from an array copies it.
Copy(e, f) ==
    /\ Idle(e)
    /\ Idle(f)
    /\ state_' = [state_ EXCEPT ![e] = state_[f]]
    /\ next_' = [next_ EXCEPT ![e] = next_[f]]
    /\ asked' = 0
    /\ ret' = NoWord
    /\ UNCHANGED count

DiscardStep(e) == DiscardBlock(e) \/ DiscardTail(e)

Next ==
    \E e \in Engine :
      \/ \E v \in Seed : SeedValue(e, v)
      \/ \E x \in Entropy : SeedSeq(e, x) \/ Reseed(e, x)
      \/ Call(e)
      \/ \E n \in 0 .. MaxDiscard : DiscardWithin(e, n) \/ DiscardBegin(e, n)
      \/ DiscardStep(e)
      \/ \E f \in Engine : Copy(e, f)

Spec == Init /\ [][Next]_vars

\* A call of discard that has been entered goes on: it is straight-line code
\* of one thread.
FairSpec == Spec /\ \A e \in Engine : WF_vars(DiscardStep(e))

-----------------------------------------------------------------------------
(* Properties.                                                             *)

TypeOK ==
    /\ state_ \in [Engine -> Content]
    /\ next_ \in [Engine -> kCapacityT .. kStateT]
    /\ count \in [Engine -> 0 .. MaxDiscard]
    /\ asked \in 0 .. MaxDiscard
    /\ ret \in Word \cup {NoWord}

\* operator() (randen.h:85-98): a word that can still be handed out is an
\* outer word of a block that Generate produced and that nothing has been
\* XOR-ed into since.  In particular reseed and seed leave no word behind.
OnlyGeneratedWords ==
    \A e \in Engine : next_[e] < kStateT =>
        /\ state_[e].gens > 0
        /\ state_[e].absorbed[state_[e].gens] = {}
        /\ next_[e] >= kCapacityT

\* Between two operations an engine never sits at the start of a block: that
\* position is always represented by the end of the block before.
Canonical == \A e \in Engine : Idle(e) => next_[e] > kCapacityT

\* A discard that has been entered has room for the blocks it will generate.
RoomForDiscard ==
    \A e \in Engine : count[e] <= (MaxGenerate - state_[e].gens) * kRateT

\* Nothing has been absorbed in front of a block beyond the next one.
NoFutureEntropy ==
    \A e \in Engine : \A b \in 0 .. MaxGenerate :
        b > state_[e].gens => state_[e].absorbed[b] = {}

\* The five together are inductive (RandenProofs).  They say what a reader of
\* randen.h:84-148 has to know of next_: it is past the inner part, it points
\* at words of a finished block, and a block is only entered with its first
\* word used.
IInv ==
    /\ TypeOK
    /\ OnlyGeneratedWords
    /\ Canonical
    /\ RoomForDiscard
    /\ NoFutureEntropy

\* Where an engine stands on its tape, and which tape that is.
PositionOf(s, next, c) ==
    IF c = 0 THEN s.gens * kRateT - (kStateT - next) ELSE s.gens * kRateT + c

TapeOf(s) == [seed |-> s.seed, absorbed |-> s.absorbed]

Position(e) == PositionOf(state_[e], next_[e], count[e])

Tape(e) == TapeOf(state_[e])

\* operator== (randen.h:150-154) compares the buffers and the indices.  That
\* is right only if an engine between two operations has one representation
\* per future: two engines that will deliver the same words forever are never
\* told apart by how they got there (calls, discards, or both).
EqualIffSameFuture ==
    \A e, f \in Engine : Idle(e) /\ Idle(f) =>
      ((state_[e] = state_[f] /\ next_[e] = next_[f])
         <=> (Tape(e) = Tape(f) /\ Position(e) = Position(f)))

TapeMap == [e \in Engine |-> Tape(e)]

PositionMap == [e \in Engine |-> Position(e)]

\* Word index of the gens-th block is word index - kCapacityT of that block.
PlaceOf(w) ==
    [seed |-> w.content.seed,
     absorbed |-> w.content.absorbed,
     pos |-> (w.content.gens - 1) * kRateT + (w.index - kCapacityT)]

RetMap == IF ret = NoWord THEN NoWord ELSE PlaceOf(ret)

Stream == INSTANCE RandomStream WITH
    tape <- TapeMap, pos <- PositionMap, ret <- RetMap

\* Every operation is one step of the abstract stream: discard(n) has the
\* effect of n calls, reseed starts a new block, copies go on alike.
ImplementsStream == Stream!Spec

\* discard (randen.h:138-147) comes to an end, for every count.
DiscardTerminates == \A e \in Engine : count[e] > 0 ~> count[e] = 0
=============================================================================
