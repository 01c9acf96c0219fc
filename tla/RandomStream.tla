---------------------------- MODULE RandomStream ----------------------------
(***************************************************************************)
(* What a Randen engine (src/randen.h) promises its user, with nothing of  *)
(* its buffer: an engine is a position on a tape of words.  The words of   *)
(* the tape come in blocks of kRateT; block b is determined by the seed    *)
(* and by the entropy absorbed before it was generated, that is in front   *)
(* of the blocks 0 .. b.                                                   *)
(*                                                                         *)
(* The module is the abstract specification that Randen implements, with   *)
(* every operation a single step: a call delivers the word under the       *)
(* position, discard(n) skips n words, reseed skips the rest of the block  *)
(* and changes every later block.                                          *)
(***************************************************************************)
EXTENDS Integers

CONSTANTS
    Engine,         \* the engine objects of the program
    Seed,           \* the integers passed to seed(value); 0 is the default one
    Entropy,        \* what a seed sequence puts into the buffer of reseed
    kRateT,         \* words of T per block
    MaxGenerate,    \* bound: blocks explored of a tape
    MaxDiscard,     \* bound: largest argument of discard
    NoWord          \* "the last operation returned no word"

VARIABLES
    tape,   \* engine -> [seed, absorbed]; absorbed[b]: entropy in front of block b
    pos,    \* engine -> number of words of the tape already used up
    asked,  \* words the last operation was asked to discard
    ret     \* the word the last operation returned, or NoWord

vars == <<tape, pos, asked, ret>>

-----------------------------------------------------------------------------
\* XOR-ing the same entropy twice cancels, so what was absorbed is a set and
\* one more absorption is the symmetric difference with a singleton.
Toggle(S, x) == IF x \in S THEN S \ {x} ELSE S \cup {x}

Fresh(v) == [seed |-> v, absorbed |-> [b \in 0 .. MaxGenerate |-> {}]]

\* The tape with x absorbed in front of block b.
Perturbed(t, b, x) ==
    [seed |-> t.seed, absorbed |-> [t.absorbed EXCEPT ![b] = Toggle(@, x)]]

Word(t, p) == [seed |-> t.seed, absorbed |-> t.absorbed, pos |-> p]

\* The block whose first word is the first one at or after position p that
\* starts a block.
StartsAt(b, p) == (b - 1) * kRateT < p /\ p <= b * kRateT

Init ==
    /\ tape \in [Engine -> {Fresh(v) : v \in Seed}]
    /\ pos = [e \in Engine |-> 0]
    /\ asked = 0
    /\ ret = NoWord

\* seed(value)
Reset(e, v) ==
    /\ tape' = [tape EXCEPT ![e] = Fresh(v)]
    /\ pos' = [pos EXCEPT ![e] = 0]
    /\ asked' = 0
    /\ ret' = NoWord

\* seed(seq)
ResetSeq(e, x) ==
    /\ tape' = [tape EXCEPT ![e] = Perturbed(Fresh(0), 0, x)]
    /\ pos' = [pos EXCEPT ![e] = 0]
    /\ asked' = 0
    /\ ret' = NoWord

\* reseed(seq): the unused rest of the current block is never delivered.
Perturb(e, x) ==
    /\ \E b \in 0 .. MaxGenerate :
         /\ StartsAt(b, pos[e])
         /\ tape' = [tape EXCEPT ![e] = Perturbed(@, b, x)]
         /\ pos' = [pos EXCEPT ![e] = b * kRateT]
    /\ asked' = 0
    /\ ret' = NoWord

\* operator()
Deliver(e) ==
    /\ pos[e] < MaxGenerate * kRateT
    /\ asked' = 0
    /\ ret' = Word(tape[e], pos[e])
    /\ pos' = [pos EXCEPT ![e] = @ + 1]
    /\ UNCHANGED tape

\* discard(n)
Skip(e, n) ==
    /\ pos[e] + n <= MaxGenerate * kRateT
    /\ pos' = [pos EXCEPT ![e] = @ + n]
    /\ asked' = n
    /\ ret' = NoWord
    /\ UNCHANGED tape

\* copy and move construction and assignment
Duplicate(e, f) ==
    /\ tape' = [tape EXCEPT ![e] = tape[f]]
    /\ pos' = [pos EXCEPT ![e] = pos[f]]
    /\ asked' = 0
    /\ ret' = NoWord

Next ==
    \E e \in Engine :
      \/ \E v \in Seed : Reset(e, v)
      \/ \E x \in Entropy : ResetSeq(e, x) \/ Perturb(e, x)
      \/ Deliver(e)
      \/ \E n \in 0 .. MaxDiscard : Skip(e, n)
      \/ \E f \in Engine : Duplicate(e, f)

Spec == Init /\ [][Next]_vars
=============================================================================
