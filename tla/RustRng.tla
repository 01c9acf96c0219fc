------------------------------ MODULE RustRng ------------------------------
(***************************************************************************)
(* RandenRng of src/contrib/rust/src/lib.rs.  The C++ engine has one word   *)
(* type and counts words; this one counts bytes with a cursor and mixes     *)
(* next_u32, next_u64 and fill_bytes on one state.  The contents of the     *)
(* state do not matter to the cursor: a byte of it is <<g, i>>, byte i of   *)
(* the state after the g-th generate.  fill_bytes is a loop, a step of the  *)
(* module is one iteration of it.                                          *)
(***************************************************************************)
EXTENDS Integers

CONSTANTS
    STATE_BYTES, CAPACITY_BYTES,
    Sizes,          \* bytes of the words, $size of impl_next
    Lengths,        \* lengths of the slices that are filled
    MaxGens         \* bound: runs of randen_generate

RATE == STATE_BYTES - CAPACITY_BYTES

\* lib.rs:20-21, 339-340; impl_next needs whole words in both parts.
ASSUME StateAssumption ==
    /\ CAPACITY_BYTES \in Nat
    /\ STATE_BYTES \in Nat
    /\ CAPACITY_BYTES < STATE_BYTES
    /\ CAPACITY_BYTES % 8 = 0
    /\ STATE_BYTES % 8 = 0
    /\ Sizes \subseteq {4, 8}

ASSUME BoundAssumption == Lengths \subseteq Nat /\ MaxGens \in Nat

VARIABLES
    cursor,     \* index of the next unconsumed byte of the state
    gens,       \* randen_generate has run this often
    pc,         \* "idle" or "fill"
    len, i,     \* fill_bytes: length of dest, bytes of it written
    dest,       \* fill_bytes: the bytes written
    out         \* what the last call returned

vars == <<cursor, gens, pc, len, i, dest, out>>

Nothing == [k \in 0 .. -1 |-> <<0, 0>>]

-----------------------------------------------------------------------------
\* new_unseeded, and from_seed, which absorbs the seed: nothing is generated
\* yet and the state counts as consumed.
Init ==
    /\ cursor = STATE_BYTES
    /\ gens = 0
    /\ pc = "idle"
    /\ len = 0
    /\ i = 0
    /\ dest = Nothing
    /\ out = Nothing

TooFew_OnlyWhenEmpty(size) == cursor >= STATE_BYTES

\* impl_next generates when less than a word is left.
TooFew(size) == cursor > STATE_BYTES - size

Index_RoundDown(c, size) == c \div size

\* The cursor, rounded up to a multiple of size, as an index of words.
Index(c, size) == (c + size - 1) \div size

\* next_u32 and next_u64.
NextWord(size) ==
    LET g     == IF TooFew(size) THEN gens + 1 ELSE gens
        c     == IF TooFew(size) THEN CAPACITY_BYTES ELSE cursor
        index == Index(c, size)
    IN  /\ pc = "idle"
        /\ g <= MaxGens
        /\ gens' = g
        /\ cursor' = (index + 1) * size
        /\ out' = [k \in 0 .. size - 1 |-> <<g, index * size + k>>]
        /\ UNCHANGED <<pc, len, i, dest>>

\* Bytes that MaxGens runs of generate leave to the caller.
Left == (MaxGens - gens) * RATE + (STATE_BYTES - cursor)

FillBegin(n) ==
    /\ pc = "idle"
    /\ n <= Left
    /\ pc' = "fill"
    /\ len' = n
    /\ i' = 0
    /\ dest' = Nothing
    /\ UNCHANGED <<cursor, gens, out>>

ConsumeBytes_KeepLast(c) ==
    IF len - i <= STATE_BYTES - 1 - c THEN len - i ELSE STATE_BYTES - 1 - c

\* What is left to fill or what is left in the state, whichever is less.
ConsumeBytes(c) ==
    IF len - i <= STATE_BYTES - c THEN len - i ELSE STATE_BYTES - c

FillIteration ==
    LET empty == cursor >= STATE_BYTES
        g     == IF empty THEN gens + 1 ELSE gens
        c     == IF empty THEN CAPACITY_BYTES ELSE cursor
        n     == ConsumeBytes(c)
    IN  /\ pc = "fill"
        /\ i < len
        /\ gens' = g
        /\ dest' = [k \in 0 .. i + n - 1 |->
                      IF k < i THEN dest[k] ELSE <<g, c + (k - i)>>]
        /\ cursor' = c + n
        /\ i' = i + n
        /\ UNCHANGED <<pc, len, out>>

FillReturn ==
    /\ pc = "fill"
    /\ i >= len
    /\ pc' = "idle"
    /\ out' = dest
    /\ len' = 0
    /\ i' = 0
    /\ dest' = Nothing
    /\ UNCHANGED <<cursor, gens>>

FillStep == FillIteration \/ FillReturn

Next ==
    \/ \E size \in Sizes : NextWord(size)
    \/ \E n \in Lengths : FillBegin(n)
    \/ FillStep

Spec == Init /\ [][Next]_vars

\* A loop that is entered runs on.
FairSpec == Spec /\ WF_vars(FillStep)

-----------------------------------------------------------------------------
(* Properties.                                                             *)

\* A byte that was generated, outside the inner part.
OuterByte(b) ==
    b[1] \in 1 .. gens /\ b[2] \in CAPACITY_BYTES .. STATE_BYTES - 1

\* The cursor is "at least CAPACITY_BYTES" (lib.rs:290-293) and never beyond
\* STATE_BYTES, so that fill_bytes subtracts without overflow, whatever mix
\* of calls came before.
TypeOK ==
    /\ cursor \in CAPACITY_BYTES .. STATE_BYTES
    /\ gens \in 0 .. MaxGens
    /\ pc \in {"idle", "fill"}
    /\ len \in Nat
    /\ i \in 0 .. len
    /\ DOMAIN dest = 0 .. i - 1
    /\ pc = "idle" => i = 0 /\ len = 0

\* "The initial zeros are not exposed as random numbers" (lib.rs:302-304) and
\* neither is the inner part, which new_unseeded and generate share the buffer
\* with: every byte of a result comes from the outer part after a generate.
OuterBytesOnly ==
    /\ \A k \in DOMAIN out : OuterByte(out[k])
    /\ \A k \in DOMAIN dest : OuterByte(dest[k])

\* Where a byte is on the tape of all bytes that are generated.
PlaceOf(b) == (b[1] - 1) * RATE + b[2] - CAPACITY_BYTES

\* Where the cursor is on that tape, at the entry of the running call.
Position == (gens - 1) * RATE + cursor - CAPACITY_BYTES - i

Tape == INSTANCE ByteStream WITH
    pos <- Position,
    out <- [k \in DOMAIN out |-> PlaceOf(out[k])]

\* No byte is returned twice or out of order, none is lost but for the
\* alignment of words, and fill_bytes returns the same bytes whatever slices
\* the caller cuts a request into, also across a generate.
ImplementsTape == Tape!Spec

\* fill_bytes returns: every iteration writes at least one byte.
FillTerminates == pc = "fill" ~> pc = "idle"
=============================================================================
