----------------------------- MODULE ByteStream -----------------------------
(***************************************************************************)
(* What the Rust generator (src/contrib/rust/src/lib.rs) promises: its seed *)
(* determines one endless tape of bytes.  fill_bytes returns the next bytes *)
(* of it; next_u32 and next_u64 skip to the next multiple of their size and *)
(* return one word from there.                                             *)
(***************************************************************************)
EXTENDS Integers

CONSTANTS Sizes,    \* bytes of a word: 4 for next_u32, 8 for next_u64
          Lengths   \* lengths of the slices to fill

VARIABLES
    pos,    \* next byte of the tape
    out     \* the bytes returned last, as places on the tape

vars == <<pos, out>>

Bytes(first, n) == [k \in 0 .. n - 1 |-> first + k]

RoundUp(p, size) == ((p + size - 1) \div size) * size

Init ==
    /\ pos = 0
    /\ out = Bytes(0, 0)

NextWord(size) ==
    /\ out' = Bytes(RoundUp(pos, size), size)
    /\ pos' = RoundUp(pos, size) + size

Fill(n) ==
    /\ out' = Bytes(pos, n)
    /\ pos' = pos + n

Next ==
    \/ \E size \in Sizes : NextWord(size)
    \/ \E n \in Lengths : Fill(n)

Spec == Init /\ [][Next]_vars
=============================================================================
