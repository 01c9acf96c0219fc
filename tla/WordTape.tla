------------------------------ MODULE WordTape ------------------------------
(***************************************************************************)
(* What the engines that the benchmark compares Randen with promise         *)
(* (src/engine_chacha.h, src/engine_os.h): a key determines a tape of       *)
(* words, every call delivers the next width words of it, and seeding goes  *)
(* to the start of the tape of another key.                                 *)
(***************************************************************************)
EXTENDS Integers

CONSTANTS
    Keys,
    Tape(_, _),     \* Tape(key, p): word p of the tape of key
    width,          \* words per call
    Length          \* words of a tape, which then repeats

VARIABLES
    key, pos,
    out             \* the words delivered last

tapeVars == <<key, pos, out>>

Nothing == [k \in 0 .. -1 |-> 0]

Init ==
    /\ key \in Keys
    /\ pos = 0
    /\ out = Nothing

Seed(k) ==
    /\ key' = k
    /\ pos' = 0
    /\ out' = Nothing

Deliver ==
    /\ out' = [k \in 0 .. width - 1 |-> Tape(key, pos + k)]
    /\ pos' = (pos + width) % Length
    /\ UNCHANGED key

Next ==
    \/ \E k \in Keys : Seed(k)
    \/ Deliver

Spec == Init /\ [][Next]_tapeVars
=============================================================================
