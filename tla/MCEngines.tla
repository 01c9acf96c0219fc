----------------------------- MODULE MCEngines -----------------------------
(* The engines besides Randen, one of them at a time: live names it.        *)
(* RustRng fills slices shorter than a word, of one state less or more than *)
(* a byte, and longer than two states.  ChaCha runs on real words of 32     *)
(* bits, as pairs of 16-bit halves, and returns 64 bits per call.           *)
EXTENDS RustRng, ChaCha, EngineOS, TLC

VARIABLE live

MCFiller == <<57005, 48879>>

\* keysetup after seed(value, stream), for 32-bit values and streams.
Setup(value, stream) ==
    <<value, <<0, 0>>, MCFiller, MCFiller, stream, <<0, 0>>, MCFiller, MCFiller>>

DefaultSetup == Setup(<<0, 1>>, <<0, 0>>)

MCInit ==
    /\ live \in {"rust", "chacha", "os"}
    /\ Init
    /\ CInit /\ (live # "chacha" => keysetup = DefaultSetup)
    /\ OSInit /\ (live # "os" => file = "open")

MCNext ==
    \/ live = "rust" /\ Next /\ UNCHANGED <<live, chachaVars, osVars>>
    \/ live = "chacha" /\ CNext /\ UNCHANGED <<live, vars, osVars>>
    \/ live = "os" /\ OSNext /\ UNCHANGED <<live, vars, chachaVars>>

\* A loop that is entered runs on.
MCSpec ==
    /\ MCInit /\ [][MCNext]_<<live, vars, chachaVars, osVars>>
    /\ WF_vars(FillStep /\ UNCHANGED <<live, chachaVars, osVars>>)

MCLengths == {0, 1, 7, RATE - 1, RATE + 1, 2 * RATE + 3}

\* Exclusive or of two nibbles, of two bytes, of two halves.
XorNibble ==
    [a, b \in 0 .. 15 |->
       LET bit(x, n) == (x \div 2 ^ n) % 2
           sum(n)    == (bit(a, n) + bit(b, n)) % 2
       IN  sum(0) + 2 * sum(1) + 4 * sum(2) + 8 * sum(3)]

XorHalf(a, b) ==
    LET at(n) == XorNibble[(a \div 16 ^ n) % 16, (b \div 16 ^ n) % 16]
    IN  at(0) + 16 * at(1) + 256 * at(2) + 4096 * at(3)

MCXor(x, y) == <<XorHalf(x[1], y[1]), XorHalf(x[2], y[2])>>

MCAdd(x, y) ==
    LET low == x[2] + y[2]
    IN  <<(x[1] + y[1] + (low \div 65536)) % 65536, low % 65536>>

MCRotate(x, c) ==
    IF c = 16 THEN <<x[2], x[1]>>
    ELSE <<(x[1] * 2 ^ c + (x[2] \div 2 ^ (16 - c))) % 65536,
           (x[2] * 2 ^ c + (x[1] \div 2 ^ (16 - c))) % 65536>>

MCToWord(n) == <<n \div 65536, n % 65536>>

\* The test vector of a quarter round in RFC 7539, 2.1.1.
ASSUME QuarterRoundVector ==
    QuarterRound(<<<<4369, 4369>>, <<258, 772>>, <<39821, 28483>>, <<291, 17767>>>>)
      = <<<<59946, 37620>>, <<51996, 63694>>, <<17793, 18222>>, <<22657, 50363>>>>

\* 0x61707865, 0x3320646e, 0x79622d32, 0x6b206574 (engine_chacha.h:92).
MCConstants ==
    <<<<24944, 30821>>, <<13088, 25710>>, <<31074, 11570>>, <<27424, 25972>>>>

MCSeeds == {Setup(<<9279, 27272>>, <<34211, 2259>>), DefaultSetup}
=============================================================================
