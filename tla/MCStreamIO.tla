----------------------------- MODULE MCStreamIO -----------------------------
(* Ten words, so that the index takes one digit or two.  One state has words *)
(* of every length from ten digits to one, the other one has the codes of a  *)
(* space, of control characters and of digits among its words.               *)
EXTENDS StreamIO, SequencesExt

MCDecimal(n) ==
    LET digits[m \in Nat] ==
          IF m < 10 THEN <<48 + m>>
          ELSE Append(digits[m \div 10], 48 + (m % 10))
    IN  digits[n]

MCValueOf(digits) == FoldLeft(LAMBDA n, c : 10 * n + (c - 48), 0, digits)

MCWords == [k \in 1 .. 10 |-> 10 ^ (10 - k) + (k % 10)]

MCBytes == [k \in 1 .. 10 |-> CASE k % 3 = 0 -> 32
                                 [] k % 3 = 1 -> 9 + k
                                 [] OTHER     -> 49]

MCSaved == [state : IF CharT THEN {MCBytes} ELSE {MCWords, MCBytes},
            next : {1, 9, 10}]
=============================================================================
