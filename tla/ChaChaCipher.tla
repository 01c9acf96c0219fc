---------------------------- MODULE ChaChaCipher ----------------------------
(***************************************************************************)
(* ChaCha as it is defined, on single words: quarter rounds on the columns  *)
(* and on the diagonals of a matrix of 4 x 4 words, four double rounds, and *)
(* the addition of the input.  Module ChaCha is src/engine_chacha.h, which  *)
(* works on vectors.  The word operations are parameters.                   *)
(***************************************************************************)
EXTENDS Integers

CONSTANTS
    Add(_, _),      \* addition modulo 2^32
    Xor(_, _),
    Rotate(_, _)    \* Rotate(x, c): x rotated to the left by c bits

\* Half of a quarter round, on the four words of x.
Mix(x, r, s) ==
    LET a == Add(x[1], x[2])
        d == Rotate(Xor(x[4], a), r)
        c == Add(x[3], d)
        b == Rotate(Xor(x[2], c), s)
    IN  <<a, b, c, d>>

QuarterRound(x) == Mix(Mix(x, 16, 12), 8, 7)

\* A matrix is a tuple of four rows, and is given here by its columns.
FromColumns(p, q, r, s) ==
    <<<<p[1], q[1], r[1], s[1]>>, <<p[2], q[2], r[2], s[2]>>,
      <<p[3], q[3], r[3], s[3]>>, <<p[4], q[4], r[4], s[4]>>>>

Column(m, l) == <<m[1][l], m[2][l], m[3][l], m[4][l]>>

\* Quarter rounds on the columns ...
Columns(m) ==
    FromColumns(QuarterRound(Column(m, 1)), QuarterRound(Column(m, 2)),
                QuarterRound(Column(m, 3)), QuarterRound(Column(m, 4)))

\* ... and on the diagonals.
Diagonals(m) ==
    LET p == QuarterRound(<<m[1][1], m[2][2], m[3][3], m[4][4]>>)
        q == QuarterRound(<<m[1][2], m[2][3], m[3][4], m[4][1]>>)
        r == QuarterRound(<<m[1][3], m[2][4], m[3][1], m[4][2]>>)
        s == QuarterRound(<<m[1][4], m[2][1], m[3][2], m[4][3]>>)
    IN  <<<<p[1], q[1], r[1], s[1]>>, <<s[2], p[2], q[2], r[2]>>,
          <<r[3], s[3], p[3], q[3]>>, <<q[4], r[4], s[4], p[4]>>>>

DoubleRound(m) == Diagonals(Columns(m))

\* Row-wise addition of two matrices.
AddRow(x, y) == <<Add(x[1], y[1]), Add(x[2], y[2]), Add(x[3], y[3]), Add(x[4], y[4])>>

AddMatrix(x, y) ==
    <<AddRow(x[1], y[1]), AddRow(x[2], y[2]), AddRow(x[3], y[3]), AddRow(x[4], y[4])>>

\* ChaCha8: eight rounds.
Cipher(m) ==
    AddMatrix(DoubleRound(DoubleRound(DoubleRound(DoubleRound(m)))), m)

\* Word k of a matrix, row by row.
WordOf(m, k) == m[1 + (k \div 4)][1 + (k % 4)]
=============================================================================
