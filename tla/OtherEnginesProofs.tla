------------------------- MODULE OtherEnginesProofs -------------------------
(***************************************************************************)
(* The other engines of the repository with a buffer.                       *)
(*   RustRng: the cursor stays in the outer part, only generated bytes      *)
(* leave the generator, and any mix of calls reads one tape of bytes, for   *)
(* every size of the state whose parts are whole words.                     *)
(*   ChaCha: the vector code computes ChaCha8, for any operations on words, *)
(* and the engine delivers its key stream, for all keys and counters.       *)
(*   EngineOS: it hands out the words of the device one after the other,    *)
(* for all sizes of the buffer and whatever reads deliver.                  *)
(***************************************************************************)
EXTENDS RustRng, ChaCha, EngineOS, TLAPS

IInv ==
    /\ TypeOK
    /\ OuterBytesOnly
    /\ gens = 0 => cursor = STATE_BYTES
    /\ len - i <= Left
    /\ pc = "fill" => len \in Lengths
    /\ \A k \in DOMAIN dest : PlaceOf(dest[k]) = Position + k

-----------------------------------------------------------------------------
LEMMA Sized ==
    /\ STATE_BYTES \in Nat /\ CAPACITY_BYTES \in Nat
    /\ RATE \in Nat /\ RATE > 0 /\ RATE = STATE_BYTES - CAPACITY_BYTES
    /\ CAPACITY_BYTES % 8 = 0 /\ STATE_BYTES % 8 = 0 /\ RATE % 8 = 0
    /\ MaxGens \in Nat
  BY StateAssumption, BoundAssumption DEF RATE

\* A word starts within a word of the cursor and ends within the state.
LEMMA WordFits ==
    ASSUME NEW size \in Sizes, NEW c \in CAPACITY_BYTES .. STATE_BYTES - size
    PROVE  /\ Index(c, size) * size \in c .. c + size - 1
           /\ Index(c, size) * size + size <= STATE_BYTES
           /\ (Index(c, size) + 1) * size = Index(c, size) * size + size
           /\ Index(c, size) \in Int
<1>1. STATE_BYTES \in Nat /\ CAPACITY_BYTES \in Nat /\ STATE_BYTES % 8 = 0
  BY Sized
<1>2. CASE size = 4
  BY <1>1, <1>2 DEF Index
<1>3. CASE size = 8
  BY <1>1, <1>3 DEF Index
<1>4. QED
  BY <1>2, <1>3, StateAssumption

\* Whole states before the cursor do not change where the next word starts.
LEMMA RoundUpShift ==
    ASSUME NEW size \in Sizes, NEW m \in Int, NEW c \in Int
    PROVE  Tape!RoundUp(8 * m + c, size) = 8 * m + Index(c, size) * size
<1>1. CASE size = 4
  BY <1>1 DEF Tape!RoundUp, Index
<1>2. CASE size = 8
  BY <1>2 DEF Tape!RoundUp, Index
<1>3. QED
  BY <1>1, <1>2, StateAssumption

\* States, and the inner part, are whole words on the tape.
LEMMA StatesAligned ==
    ASSUME NEW g \in Int
    PROVE  \E m \in Int : g * RATE - CAPACITY_BYTES = 8 * m
<1>1. PICK r \in Int, a \in Int : RATE = 8 * r /\ CAPACITY_BYTES = 8 * a
  <2>1. RATE = 8 * (RATE \div 8) /\ CAPACITY_BYTES = 8 * (CAPACITY_BYTES \div 8)
    BY Sized
  <2>2. RATE \div 8 \in Int /\ CAPACITY_BYTES \div 8 \in Int
    BY Sized
  <2>3. QED
    BY <2>1, <2>2
<1>2. g * RATE = 8 * (g * r)
  BY <1>1
<1>3. g * r \in Int
  OBVIOUS
<1>4. g * r - a \in Int
  BY <1>1, <1>3
<1>5. g * RATE - CAPACITY_BYTES = 8 * (g * r - a)
  BY <1>1, <1>2, <1>3
<1>6. QED
  BY <1>4, <1>5

\* One generate more moves everything by the outer part of one state.
LEMMA NextState ==
    ASSUME NEW g \in Int
    PROVE  /\ g * RATE = (g - 1) * RATE + RATE
           /\ g * RATE \in Int
           /\ (g - 1) * RATE \in Int
  BY Sized

\* Where the next word starts.
LEMMA WordPlace ==
    ASSUME NEW g \in Int, NEW size \in Sizes, NEW c \in Int
    PROVE  Tape!RoundUp(g * RATE + c - CAPACITY_BYTES, size)
             = g * RATE + Index(c, size) * size - CAPACITY_BYTES
<1>1. PICK m \in Int : g * RATE - CAPACITY_BYTES = 8 * m
  BY StatesAligned
<1>2. g * RATE \in Int /\ CAPACITY_BYTES \in Int
  BY NextState, Sized
<1>3. g * RATE + c - CAPACITY_BYTES = 8 * m + c
  BY <1>1, <1>2
<1>4. Index(c, size) * size \in Int
  <2>1. size \in Nat /\ size > 0
    BY StateAssumption
  <2>2. QED
    BY <2>1 DEF Index
<1>5. Tape!RoundUp(8 * m + c, size) = 8 * m + Index(c, size) * size
  BY RoundUpShift
<1>6. QED
  BY <1>1, <1>2, <1>3, <1>4, <1>5

LEMMA Whole == ASSUME NEW n \in Nat PROVE n * RATE \in Nat
  BY Sized

\* The state and the inner part end where words end.
LEMMA WordsOfState ==
    ASSUME NEW size \in Sizes
    PROVE  /\ size \in Nat /\ size > 0
           /\ CAPACITY_BYTES <= STATE_BYTES - size
           /\ Index(CAPACITY_BYTES, size) * size = CAPACITY_BYTES
           /\ \A c \in STATE_BYTES - size + 1 .. STATE_BYTES :
                Index(c, size) * size = STATE_BYTES
<1>1. CASE size = 4
  BY <1>1, Sized DEF Index
<1>2. CASE size = 8
  BY <1>2, Sized DEF Index
<1>3. QED
  BY <1>1, <1>2, StateAssumption

-----------------------------------------------------------------------------
LEMMA InvInit == Init => IInv
<1> SUFFICES ASSUME Init PROVE IInv
  OBVIOUS
<1>1. DOMAIN out = {} /\ DOMAIN dest = {} /\ DOMAIN dest = 0 .. -1
  BY DEF Init, Nothing
<1>2. len - i <= Left
  <2>1. (MaxGens - gens) * RATE \in Nat
    BY Whole, Sized DEF Init
  <2>2. QED
    BY <2>1, Sized DEF Init, Left
<1>3. TypeOK
  BY <1>1, Sized DEF Init, TypeOK
<1>4. QED
  BY <1>1, <1>2, <1>3 DEF Init, IInv, OuterBytesOnly

\* What impl_next computes: the word starts at byte x of the g-th state.
LEMMA WordRead ==
    ASSUME IInv, NEW size \in Sizes, NextWord(size)
    PROVE  \E g \in 1 .. MaxGens, x \in CAPACITY_BYTES .. STATE_BYTES - size :
             /\ gens' = g
             /\ gens <= g
             /\ cursor' = x + size
             /\ out' = [k \in 0 .. size - 1 |-> <<g, x + k>>]
             /\ Tape!RoundUp(Position, size) = (g - 1) * RATE + x - CAPACITY_BYTES
<1> DEFINE g == IF TooFew(size) THEN gens + 1 ELSE gens
           c == IF TooFew(size) THEN CAPACITY_BYTES ELSE cursor
           x == Index(c, size) * size
<1>1. /\ size \in Nat /\ size > 0
      /\ CAPACITY_BYTES <= STATE_BYTES - size
  BY WordsOfState
<1>2. /\ cursor \in CAPACITY_BYTES .. STATE_BYTES
      /\ gens \in 0 .. MaxGens
      /\ gens = 0 => cursor = STATE_BYTES
      /\ i = 0
  BY DEF IInv, TypeOK, NextWord
<1>3. c \in CAPACITY_BYTES .. STATE_BYTES - size
  BY <1>1, <1>2, Sized DEF TooFew
<1>4. g \in 1 .. MaxGens /\ gens <= g
  <2>1. g <= MaxGens
    BY DEF NextWord
  <2>2. QED
    BY <1>1, <1>2, <2>1, Sized DEF TooFew
<1>5. /\ x \in CAPACITY_BYTES .. STATE_BYTES - size
      /\ (Index(c, size) + 1) * size = x + size
  <2> HIDE DEF c
  <2>1. /\ x \in c .. c + size - 1
        /\ x + size <= STATE_BYTES
        /\ (Index(c, size) + 1) * size = x + size
    BY <1>3, WordFits
  <2>2. QED
    BY <1>1, <1>3, <2>1, Sized
<1>6. gens' = g /\ cursor' = x + size
      /\ out' = [k \in 0 .. size - 1 |-> <<g, x + k>>]
  BY <1>5 DEF NextWord
<1>7. Tape!RoundUp(Position, size) = (g - 1) * RATE + x - CAPACITY_BYTES
  <2>1. Position = (gens - 1) * RATE + cursor - CAPACITY_BYTES
    <3>1. (gens - 1) * RATE \in Int
      BY <1>2, NextState
    <3>2. QED
      BY <1>2, <3>1, Sized DEF Position
  <2>2. Tape!RoundUp(Position, size)
          = (gens - 1) * RATE + Index(cursor, size) * size - CAPACITY_BYTES
    <3>1. gens - 1 \in Int /\ cursor \in Int
      BY <1>2, Sized
    <3>2. QED
      BY <2>1, <3>1, WordPlace
  <2>3. CASE ~TooFew(size)
    BY <2>2, <2>3
  <2>4. CASE TooFew(size)
    <3>1. cursor \in STATE_BYTES - size + 1 .. STATE_BYTES
      BY <1>1, <1>2, <2>4, Sized DEF TooFew
    <3>2. Index(cursor, size) * size = STATE_BYTES /\ x = CAPACITY_BYTES
      BY <2>4, <3>1, WordsOfState
    <3>3. /\ gens * RATE = (gens - 1) * RATE + RATE
          /\ (gens - 1) * RATE \in Int
          /\ g - 1 = gens
      BY <1>2, <2>4, NextState
    <3>4. QED
      BY <2>2, <3>2, <3>3, Sized
  <2>5. QED
    BY <2>3, <2>4
<1> HIDE DEF g, x
<1>8. QED
  BY <1>4, <1>5, <1>6, <1>7

LEMMA NextWordStep ==
    ASSUME IInv, NEW size \in Sizes, NextWord(size)
    PROVE  IInv' /\ Tape!NextWord(size)
<1>1. PICK g \in 1 .. MaxGens, x \in CAPACITY_BYTES .. STATE_BYTES - size :
        /\ gens' = g
        /\ gens <= g
        /\ cursor' = x + size
        /\ out' = [k \in 0 .. size - 1 |-> <<g, x + k>>]
        /\ Tape!RoundUp(Position, size) = (g - 1) * RATE + x - CAPACITY_BYTES
  BY WordRead
<1>2. /\ pc' = "idle" /\ i' = 0 /\ len' = 0
      /\ DOMAIN dest' = {} /\ DOMAIN dest' = 0 .. i' - 1
  BY DEF IInv, TypeOK, NextWord
<1>3. size \in Nat /\ size > 0
  BY WordsOfState
<1>4. g \in Nat /\ (g - 1) * RATE \in Int
  BY NextState, Sized
<1>5. TypeOK'
  BY <1>1, <1>2, <1>3, Sized DEF TypeOK
<1>6. OuterBytesOnly'
  BY <1>1, <1>2, <1>3, Sized DEF OuterBytesOnly, OuterByte
<1>7. len' - i' <= Left'
  <2>1. MaxGens - gens' \in Nat
    BY <1>1, Sized
  <2>2. (MaxGens - gens') * RATE \in Nat
    BY <2>1, Whole
  <2>3. QED
    BY <1>1, <1>2, <1>3, <2>2, Sized DEF Left
<1>8. IInv'
  BY <1>1, <1>2, <1>5, <1>6, <1>7, Sized DEF IInv
<1>9. ASSUME NEW k \in 0 .. size - 1
      PROVE  PlaceOf(out'[k]) = Tape!RoundUp(Position, size) + k
  <2>1. out'[k] = <<g, x + k>>
    BY <1>1
  <2>2. PlaceOf(<<g, x + k>>) = (g - 1) * RATE + (x + k) - CAPACITY_BYTES
    BY DEF PlaceOf
  <2>3. QED
    BY <1>1, <1>3, <1>4, <2>1, <2>2, Sized
<1>10. Position' = Tape!RoundUp(Position, size) + size
  BY <1>1, <1>2, <1>3, <1>4, Sized DEF Position
<1>11. DOMAIN out' = 0 .. size - 1
  BY <1>1
<1>12. Tape!NextWord(size)
  BY <1>9, <1>10, <1>11 DEF Tape!NextWord, Tape!Bytes
<1>13. QED
  BY <1>8, <1>12

LEMMA FillBeginStep ==
    ASSUME IInv, NEW n \in Lengths, FillBegin(n)
    PROVE  IInv' /\ UNCHANGED <<Position, out>>
<1>1. n \in Nat
  BY BoundAssumption
<1>2. i = 0 /\ i' = 0 /\ Position' = Position
  BY DEF IInv, TypeOK, FillBegin, Position
<1>3. DOMAIN dest' = {} /\ DOMAIN dest' = 0 .. i' - 1
  BY <1>2 DEF FillBegin, Nothing
<1>4. TypeOK'
  BY <1>1, <1>2, <1>3 DEF IInv, TypeOK, FillBegin
<1>5. OuterBytesOnly'
  BY <1>3 DEF IInv, OuterBytesOnly, OuterByte, FillBegin
<1>6. len' - i' <= Left'
  BY <1>1, <1>2 DEF FillBegin, Left
<1>7. QED
  BY <1>2, <1>3, <1>4, <1>5, <1>6 DEF IInv, FillBegin

\* What an iteration of fill_bytes copies: n bytes from byte c of state g.
LEMMA BytesRead ==
    ASSUME IInv, FillIteration
    PROVE  \E g \in 1 .. MaxGens, c \in CAPACITY_BYTES .. STATE_BYTES, n \in Nat :
             /\ gens' = g /\ cursor' = c + n /\ i' = i + n
             /\ dest' = [k \in 0 .. i + n - 1 |->
                          IF k < i THEN dest[k] ELSE <<g, c + (k - i)>>]
             /\ gens <= g /\ c + n <= STATE_BYTES /\ i + n <= len
             /\ Position = (g - 1) * RATE + c - CAPACITY_BYTES - i
             /\ Left = (MaxGens - g) * RATE + (STATE_BYTES - c)
<1> DEFINE g == IF cursor >= STATE_BYTES THEN gens + 1 ELSE gens
           c == IF cursor >= STATE_BYTES THEN CAPACITY_BYTES ELSE cursor
           n == ConsumeBytes(c)
<1>1. /\ cursor \in CAPACITY_BYTES .. STATE_BYTES
      /\ gens \in 0 .. MaxGens
      /\ gens = 0 => cursor = STATE_BYTES
      /\ len \in Nat /\ i \in 0 .. len /\ i < len
      /\ len - i <= Left
  BY DEF IInv, TypeOK, FillIteration
<1>2. /\ gens * RATE = (gens - 1) * RATE + RATE
      /\ (gens - 1) * RATE \in Int
  BY <1>1, NextState
<1>3. /\ (MaxGens - gens) * RATE = (MaxGens - (gens + 1)) * RATE + RATE
      /\ (MaxGens - (gens + 1)) * RATE \in Int
      /\ (MaxGens - gens) * RATE \in Int
  <2>1. MaxGens - gens \in Int /\ (MaxGens - gens) - 1 = MaxGens - (gens + 1)
    BY <1>1, Sized
  <2>2. QED
    BY <2>1, NextState
<1>4. cursor >= STATE_BYTES => gens + 1 <= MaxGens
  <2>1. SUFFICES ASSUME cursor >= STATE_BYTES, ~(gens + 1 <= MaxGens)
                 PROVE  FALSE
    OBVIOUS
  <2>2. MaxGens - gens = 0 /\ cursor = STATE_BYTES
    BY <1>1, <2>1, Sized
  <2>3. (MaxGens - gens) * RATE = 0
    BY <2>2, Sized
  <2>4. QED
    BY <1>1, <2>2, <2>3, Sized DEF Left
<1>5. g \in 1 .. MaxGens /\ gens <= g
  BY <1>1, <1>4, Sized
<1>6. c \in CAPACITY_BYTES .. STATE_BYTES
  BY <1>1, Sized
<1>7. n \in Nat /\ c + n <= STATE_BYTES /\ i + n <= len
  <2> HIDE DEF c
  <2>1. QED
    BY <1>1, <1>6, Sized DEF ConsumeBytes
<1>8. Position = (g - 1) * RATE + c - CAPACITY_BYTES - i
  <2>1. CASE cursor >= STATE_BYTES
    <3>1. cursor = STATE_BYTES /\ g - 1 = gens /\ c = CAPACITY_BYTES
      BY <1>1, <2>1, Sized
    <3>2. QED
      BY <1>1, <1>2, <3>1, Sized DEF Position
  <2>2. CASE ~(cursor >= STATE_BYTES)
    BY <2>2 DEF Position
  <2>3. QED
    BY <2>1, <2>2
<1>9. Left = (MaxGens - g) * RATE + (STATE_BYTES - c)
  <2>1. CASE cursor >= STATE_BYTES
    <3>1. cursor = STATE_BYTES /\ g = gens + 1 /\ c = CAPACITY_BYTES
      BY <1>1, <2>1, Sized
    <3>2. QED
      BY <1>3, <3>1, Sized DEF Left
  <2>2. CASE ~(cursor >= STATE_BYTES)
    BY <2>2 DEF Left
  <2>3. QED
    BY <2>1, <2>2
<1>10. /\ gens' = g /\ cursor' = c + n /\ i' = i + n
       /\ dest' = [k \in 0 .. i + n - 1 |->
                     IF k < i THEN dest[k] ELSE <<g, c + (k - i)>>]
  BY DEF FillIteration
<1> HIDE DEF g, c, n
<1>11. QED
  BY <1>5, <1>6, <1>7, <1>8, <1>9, <1>10

\* A byte that was generated stays one.
LEMMA StaysOuter ==
    ASSUME NEW b, OuterByte(b), gens \in Nat, gens' \in Nat, gens <= gens'
    PROVE  b[1] \in 1 .. gens' /\ b[2] \in CAPACITY_BYTES .. STATE_BYTES - 1
  BY DEF OuterByte

LEMMA FillIterationStep ==
    ASSUME IInv, FillIteration
    PROVE  IInv' /\ UNCHANGED <<Position, out>>
<1>1. PICK g \in 1 .. MaxGens, c \in CAPACITY_BYTES .. STATE_BYTES, n \in Nat :
        /\ gens' = g /\ cursor' = c + n /\ i' = i + n
        /\ dest' = [k \in 0 .. i + n - 1 |->
                     IF k < i THEN dest[k] ELSE <<g, c + (k - i)>>]
        /\ gens <= g /\ c + n <= STATE_BYTES /\ i + n <= len
        /\ Position = (g - 1) * RATE + c - CAPACITY_BYTES - i
        /\ Left = (MaxGens - g) * RATE + (STATE_BYTES - c)
  BY BytesRead
<1>2. /\ pc = "fill" /\ pc' = pc /\ len' = len /\ out' = out
      /\ len \in Nat /\ i \in 0 .. len /\ gens \in 0 .. MaxGens
      /\ DOMAIN dest = 0 .. i - 1
  BY DEF IInv, TypeOK, FillIteration
<1>3. (g - 1) * RATE \in Int /\ (MaxGens - g) * RATE \in Int
  <2>1. g \in Int /\ (MaxGens - g) + 1 \in Int
    BY Sized
  <2>2. QED
    BY <2>1, NextState, Sized
<1>4. Position' = Position
  BY <1>1, <1>2, <1>3, Sized DEF Position
<1>5. TypeOK'
  BY <1>1, <1>2, Sized DEF TypeOK
<1>6. gens \in Nat /\ gens' \in Nat /\ gens <= gens' /\ gens' = g
  BY <1>1, <1>2, Sized
<1>7. ASSUME NEW k \in DOMAIN dest'
      PROVE  /\ dest'[k][1] \in 1 .. gens'
             /\ dest'[k][2] \in CAPACITY_BYTES .. STATE_BYTES - 1
             /\ PlaceOf(dest'[k]) = Position' + k
  <2>1. k \in 0 .. i + n - 1
    BY <1>1
  <2>2. CASE k < i
    <3>1. dest'[k] = dest[k] /\ k \in DOMAIN dest
      BY <1>1, <1>2, <2>1, <2>2
    <3>2. OuterByte(dest[k]) /\ PlaceOf(dest[k]) = Position + k
      BY <3>1 DEF IInv, OuterBytesOnly
    <3>3. /\ dest[k][1] \in 1 .. gens'
          /\ dest[k][2] \in CAPACITY_BYTES .. STATE_BYTES - 1
      BY <1>6, <3>2, StaysOuter
    <3>4. QED
      BY <1>4, <3>1, <3>2, <3>3
  <2>3. CASE ~(k < i)
    <3>1. dest'[k] = <<g, c + (k - i)>>
      BY <1>1, <2>1, <2>3
    <3>2. c + (k - i) \in CAPACITY_BYTES .. STATE_BYTES - 1
      BY <1>1, <1>2, <2>1, <2>3, Sized
    <3>3. /\ dest'[k][1] \in 1 .. gens'
          /\ dest'[k][2] \in CAPACITY_BYTES .. STATE_BYTES - 1
      <4>1. g \in 1 .. gens'
        BY <1>1, <1>6
      <4>2. QED
        BY <3>1, <3>2, <4>1
    <3>4. PlaceOf(<<g, c + (k - i)>>)
            = (g - 1) * RATE + (c + (k - i)) - CAPACITY_BYTES
      BY DEF PlaceOf
    <3>5. PlaceOf(dest'[k]) = Position + k
      <4>1. Position = (g - 1) * RATE + c - CAPACITY_BYTES - i
        BY <1>1
      <4>2. c \in Int /\ i \in Int /\ k \in Int /\ CAPACITY_BYTES \in Int
        BY <1>1, <1>2, <2>1, Sized
      <4>3. QED
        BY <1>3, <3>1, <3>4, <4>1, <4>2
    <3>6. QED
      BY <1>4, <3>3, <3>5
  <2>4. QED
    BY <2>2, <2>3
<1>8. ASSUME NEW k \in DOMAIN out'
      PROVE  /\ out'[k][1] \in 1 .. gens'
             /\ out'[k][2] \in CAPACITY_BYTES .. STATE_BYTES - 1
  <2>1. OuterByte(out[k]) /\ out'[k] = out[k]
    BY <1>2 DEF IInv, OuterBytesOnly
  <2>2. QED
    BY <1>6, <2>1, StaysOuter
<1>9. len' - i' <= Left'
  <2>1. len - i <= Left
    BY DEF IInv
  <2>2. /\ Left' = (MaxGens - g) * RATE + (STATE_BYTES - (c + n))
        /\ Left = (MaxGens - g) * RATE + (STATE_BYTES - c)
        /\ len' = len /\ i' = i + n
    BY <1>1, <1>2 DEF Left
  <2>3. c \in Int /\ i \in Int /\ len \in Int /\ STATE_BYTES \in Int
    BY <1>1, <1>2, Sized
  <2>4. QED
    BY <1>3, <2>1, <2>2, <2>3
<1>10. OuterBytesOnly'
  BY <1>7, <1>8 DEF OuterBytesOnly, OuterByte
<1>11. gens' # 0
  BY <1>1, Sized
<1>12. IInv'
  <2>1. pc' = "fill" => len' \in Lengths
    BY <1>2 DEF IInv
  <2>2. QED
    BY <1>5, <1>7, <1>9, <1>10, <1>11, <2>1 DEF IInv
<1>13. QED
  BY <1>2, <1>4, <1>12

LEMMA FillReturnStep ==
    ASSUME IInv, FillReturn
    PROVE  IInv' /\ Tape!Fill(len) /\ len \in Lengths
<1>1. /\ len \in Nat /\ len \in Lengths /\ i = len /\ i' = 0 /\ len' = 0
      /\ DOMAIN dest = 0 .. len - 1 /\ out' = dest
      /\ gens' = gens /\ cursor' = cursor
      /\ cursor \in Int /\ gens \in 0 .. MaxGens
  BY Sized DEF IInv, TypeOK, FillReturn
<1>2. DOMAIN dest' = {} /\ DOMAIN dest' = 0 .. i' - 1
  BY <1>1 DEF FillReturn, Nothing
<1>3. (gens - 1) * RATE \in Int /\ (MaxGens - gens) * RATE \in Nat
  <2>1. MaxGens - gens \in Nat /\ gens \in Int
    BY <1>1, Sized
  <2>2. QED
    BY <2>1, NextState, Whole
<1>4. Position' = Position + len
  BY <1>1, <1>3, Sized DEF Position
<1>5. TypeOK' /\ pc' = "idle"
  BY <1>1, <1>2 DEF IInv, TypeOK, FillReturn
<1>6. OuterBytesOnly'
  BY <1>1, <1>2 DEF IInv, OuterBytesOnly, OuterByte
<1>7. len' - i' <= Left'
  BY <1>1, <1>3, Sized DEF IInv, TypeOK, Left
<1>8. IInv'
  BY <1>1, <1>2, <1>5, <1>6, <1>7 DEF IInv
<1>9. \A k \in DOMAIN out' : PlaceOf(out'[k]) = Position + k
  BY <1>1 DEF IInv
<1>10. Tape!Fill(len)
  BY <1>1, <1>4, <1>9 DEF Tape!Fill, Tape!Bytes
<1>11. QED
  BY <1>1, <1>8, <1>10

-----------------------------------------------------------------------------
LEMMA InvStep == IInv /\ [Next]_vars => IInv'
<1> SUFFICES ASSUME IInv, [Next]_vars PROVE IInv'
  OBVIOUS
<1>1. ASSUME NEW size \in Sizes, NextWord(size) PROVE IInv'
  BY <1>1, NextWordStep
<1>2. ASSUME NEW n \in Lengths, FillBegin(n) PROVE IInv'
  BY <1>2, FillBeginStep
<1>3. CASE FillIteration
  BY <1>3, FillIterationStep
<1>4. CASE FillReturn
  BY <1>4, FillReturnStep
<1>5. CASE UNCHANGED vars
  BY <1>5 DEF vars, IInv, TypeOK, OuterBytesOnly, OuterByte, Left, Position
<1>6. QED
  BY <1>1, <1>2, <1>3, <1>4, <1>5 DEF Next, FillStep

LEMMA Invariant == Spec => []IInv
<1>1. QED
  BY InvInit, InvStep, PTL DEF Spec

\* The cursor of lib.rs stays between CAPACITY_BYTES and STATE_BYTES: neither
\* impl_next nor fill_bytes indexes beyond the state or underflows.
THEOREM TypeCorrect == Spec => []TypeOK
<1>1. IInv => TypeOK
  BY DEF IInv
<1>2. QED
  BY <1>1, Invariant, PTL

\* No call returns a byte of the inner part or of a state before its first
\* generate (lib.rs:302-304).
THEOREM OuterOnly == Spec => []OuterBytesOnly
<1>1. IInv => OuterBytesOnly
  BY DEF IInv
<1>2. QED
  BY <1>1, Invariant, PTL

LEMMA TapeInit == Init => Tape!Init
<1> SUFFICES ASSUME Init PROVE Tape!Init
  OBVIOUS
<1>1. Position = 0
  <2>1. (0 - 1) * RATE = -RATE /\ gens - 1 = 0 - 1
    BY Sized DEF Init
  <2>2. QED
    BY <2>1, Sized DEF Init, Position
<1>2. DOMAIN out = {} /\ 0 .. 0 - 1 = {}
  BY DEF Init, Nothing
<1>3. [k \in DOMAIN out |-> PlaceOf(out[k])] = Tape!Bytes(0, 0)
  BY <1>2 DEF Tape!Bytes
<1>4. QED
  BY <1>1, <1>3 DEF Tape!Init

LEMMA TapeStep == IInv /\ [Next]_vars => [Tape!Next]_(Tape!vars)
<1> SUFFICES ASSUME IInv, [Next]_vars PROVE [Tape!Next]_(Tape!vars)
  OBVIOUS
<1>1. ASSUME NEW size \in Sizes, NextWord(size) PROVE Tape!Next
  BY <1>1, NextWordStep DEF Tape!Next
<1>2. ASSUME NEW n \in Lengths, FillBegin(n) PROVE UNCHANGED Tape!vars
  BY <1>2, FillBeginStep DEF Tape!vars
<1>3. CASE FillIteration
  BY <1>3, FillIterationStep DEF Tape!vars
<1>4. CASE FillReturn
  BY <1>4, FillReturnStep DEF Tape!Next
<1>5. CASE UNCHANGED vars
  BY <1>5 DEF vars, Position, Tape!vars
<1>6. QED
  BY <1>1, <1>2, <1>3, <1>4, <1>5 DEF Next, FillStep

\* Any mix of next_u32, next_u64 and fill_bytes reads one tape of bytes, each
\* byte at most once and in order, and bytes are skipped for alignment only.
THEOREM TapeRefinement == Spec => ImplementsTape
<1>1. QED
  BY TapeInit, TapeStep, Invariant, PTL DEF Spec, Tape!Spec, ImplementsTape

-----------------------------------------------------------------------------
(* The way to the end of fill_bytes.                                       *)

FillAdvances ==
    FillIteration => i' > i /\ i' <= len /\ len' = len

\* Each iteration of fill_bytes writes a byte at least and none beyond the
\* slice (lib.rs:344-360), for every length: a cursor at the end has been moved
\* back before it takes what is left of the state.
THEOREM FillShrinks == Spec => [][FillAdvances]_vars
<1>1. ASSUME IInv, FillIteration
      PROVE  i' > i /\ i' <= len /\ len' = len
  <2> DEFINE c == IF cursor >= STATE_BYTES THEN CAPACITY_BYTES ELSE cursor
  <2>1. i' = i + ConsumeBytes(c) /\ len' = len /\ i < len
    BY <1>1 DEF FillIteration
  <2>2. c \in CAPACITY_BYTES .. STATE_BYTES - 1 /\ len \in Nat /\ i \in 0 .. len
    BY <1>1, Sized DEF IInv, TypeOK
  <2> HIDE DEF c
  <2>3. ConsumeBytes(c) \in 1 .. len - i
    BY <2>1, <2>2, Sized DEF ConsumeBytes
  <2>4. QED
    BY <2>1, <2>2, <2>3
<1>2. IInv /\ [Next]_vars => [FillAdvances]_vars
  BY <1>1 DEF FillAdvances
<1>3. QED
  BY <1>2, Invariant, PTL DEF Spec

-----------------------------------------------------------------------------
\* The vector operations work on each lane.
LEMMA AddLane ==
    ASSUME NEW x, NEW y, NEW l \in 1 .. 4
    PROVE  AddRow(x, y)[l] = Add(x[l], y[l])
BY DEF AddRow

LEMMA XorLane ==
    ASSUME NEW x, NEW y, NEW l \in 1 .. 4
    PROVE  XorV(x, y)[l] = Xor(x[l], y[l])
BY DEF XorV

LEMMA RotiLane ==
    ASSUME NEW x, NEW n, NEW l \in 1 .. 4
    PROVE  RotiV(x, n)[l] = Rotate(x[l], n)
BY DEF RotiV

IsRow(x) == x = <<x[1], x[2], x[3], x[4]>>

LEMMA Rows ==
    ASSUME NEW x, NEW y, NEW n
    PROVE  IsRow(AddRow(x, y)) /\ IsRow(RotiV(x, n))
<1>1. IsRow(AddRow(x, y))
  BY DEF AddRow, IsRow
<1>2. IsRow(RotiV(x, n))
  BY DEF RotiV, IsRow
<1> QED
  BY <1>1, <1>2

\* Lane l of the vectors is the column l that the definition works on.
LEMMA MixLane ==
    ASSUME NEW v, NEW r, NEW s, NEW l \in 1 .. 4
    PROVE  Column(MixV(v, r, s), l) = Mix(Column(v, l), r, s)
<1> DEFINE a == AddRow(v[1], v[2])
           d == RotiV(XorV(v[4], a), r)
           c == AddRow(v[3], d)
           b == RotiV(XorV(v[2], c), s)
           al == Add(v[1][l], v[2][l])
           dl == Rotate(Xor(v[4][l], al), r)
           cl == Add(v[3][l], dl)
           bl == Rotate(Xor(v[2][l], cl), s)
<1>1. MixV(v, r, s) = <<a, b, c, d>>
  BY DEF MixV
<1>2. Mix(Column(v, l), r, s) = <<al, bl, cl, dl>>
  BY DEF Mix, Column
<1>3. a[l] = al
  BY AddLane
<1>4. d[l] = dl
  <2> HIDE DEF a, al
  <2> QED  BY XorLane, RotiLane, <1>3
<1>5. c[l] = cl
  <2> HIDE DEF d, dl
  <2> QED  BY AddLane, <1>4
<1>6. b[l] = bl
  <2> HIDE DEF c, cl
  <2> QED  BY XorLane, RotiLane, <1>5
<1> HIDE DEF a, b, c, d, al, bl, cl, dl
<1>7. Column(<<a, b, c, d>>, l) = <<a[l], b[l], c[l], d[l]>>
  BY DEF Column
<1> QED
  BY <1>1, <1>2, <1>3, <1>4, <1>5, <1>6, <1>7

\* A matrix that MixV returns consists of its columns.
LEMMA MixIsMatrix ==
    ASSUME NEW v, NEW r, NEW s
    PROVE  MixV(v, r, s) =
             FromColumns(Column(MixV(v, r, s), 1), Column(MixV(v, r, s), 2),
                         Column(MixV(v, r, s), 3), Column(MixV(v, r, s), 4))
<1> DEFINE a == AddRow(v[1], v[2])
           d == RotiV(XorV(v[4], a), r)
           c == AddRow(v[3], d)
           b == RotiV(XorV(v[2], c), s)
<1>1. MixV(v, r, s) = <<a, b, c, d>>
  BY DEF MixV
<1>2. IsRow(a) /\ IsRow(b) /\ IsRow(c) /\ IsRow(d)
  BY Rows
<1> HIDE DEF a, b, c, d
<1>3. <<a, b, c, d>> =
        FromColumns(Column(<<a, b, c, d>>, 1), Column(<<a, b, c, d>>, 2),
                    Column(<<a, b, c, d>>, 3), Column(<<a, b, c, d>>, 4))
  BY <1>2 DEF FromColumns, Column, IsRow
<1> QED
  BY <1>1, <1>3

LEMMA HalfIterationIsColumns ==
    ASSUME NEW v
    PROVE  HalfIteration(v) = Columns(v)
<1>1. ASSUME NEW l \in 1 .. 4
      PROVE  Column(HalfIteration(v), l) = QuarterRound(Column(v, l))
  BY MixLane DEF HalfIteration, QuarterRound
<1>2. HalfIteration(v) =
        FromColumns(Column(HalfIteration(v), 1), Column(HalfIteration(v), 2),
                    Column(HalfIteration(v), 3), Column(HalfIteration(v), 4))
  BY MixIsMatrix DEF HalfIteration
<1> QED
  BY <1>1, <1>2 DEF Columns

\* The rotations of the vectors move the diagonals into the columns.
LEMMA RotatedIsDiagonals ==
    ASSUME NEW v
    PROVE  FromDiagonals(HalfIteration(ToDiagonals(v))) = Diagonals(v)
<1>1. HalfIteration(ToDiagonals(v)) = Columns(ToDiagonals(v))
  BY HalfIterationIsColumns
<1>2. /\ Column(ToDiagonals(v), 1) = <<v[1][1], v[2][2], v[3][3], v[4][4]>>
      /\ Column(ToDiagonals(v), 2) = <<v[1][2], v[2][3], v[3][4], v[4][1]>>
      /\ Column(ToDiagonals(v), 3) = <<v[1][3], v[2][4], v[3][1], v[4][2]>>
      /\ Column(ToDiagonals(v), 4) = <<v[1][4], v[2][1], v[3][2], v[4][3]>>
  BY DEF Column, ToDiagonals, RotV1, RotV2, RotV3
<1>3. FromDiagonals(Columns(ToDiagonals(v))) = Diagonals(v)
  BY <1>2 DEF FromDiagonals, Columns, FromColumns, Diagonals, RotV1, RotV2, RotV3
<1> QED
  BY <1>1, <1>3

\* chacha_core is four double rounds.
LEMMA CoreIsDoubleRounds ==
    ASSUME NEW m
    PROVE  Core(m) = DoubleRound(DoubleRound(DoubleRound(DoubleRound(m))))
<1>1. ASSUME NEW v
      PROVE  Iteration(v) = DoubleRound(v)
  BY HalfIterationIsColumns, RotatedIsDiagonals DEF Iteration, DoubleRound
<1> QED
  BY <1>1 DEF Core

\* generate_block (engine_chacha.h:91-104) computes the ChaCha8 block of its
\* input, for every key, counter and meaning of the word operations: the
\* vectors, their rotations and the number of iterations are right.
THEOREM BlockIsChaCha ==
    ASSUME NEW setup, NEW n
    PROVE  GeneratedBlock(setup, n) = Cipher(Input(setup, n))
BY CoreIsDoubleRounds DEF GeneratedBlock, Cipher

-----------------------------------------------------------------------------
LEMMA Step ==
    ASSUME NEW c \in 0 .. Wrap - 1, c % step = 0
    PROVE  LET d == (c + step) % Wrap
           IN  /\ d \in 0 .. Wrap - 1
               /\ d % step = 0
               /\ d % 16 # 0 => d \div 16 = c \div 16
               /\ (c % 16) + step <= 16
<1>1. /\ Wrap \in Nat \ {0} /\ Wrap % 16 = 0 /\ step \in {1, 2}
  BY CounterAssumption
<1>2. PICK n \in Nat : Wrap = 16 * n
  <2>1. Wrap = 16 * (Wrap \div 16) /\ Wrap \div 16 \in Nat
    BY <1>1
  <2> QED  BY <2>1
<1>3. (c % 16) + step <= 16
  BY <1>1
<1>4. CASE c + step = Wrap
  <2>1. (c + step) % Wrap = 0
    BY <1>1, <1>4
  <2> QED
    BY <2>1, <1>1, <1>3
<1>5. CASE c + step # Wrap
  <2>1. c + step \in 0 .. Wrap - 1
    BY <1>1, <1>2, <1>5
  <2>2. (c + step) % Wrap = c + step
    BY <2>1, <1>1
  <2>3. (c + step) % step = 0
    BY <1>1
  <2>4. (c + step) % 16 # 0 => (c + step) \div 16 = c \div 16
    BY <1>1, <1>3
  <2> QED
    BY <2>1, <2>2, <2>3, <2>4, <1>3
<1> QED
  BY <1>4, <1>5

\* The counter stays on words of its own size, which is why none of them
\* reaches over the end of the block.
CInv ==
    /\ ctr \in 0 .. Wrap - 1
    /\ ctr % step = 0
    /\ BlockIsCurrent

\* What operator() reads its word from.
LEMMA BlockInUse ==
    ASSUME CInv, CCall
    PROVE  block' = Cipher(Input(keysetup, ctr \div 16))
<1>1. CASE ctr % 16 = 0
  BY <1>1, BlockIsChaCha DEF CCall
<1>2. CASE ctr % 16 # 0
  BY <1>2 DEF CCall, CInv, BlockIsCurrent
<1> QED
  BY <1>1, <1>2

LEMMA CipherInductive == CSpec => []CInv
<1>1. CInit => CInv
  BY CounterAssumption DEF CInit, CInv, BlockIsCurrent
<1>2. CInv /\ [CNext]_chachaVars => CInv'
  <2> SUFFICES ASSUME CInv, [CNext]_chachaVars
               PROVE  CInv'
    OBVIOUS
  <2>1. ASSUME NEW setup \in Seeds, CSeed(setup)
        PROVE  CInv'
    BY <2>1, CounterAssumption DEF CSeed, CInv, BlockIsCurrent
  <2>2. CASE CCall
    <3>1. block' = Cipher(Input(keysetup, ctr \div 16)) /\ keysetup' = keysetup
      BY <2>2, BlockInUse DEF CCall
    <3>2. ctr' = (ctr + step) % Wrap
      BY <2>2 DEF CCall
    <3>3. /\ ctr' \in 0 .. Wrap - 1
          /\ ctr' % step = 0
          /\ ctr' % 16 # 0 => ctr' \div 16 = ctr \div 16
      BY <3>2, Step DEF CInv
    <3>4. (ctr' % 16) + step <= 16
      BY <3>3, Step
    <3> QED
      BY <3>1, <3>3, <3>4 DEF CInv, BlockIsCurrent
  <2>3. CASE UNCHANGED chachaVars
    BY <2>3 DEF chachaVars, CInv, BlockIsCurrent
  <2> QED
    BY <2>1, <2>2, <2>3 DEF CNext
<1> QED
  BY <1>1, <1>2, PTL DEF CSpec

\* The block in mid-use is the ChaCha8 block of the counter and the key, and
\* has the whole word that is read next (engine_chacha.h:79-83), after any
\* sequence of calls and seeds.
THEOREM CurrentBlock == CSpec => []BlockIsCurrent
<1>1. CInv => BlockIsCurrent
  BY DEF CInv
<1> QED
  BY <1>1, CipherInductive, PTL

-----------------------------------------------------------------------------
LEMMA InBlock ==
    ASSUME NEW c \in Nat, NEW k \in 0 .. step - 1, (c % 16) + step <= 16
    PROVE  (c + k) \div 16 = c \div 16 /\ (c + k) % 16 = (c % 16) + k
<1>1. step \in {1, 2}
  BY CounterAssumption
<1> QED
  BY <1>1

LEMMA CallDelivers ==
    ASSUME CInv, CCall
    PROVE  CipherTape!Deliver
<1>1. ret' = [k \in 0 .. step - 1 |-> WordOf(block', (ctr % 16) + k)]
  BY DEF CCall
<1>2. block' = Cipher(Input(keysetup, ctr \div 16))
  BY BlockInUse
<1>3. ctr \in Nat /\ (ctr % 16) + step <= 16
  BY Step, CounterAssumption DEF CInv
<1>4. ASSUME NEW k \in 0 .. step - 1
      PROVE  WordOf(block', (ctr % 16) + k) = KeyStream(keysetup, ctr + k)
  BY <1>2, <1>3, InBlock DEF KeyStream
<1>5. ret' = [k \in 0 .. step - 1 |-> KeyStream(keysetup, ctr + k)]
  BY <1>1, <1>4
<1>6. ctr' = (ctr + step) % Wrap /\ keysetup' = keysetup
  BY DEF CCall
<1> QED
  BY <1>5, <1>6 DEF CipherTape!Deliver

\* The engine implements WordTape with the key stream of ChaCha8: after every
\* seed it starts at word 0 of the key, and calls deliver consecutive words.
THEOREM ChaChaRefinement == CSpec => ImplementsChaCha
<1>1. CInit => CipherTape!Init
  BY DEF CInit, CipherTape!Init, NoWords, CipherTape!Nothing
<1>2. CInv /\ [CNext]_chachaVars => [CipherTape!Next]_CipherTape!tapeVars
  <2> SUFFICES ASSUME CInv, [CNext]_chachaVars
               PROVE  [CipherTape!Next]_CipherTape!tapeVars
    OBVIOUS
  <2>1. ASSUME NEW setup \in Seeds, CSeed(setup)
        PROVE  CipherTape!Seed(setup)
    BY <2>1 DEF CSeed, CipherTape!Seed, NoWords, CipherTape!Nothing
  <2>2. CASE CCall
    BY <2>2, CallDelivers DEF CipherTape!Next
  <2>3. CASE UNCHANGED chachaVars
    BY <2>3 DEF chachaVars, CipherTape!tapeVars
  <2> QED
    BY <2>1, <2>2, <2>3 DEF CNext, CipherTape!Next
<1> QED
  BY <1>1, <1>2, CipherInductive, PTL DEF CSpec, ImplementsChaCha, CipherTape!Spec

-----------------------------------------------------------------------------
\* Until the first read everything counts as returned.
Counters ==
    /\ next_ \in 0 .. kStateT
    /\ device \in Nat
    /\ device <= MaxReads * kStateT
    /\ IF device = 0 THEN next_ = kStateT ELSE device >= kStateT

OSInv == Counters /\ BufferIsFresh

LEMMA InitInv == OSInit => OSInv
<1> SUFFICES ASSUME OSInit
             PROVE  OSInv
  OBVIOUS
<1>1. MaxReads * kStateT \in Nat
  BY BufferAssumption
<1> QED
  BY <1>1, BufferAssumption DEF OSInit, OSInv, Counters, BufferIsFresh

LEMMA BufferedInv ==
    ASSUME OSInv, CallBuffered
    PROVE  OSInv'
BY BufferAssumption DEF OSInv, Counters, BufferIsFresh, CallBuffered, Exhausted

LEMMA RefillInv ==
    ASSUME OSInv, NEW n \in 0 .. kStateT, CallRefill(n)
    PROVE  OSInv'
<1>1. MaxReads * kStateT \in Nat
  BY BufferAssumption
<1>2. CASE Accepted(n)
  <2>1. device' = device + kStateT /\ next_' = 1 /\ file' = file /\ state_' = Read(kStateT)
    BY <1>2 DEF CallRefill, Accepted
  <2>2. Counters'
    <3>1. device + kStateT <= MaxReads * kStateT
      BY DEF CallRefill
    <3> QED
      BY <1>1, <2>1, <3>1, BufferAssumption DEF OSInv, Counters
  <2>3. BufferIsFresh'
    <3>1. \A k \in 0 .. kStateT - 1 : state_'[k] = device + k
      BY <2>1, BufferAssumption DEF Read
    <3> QED
      BY <2>1, <3>1, BufferAssumption DEF OSInv, Counters, BufferIsFresh
  <2> QED
    BY <2>2, <2>3 DEF OSInv
<1>3. CASE ~Accepted(n)
  BY <1>3 DEF CallRefill, OSInv, Counters, BufferIsFresh
<1> QED
  BY <1>2, <1>3

LEMMA DeviceInductive == OSSpec => []OSInv
<1>1. OSInv /\ [OSNext]_osVars => OSInv'
  <2> SUFFICES ASSUME OSInv, [OSNext]_osVars
               PROVE  OSInv'
    OBVIOUS
  <2>1. CASE CallBuffered
    BY <2>1, BufferedInv
  <2>2. ASSUME NEW n \in 0 .. kStateT, CallRefill(n)
        PROVE  OSInv'
    BY <2>2, RefillInv
  <2>3. CASE OSClose
    BY <2>3 DEF OSClose, OSInv, Counters, BufferIsFresh
  <2>4. CASE UNCHANGED osVars
    BY <2>4 DEF osVars, OSInv, Counters, BufferIsFresh
  <2> QED
    BY <2>1, <2>2, <2>3, <2>4 DEF OSNext
<1> QED
  BY <1>1, InitInv, PTL DEF OSSpec

\* From next_ on the buffer holds the words taken last from the device, and
\* nothing uninitialized or left by an earlier read (engine_os.h:59-79).
THEOREM FreshBuffer == OSSpec => []BufferIsFresh
<1>1. OSInv => BufferIsFresh
  BY DEF OSInv
<1> QED
  BY <1>1, DeviceInductive, PTL

-----------------------------------------------------------------------------
LEMMA NextPlace ==
    ASSUME NEW p \in Nat, p + 1 <= MaxReads * kStateT
    PROVE  (p + 1) % (MaxReads * kStateT + 1) = p + 1
<1> DEFINE m == MaxReads * kStateT
<1>1. m \in Nat
  BY BufferAssumption
<1> HIDE DEF m
<1>2. p + 1 \in 0 .. m /\ p + 1 < m + 1
  BY <1>1 DEF m
<1>3. (p + 1) % (m + 1) = p + 1
  BY <1>1, <1>2
<1> QED
  BY <1>3 DEF m

LEMMA BufferedDelivers ==
    ASSUME OSInv, CallBuffered
    PROVE  DeviceTape!Deliver
<1>1. next_ \in 0 .. kStateT - 1 /\ state_[next_] = Delivered
  BY BufferAssumption
  DEF OSInv, Counters, BufferIsFresh, CallBuffered, Exhausted, Delivered
<1>2. Delivered' = Delivered + 1 /\ Delivered \in Nat /\ Delivered + 1 <= MaxReads * kStateT
  <2>1. MaxReads * kStateT \in Nat
    BY BufferAssumption
  <2> QED
    BY <2>1, <1>1, BufferAssumption DEF OSInv, Counters, CallBuffered, Delivered
<1>3. word' = [k \in 0 .. 1 - 1 |-> Place(0, Delivered + k)]
  BY <1>1, <1>2 DEF CallBuffered, Place
<1> QED
  BY <1>2, <1>3, NextPlace DEF DeviceTape!Deliver

LEMMA RefillDelivers ==
    ASSUME OSInv, NEW n \in 0 .. kStateT, CallRefill(n), Accepted(n)
    PROVE  DeviceTape!Deliver
<1>1. Delivered = device /\ Delivered' = device + 1 /\ device + 1 <= MaxReads * kStateT
  <2>1. MaxReads * kStateT \in Nat
    BY BufferAssumption
  <2>2. next_ = kStateT
    BY BufferAssumption DEF OSInv, Counters, CallRefill, Exhausted
  <2>3. device' = device + kStateT /\ next_' = 1 /\ device + kStateT <= MaxReads * kStateT
    BY DEF CallRefill, Accepted
  <2> QED
    BY <2>1, <2>2, <2>3, BufferAssumption DEF OSInv, Counters, Delivered
<1>2. word' = [k \in {0} |-> Read(n)[0]]
  BY DEF CallRefill
<1>3. Read(n)[0] = device
  BY BufferAssumption DEF Read, Accepted, OSInv, Counters
<1>4. word' = [k \in 0 .. 1 - 1 |-> Place(0, Delivered + k)]
  BY <1>1, <1>2, <1>3 DEF Place, OSInv, Counters
<1> QED
  BY <1>1, <1>4, NextPlace DEF DeviceTape!Deliver, OSInv, Counters

\* Calls return consecutive words of the device; a short read aborts before
\* anything is returned, which is a stutter of the tape.
THEOREM DeviceRefinement == OSSpec => ImplementsDevice
<1>1. OSInit => DeviceTape!Init
  BY BufferAssumption
  DEF OSInit, DeviceTape!Init, DeviceTape!Nothing, NoWord, Delivered
<1>2. OSInv /\ [OSNext]_osVars => [DeviceTape!Next]_DeviceTape!tapeVars
  <2> SUFFICES ASSUME OSInv, [OSNext]_osVars
               PROVE  [DeviceTape!Next]_DeviceTape!tapeVars
    OBVIOUS
  <2>1. CASE CallBuffered
    BY <2>1, BufferedDelivers DEF DeviceTape!Next
  <2>2. ASSUME NEW n \in 0 .. kStateT, CallRefill(n)
        PROVE  [DeviceTape!Next]_DeviceTape!tapeVars
    <3>1. CASE Accepted(n)
      BY <2>2, <3>1, RefillDelivers DEF DeviceTape!Next
    <3>2. CASE ~Accepted(n)
      BY <2>2, <3>2 DEF CallRefill, DeviceTape!tapeVars, Delivered
    <3> QED
      BY <3>1, <3>2
  <2>3. CASE OSClose
    BY <2>3 DEF OSClose, DeviceTape!tapeVars, Delivered
  <2>4. CASE UNCHANGED osVars
    BY <2>4 DEF osVars, DeviceTape!tapeVars, Delivered
  <2> QED
    BY <2>1, <2>2, <2>3, <2>4 DEF OSNext
<1> QED
  BY <1>1, <1>2, DeviceInductive, PTL DEF OSSpec, ImplementsDevice, DeviceTape!Spec
=============================================================================
