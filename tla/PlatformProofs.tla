--------------------------- MODULE PlatformProofs ---------------------------
(***************************************************************************)
(* Theorems about CrossPlatform, for every number of blocks and rounds, all *)
(* keys, seeds and entropies, and any substitution, sum and double of bytes: *)
(* x86 and POWER in both byte orders have the same words.  The registers of *)
(* big-endian POWER hold the halves of those of x86 in the other order, and *)
(* a round of AES does not notice, as it treats all columns alike.          *)
(***************************************************************************)
EXTENDS CrossPlatform, TLAPS

AddKeyLast == {"x86", "ppc64le", "ppc64"}

\* The platforms but ARM64, and a network whose shuffle reads its blocks.
Comparable ==
    /\ Platform \subseteq AddKeyLast
    /\ Widths \subseteq {1, 2, 4, 8}
    /\ kFeistelBlocks \in Nat \ {0}
    /\ shuffle \in [Branch -> Branch]

\* Entropy that does not tell the order of the 32-bit words of a 64-bit word.
Paired ==
    \A buffer \in Buffer : \A j \in 0 .. 2 * (kFeistelBlocks - 1) - 1 :
      buffer[2 * j] = buffer[2 * j + 1]

\* Where the registers of p have the byte that those of x86 have at i, when
\* they are loaded from memory, and when they are swapped for AES.
Loaded(p, i) ==
    CASE p = "x86"     -> i
      [] p = "ppc64le" -> 15 - i
      [] p = "ppc64"   -> 8 * (i \div 8) + (7 - (i % 8))

InAes(p, i) == IF p = "ppc64" THEN (i + 8) % 16 ELSE i

LEMMA Places ==
    ASSUME NEW p \in AddKeyLast, NEW i \in Lane
    PROVE  /\ Loaded(p, i) \in Lane /\ InAes(p, i) \in Lane
           /\ InAes(p, i) = IF RANDEN_BIG_ENDIAN(p) THEN 15 - Loaded(p, i) ELSE Loaded(p, i)
           /\ Loaded(p, i) = IF RANDEN_BIG_ENDIAN(p) THEN 15 - InAes(p, i) ELSE InAes(p, i)
<1>1. i \in 0 .. 15
  BY DEF Lane
<1>2. CASE p = "x86"
  BY <1>1, <1>2 DEF Loaded, InAes, Lane, RANDEN_BIG_ENDIAN
<1>3. CASE p = "ppc64le"
  BY <1>1, <1>3 DEF Loaded, InAes, Lane, RANDEN_BIG_ENDIAN
<1>4. CASE p = "ppc64"
  <2>1. CASE i < 8
    BY <1>1, <1>4, <2>1 DEF Loaded, InAes, Lane, RANDEN_BIG_ENDIAN
  <2>2. CASE i >= 8
    BY <1>1, <1>4, <2>2 DEF Loaded, InAes, Lane, RANDEN_BIG_ENDIAN
  <2>3. QED
    BY <1>1, <2>1, <2>2
<1>5. QED
  BY <1>2, <1>3, <1>4 DEF AddKeyLast

-----------------------------------------------------------------------------
(* The round of AES.                                                       *)

\* A register of p as one of x86.
View(p, v) == [i \in Lane |-> v[InAes(p, i)]]

LEMMA ViewLane ==
    ASSUME NEW p \in AddKeyLast, NEW v, NEW i \in Lane
    PROVE  View(p, v)[i] = v[InAes(p, i)] /\ InAes(p, i) \in Lane
  BY Places DEF View

\* Half a state further, rows and columns are in the same order.
LEMMA Shifted ==
    ASSUME NEW p \in AddKeyLast, NEW i \in Lane
    PROVE  /\ (i + 4 * (i % 4)) % 16 \in Lane
           /\ InAes(p, (i + 4 * (i % 4)) % 16)
                = (InAes(p, i) + 4 * (InAes(p, i) % 4)) % 16
<1>1. i \in 0 .. 15
  BY DEF Lane
<1>2. CASE p # "ppc64"
  BY <1>1, <1>2 DEF InAes, Lane
<1>3. CASE p = "ppc64"
  <2> DEFINE r == i % 4
  <2>1. r \in {0, 1, 2, 3} /\ ((i + 8) % 16) % 4 = r
    BY <1>1
  <2>2. (((i + 4 * r) % 16) + 8) % 16 = (((i + 8) % 16) + 4 * r) % 16
    BY <1>1, <2>1
  <2>3. QED
    BY <1>1, <1>3, <2>1, <2>2 DEF InAes, Lane
<1>4. QED
  BY <1>2, <1>3

LEMMA Mixed ==
    ASSUME NEW p \in AddKeyLast, NEW i \in Lane, NEW d \in 0 .. 3
    PROVE  /\ 4 * (i \div 4) + ((i + d) % 4) \in Lane
           /\ InAes(p, 4 * (i \div 4) + ((i + d) % 4))
                = 4 * (InAes(p, i) \div 4) + ((InAes(p, i) + d) % 4)
<1>1. i \in 0 .. 15
  BY DEF Lane
<1>2. 4 * (i \div 4) + ((i + d) % 4) \in 0 .. 15
  BY <1>1
<1>3. CASE p # "ppc64"
  BY <1>2, <1>3 DEF InAes, Lane
<1>4. CASE p = "ppc64"
  <2> DEFINE c == i \div 4
             e == (i + d) % 4
  <2>1. c \in 0 .. 3 /\ e \in 0 .. 3
    BY <1>1
  <2>2. ((i + 8) % 16) \div 4 = (c + 2) % 4
    BY <1>1
  <2>3. (((i + 8) % 16) + d) % 4 = e
    BY <1>1
  <2>4. (4 * c + e + 8) % 16 = 4 * ((c + 2) % 4) + e
    BY <2>1
  <2>5. QED
    BY <1>2, <1>4, <2>1, <2>2, <2>3, <2>4 DEF InAes, Lane
<1>5. QED
  BY <1>3, <1>4

LEMMA RoundOnX86 ==
    ASSUME NEW p \in AddKeyLast, NEW u, NEW k
    PROVE  View(p, AESRound(p, u, k)) = AESRound("x86", View(p, u), View(p, k))
<1> DEFINE S == SubBytes(u)
           SR == ShiftRows(S)
           M == MixColumns(SR)
           S1 == SubBytes(View(p, u))
           SR1 == ShiftRows(S1)
           M1 == MixColumns(SR1)
<1>1. ASSUME NEW i \in Lane
      PROVE  S[InAes(p, i)] = S1[i]
  BY ViewLane DEF SubBytes
<1> HIDE DEF S, S1
<1>2. ASSUME NEW i \in Lane
      PROVE  SR[InAes(p, i)] = SR1[i]
  <2>1. SR[InAes(p, i)] = S[(InAes(p, i) + 4 * (InAes(p, i) % 4)) % 16]
    BY ViewLane DEF ShiftRows
  <2>2. SR1[i] = S1[(i + 4 * (i % 4)) % 16]
    BY DEF ShiftRows
  <2>3. QED
    BY <2>1, <2>2, <1>1, Shifted
<1> HIDE DEF SR, SR1
<1>3. ASSUME NEW i \in Lane
      PROVE  M[InAes(p, i)] = M1[i]
  <2> DEFINE In(d) == SR[4 * (InAes(p, i) \div 4) + ((InAes(p, i) + d) % 4)]
             In1(d) == SR1[4 * (i \div 4) + ((i + d) % 4)]
  <2>1. ASSUME NEW d \in 0 .. 3
        PROVE  In(d) = In1(d)
    <3> DEFINE j == 4 * (i \div 4) + ((i + d) % 4)
    <3>1. j \in Lane /\ InAes(p, j) = 4 * (InAes(p, i) \div 4) + ((InAes(p, i) + d) % 4)
      BY Mixed
    <3> HIDE DEF j
    <3>2. SR[InAes(p, j)] = SR1[j]
      BY <1>2, <3>1
    <3>3. In(d) = SR[InAes(p, j)]
      BY <3>1, Zenon
    <3>4. In1(d) = SR1[j]
      BY Zenon DEF j
    <3>5. QED
      BY <3>2, <3>3, <3>4
  <2>2. /\ M[InAes(p, i)] = XorByte(XorByte(Double(In(0)), XorByte(Double(In(1)), In(1))),
                                    XorByte(In(2), In(3)))
        /\ M1[i] = XorByte(XorByte(Double(In1(0)), XorByte(Double(In1(1)), In1(1))),
                           XorByte(In1(2), In1(3)))
    BY ViewLane DEF MixColumns
  <2>3. In(0) = In1(0) /\ In(1) = In1(1) /\ In(2) = In1(2) /\ In(3) = In1(3)
    BY <2>1
  <2> HIDE DEF In, In1
  <2>4. QED
    BY <2>2, <2>3
<1> HIDE DEF M, M1
<1>4. ASSUME NEW i \in Lane
      PROVE  View(p, XorLanes(M, k))[i] = XorLanes(M1, View(p, k))[i]
  <2>1. View(p, XorLanes(M, k))[i] = XorByte(M[InAes(p, i)], k[InAes(p, i)])
    BY ViewLane DEF XorLanes
  <2>2. XorLanes(M1, View(p, k))[i] = XorByte(M1[i], k[InAes(p, i)])
    BY ViewLane DEF XorLanes
  <2>3. QED
    BY <2>1, <2>2, <1>3
<1>5. /\ View(p, XorLanes(M, k)) = [i \in Lane |-> View(p, XorLanes(M, k))[i]]
      /\ XorLanes(M1, View(p, k)) = [i \in Lane |-> XorLanes(M1, View(p, k))[i]]
  BY DEF View, XorLanes
<1>6. View(p, XorLanes(M, k)) = XorLanes(M1, View(p, k))
  BY <1>4, <1>5
<1>7. /\ AESRound(p, u, k) = XorLanes(M, k)
      /\ AESRound("x86", View(p, u), View(p, k)) = XorLanes(M1, View(p, k))
  BY Zenon DEF AESRound, AddKeyLast, M, M1, SR, SR1, S, S1
<1>8. QED
  BY <1>6, <1>7, Zenon

-----------------------------------------------------------------------------
(* Memory.                                                                 *)

\* A register of p, loaded from memory, as one of x86.
MemoryView(p, v) == [i \in Lane |-> v[Loaded(p, i)]]

LEMMA MemoryLane ==
    ASSUME NEW p \in AddKeyLast, NEW v, NEW i \in Lane
    PROVE  MemoryView(p, v)[i] = v[Loaded(p, i)] /\ Loaded(p, i) \in Lane
  BY Places DEF MemoryView

\* SwapIfBigEndian turns what is loaded into what AES expects, and back.
LEMMA Turned ==
    ASSUME Platform \subseteq AddKeyLast, NEW p \in Platform, NEW a
    PROVE  /\ View(p, SwapIfBigEndian(a)[p]) = MemoryView(p, a[p])
           /\ MemoryView(p, SwapIfBigEndian(a)[p]) = View(p, a[p])
<1>1. p \in AddKeyLast
  OBVIOUS
<1>2. SwapIfBigEndian(a)[p] =
        IF RANDEN_BIG_ENDIAN(p) THEN ReverseBytes(a[p]) ELSE a[p]
  BY DEF SwapIfBigEndian
<1>3. ASSUME NEW i \in Lane
      PROVE  /\ SwapIfBigEndian(a)[p][InAes(p, i)] = a[p][Loaded(p, i)]
             /\ SwapIfBigEndian(a)[p][Loaded(p, i)] = a[p][InAes(p, i)]
  <2>1. ASSUME NEW j \in Lane
        PROVE  ReverseBytes(a[p])[j] = a[p][15 - j]
    BY DEF ReverseBytes
  <2>2. /\ Loaded(p, i) \in Lane /\ InAes(p, i) \in Lane
        /\ InAes(p, i) = IF RANDEN_BIG_ENDIAN(p) THEN 15 - Loaded(p, i) ELSE Loaded(p, i)
        /\ Loaded(p, i) = IF RANDEN_BIG_ENDIAN(p) THEN 15 - InAes(p, i) ELSE InAes(p, i)
    BY <1>1, Places
  <2>3. CASE RANDEN_BIG_ENDIAN(p)
    BY <1>2, <2>1, <2>2, <2>3
  <2>4. CASE ~ RANDEN_BIG_ENDIAN(p)
    BY <1>2, <2>2, <2>4
  <2>5. QED
    BY <2>3, <2>4
<1>4. QED
  BY <1>3 DEF View, MemoryView

LEMMA XoredViews ==
    ASSUME Platform \subseteq AddKeyLast, NEW p \in Platform, NEW a, NEW b
    PROVE  MemoryView(p, XOR(a, b)[p])
             = XorLanes(MemoryView(p, a[p]), MemoryView(p, b[p]))
<1>1. p \in AddKeyLast
  OBVIOUS
<1>2. XOR(a, b)[p] = XorLanes(a[p], b[p])
  BY DEF XOR
<1>3. ASSUME NEW i \in Lane
      PROVE  XorLanes(a[p], b[p])[Loaded(p, i)]
               = XorByte(MemoryView(p, a[p])[i], MemoryView(p, b[p])[i])
  BY <1>1, MemoryLane DEF XorLanes
<1>4. MemoryView(p, XorLanes(a[p], b[p]))
        = XorLanes(MemoryView(p, a[p]), MemoryView(p, b[p]))
  BY <1>3 DEF XorLanes, MemoryView
<1>5. QED
  BY <1>2, <1>4, Zenon

KeyOnX86(n) ==
    [i \in Lane |-> IF i < 8 THEN PiDigits[2 * n + 1][i] ELSE PiDigits[2 * n + 2][i - 8]]

\* RANDEN_LE makes up for loading without SwapIfBigEndian.
LEMMA KeyView ==
    ASSUME Platform \subseteq AddKeyLast, NEW p \in Platform, NEW n
    PROVE  View(p, Key(n)[p]) = KeyOnX86(n)
<1> DEFINE a == PiDigits[2 * n + 1]
           b == PiDigits[2 * n + 2]
           words == RandenLE(p, a, b)
           memory == InMemory(p, 8, words, 1)
<1>1. Key(n)[p] = Load(p, memory)
  BY DEF Key
<1> HIDE DEF a, b
<1>2. ASSUME NEW i \in Lane
      PROVE  Load(p, memory)[InAes(p, i)] = IF i < 8 THEN a[i] ELSE b[i - 8]
  <2>1. i \in 0 .. 15
    BY DEF Lane
  <2>2. ASSUME NEW w, NEW j \in 0 .. 7
        PROVE  BSwap64(w)[j] = w[7 - j]
    BY DEF BSwap64
  <2>3. ASSUME NEW m \in Lane
        PROVE  memory[m] = words[IF m < 8 THEN 1 ELSE 2]
                             [IF p = "ppc64" THEN 7 - (m % 8) ELSE m % 8]
    <3>1. 1 + m \div 8 = IF m < 8 THEN 1 ELSE 2
      BY DEF Lane
    <3>2. memory[m] = words[1 + m \div 8][IF p = "ppc64" THEN 8 - 1 - (m % 8) ELSE m % 8]
      BY DEF InMemory, LittleEndian
    <3>3. 8 - 1 - (m % 8) = 7 - (m % 8)
      BY DEF Lane
    <3> HIDE DEF memory, words
    <3>4. QED
      BY <3>1, <3>2, <3>3
  <2>4. ASSUME NEW j \in Lane
        PROVE  Load(p, memory)[j] = memory[IF p = "ppc64le" THEN 15 - j ELSE j]
    BY DEF Load
  <2>5. /\ p = "x86" => words[1] = a /\ words[2] = b
        /\ p # "x86" => words[1] = BSwap64(b) /\ words[2] = BSwap64(a)
    BY DEF RandenLE, RANDEN_BIG_ENDIAN, AddKeyLast
  <2> HIDE DEF memory, words
  <2>6. InAes(p, i) = (IF p = "ppc64" THEN (i + 8) % 16 ELSE i) /\ InAes(p, i) \in Lane
    BY Places DEF InAes
  <2>7. CASE p = "x86"
    <3>1. Load(p, memory)[InAes(p, i)] = memory[i]
      BY <2>4, <2>6, <2>7
    <3>2. i % 8 = IF i < 8 THEN i ELSE i - 8
      BY <2>1
    <3>3. QED
      BY <3>1, <3>2, <2>3, <2>5, <2>7
  <2>8. CASE p = "ppc64le"
    <3>1. Load(p, memory)[InAes(p, i)] = memory[15 - i] /\ 15 - i \in Lane
      BY <2>1, <2>4, <2>6, <2>8 DEF Lane
    <3>2. (15 - i) % 8 = (IF i < 8 THEN 7 - i ELSE 15 - i) /\ (15 - i < 8 <=> ~ i < 8)
      BY <2>1
    <3>3. memory[15 - i] = (IF i < 8 THEN words[2] ELSE words[1])
                             [IF i < 8 THEN 7 - i ELSE 15 - i]
      BY <3>1, <3>2, <2>3, <2>8
    <3>4. CASE i < 8
      <4>1. memory[15 - i] = BSwap64(a)[7 - i] /\ 7 - i \in 0 .. 7 /\ 7 - (7 - i) = i
        BY <2>1, <3>3, <3>4, <2>5, <2>8
      <4>2. QED
        BY <4>1, <2>2, <3>1, <3>4
    <3>5. CASE ~ i < 8
      <4>1. /\ memory[15 - i] = BSwap64(b)[15 - i]
            /\ 15 - i \in 0 .. 7 /\ 7 - (15 - i) = i - 8
        BY <2>1, <3>3, <3>5, <2>5, <2>8
      <4>2. QED
        BY <4>1, <2>2, <3>1, <3>5
    <3>6. QED
      BY <3>4, <3>5
  <2>9. CASE p = "ppc64"
    <3> DEFINE j == (i + 8) % 16
    <3>1. Load(p, memory)[InAes(p, i)] = memory[j] /\ j \in Lane
      BY <2>4, <2>6, <2>9
    <3>2. j = (IF i < 8 THEN i + 8 ELSE i - 8)
      BY <2>1
    <3> HIDE DEF j
    <3>3. CASE i < 8
      <4>1. ~ j < 8 /\ 7 - (j % 8) = 7 - i /\ 7 - i \in 0 .. 7 /\ 7 - (7 - i) = i
        BY <2>1, <3>2, <3>3
      <4>2. memory[j] = BSwap64(a)[7 - i]
        BY <4>1, <3>1, <2>3, <2>5, <2>9
      <4>3. QED
        BY <4>1, <4>2, <2>2, <3>1, <3>3
    <3>4. CASE ~ i < 8
      <4>1. /\ j < 8 /\ 7 - (j % 8) = 7 - (i - 8) /\ 7 - (i - 8) \in 0 .. 7
            /\ 7 - (7 - (i - 8)) = i - 8
        BY <2>1, <3>2, <3>4
      <4>2. memory[j] = BSwap64(b)[7 - (i - 8)]
        BY <4>1, <3>1, <2>3, <2>5, <2>9
      <4>3. QED
        BY <4>1, <4>2, <2>2, <3>1, <3>4
    <3>5. QED
      BY <3>3, <3>4
  <2>10. QED
    BY <2>7, <2>8, <2>9 DEF AddKeyLast
<1> HIDE DEF words, memory
<1>3. View(p, Load(p, memory)) = [i \in Lane |-> IF i < 8 THEN a[i] ELSE b[i - 8]]
  BY <1>2 DEF View
<1>4. QED
  BY <1>1, <1>3, Zenon DEF KeyOnX86, a, b

\* What seed(value) fills a block with: the word of n bytes, over and over.
Filled(p, n, value) ==
    Load(p, InMemory(p, n, [i \in 0 .. 15 |-> [k \in 0 .. n - 1 |-> value[k]]], 0))

Repeated(n, value) == [i \in Lane |-> value[i % n]]

LEMMA SeedView ==
    ASSUME Platform \subseteq AddKeyLast, NEW p \in Platform, NEW n \in {1, 2, 4, 8}, NEW value
    PROVE  MemoryView(p, Filled(p, n, value)) = Repeated(n, value)
<1> DEFINE words == [i \in 0 .. 15 |-> [k \in 0 .. n - 1 |-> value[k]]]
           memory == InMemory(p, n, words, 0)
<1>1. ASSUME NEW m \in Lane
      PROVE  memory[m] = value[IF LittleEndian(p) THEN m % n ELSE n - 1 - (m % n)]
  <2>1. m \in 0 .. 15
    BY DEF Lane
  <2>2. /\ 0 + m \div n \in 0 .. 15
        /\ m % n \in 0 .. n - 1
        /\ n - 1 - (m % n) \in 0 .. n - 1
    BY <2>1
  <2>3. memory[m] = words[0 + m \div n][IF LittleEndian(p) THEN m % n ELSE n - 1 - (m % n)]
    BY DEF InMemory
  <2>4. words[0 + m \div n] = [k \in 0 .. n - 1 |-> value[k]]
    BY <2>2
  <2> HIDE DEF words
  <2>5. QED
    BY <2>2, <2>3, <2>4
<1> HIDE DEF memory, words
<1>2. ASSUME NEW i \in Lane
      PROVE  Load(p, memory)[Loaded(p, i)] = value[i % n]
  <2>1. i \in 0 .. 15 /\ Loaded(p, i) \in Lane
    BY Places DEF Lane
  <2>2. ASSUME NEW j \in Lane
        PROVE  Load(p, memory)[j] = memory[IF p = "ppc64le" THEN 15 - j ELSE j]
    BY DEF Load
  <2>3. CASE p = "x86"
    <3>1. Loaded(p, i) = i /\ LittleEndian(p) /\ p # "ppc64le"
      BY <2>3 DEF Loaded, LittleEndian
    <3>2. QED
      BY <3>1, <2>2, <1>1
  <2>4. CASE p = "ppc64le"
    <3>1. Loaded(p, i) = 15 - i /\ LittleEndian(p) /\ 15 - Loaded(p, i) = i
      BY <2>1, <2>4 DEF Loaded, LittleEndian
    <3>2. QED
      BY <3>1, <2>1, <2>2, <2>4, <1>1
  <2>5. CASE p = "ppc64"
    <3>1. Loaded(p, i) = 8 * (i \div 8) + (7 - (i % 8)) /\ ~ LittleEndian(p) /\ p # "ppc64le"
      BY <2>5 DEF Loaded, LittleEndian
    <3>2. n - 1 - ((8 * (i \div 8) + (7 - (i % 8))) % n) = i % n
      <4>1. CASE n = 1
        BY <2>1, <4>1
      <4>2. CASE n = 2
        BY <2>1, <4>2
      <4>3. CASE n = 4
        BY <2>1, <4>3
      <4>4. CASE n = 8
        BY <2>1, <4>4
      <4>5. QED
        BY <4>1, <4>2, <4>3, <4>4
    <3>3. Load(p, memory)[Loaded(p, i)] = value[n - 1 - (Loaded(p, i) % n)]
      BY <3>1, <2>1, <2>2, <1>1
    <3>4. n - 1 - (Loaded(p, i) % n) = i % n
      BY <3>1, <3>2
    <3>5. QED
      BY <3>3, <3>4
  <2>6. QED
    BY <2>3, <2>4, <2>5 DEF AddKeyLast
<1>3. MemoryView(p, Load(p, memory)) = [i \in Lane |-> value[i % n]]
  BY <1>2 DEF MemoryView
<1>4. QED
  BY <1>3, Zenon DEF Filled, Repeated, memory, words

\* The 32-bit word of a block with the byte that x86 has at i: on a big-endian
\* machine the other one of the 64-bit word.
WordOf(p, i) ==
    IF LittleEndian(p) THEN i \div 4
    ELSE IF (i \div 4) \in {0, 2} THEN (i \div 4) + 1 ELSE (i \div 4) - 1

\* What reseed adds to block b.
Drawn(p, buffer, b) == [i \in Lane |-> buffer[4 * b + WordOf(p, i)][i % 4]]

LEMMA BufferView ==
    ASSUME Platform \subseteq AddKeyLast, NEW p \in Platform, NEW buffer, NEW b \in Nat
    PROVE  MemoryView(p, Load(p, InMemory(p, 4, buffer, 4 * b))) = Drawn(p, buffer, b)
<1> DEFINE memory == InMemory(p, 4, buffer, 4 * b)
<1>1. ASSUME NEW m \in Lane
      PROVE  memory[m] = buffer[4 * b + m \div 4]
                           [IF LittleEndian(p) THEN m % 4 ELSE 4 - 1 - (m % 4)]
  BY DEF InMemory
<1> HIDE DEF memory
<1>2. ASSUME NEW i \in Lane
      PROVE  Load(p, memory)[Loaded(p, i)] =
               buffer[4 * b + WordOf(p, i)][i % 4]
  <2>1. i \in 0 .. 15 /\ Loaded(p, i) \in Lane
    BY Places DEF Lane
  <2>2. ASSUME NEW j \in Lane
        PROVE  Load(p, memory)[j] = memory[IF p = "ppc64le" THEN 15 - j ELSE j]
    BY DEF Load
  <2>3. CASE p = "x86"
    <3>1. Loaded(p, i) = i /\ LittleEndian(p) /\ p # "ppc64le"
      BY <2>3 DEF Loaded, LittleEndian
    <3>2. QED
      BY <3>1, <2>2, <1>1 DEF WordOf
  <2>4. CASE p = "ppc64le"
    <3>1. Loaded(p, i) = 15 - i /\ LittleEndian(p) /\ 15 - Loaded(p, i) = i
      BY <2>1, <2>4 DEF Loaded, LittleEndian
    <3>2. QED
      BY <3>1, <2>1, <2>2, <2>4, <1>1 DEF WordOf
  <2>5. CASE p = "ppc64"
    <3> DEFINE m == 8 * (i \div 8) + (7 - (i % 8))
    <3>1. Loaded(p, i) = m /\ ~ LittleEndian(p) /\ p # "ppc64le"
      BY <2>5 DEF Loaded, LittleEndian
    <3>2. /\ 4 - 1 - (m % 4) = i % 4
          /\ m \div 4 = IF (i \div 4) \in {0, 2} THEN (i \div 4) + 1 ELSE (i \div 4) - 1
      BY <2>1
    <3> HIDE DEF m
    <3>3. Load(p, memory)[Loaded(p, i)] = buffer[4 * b + m \div 4][4 - 1 - (m % 4)]
      BY <3>1, <2>1, <2>2, <1>1
    <3>4. QED
      BY <3>1, <3>2, <3>3 DEF WordOf
  <2>6. QED
    BY <2>3, <2>4, <2>5 DEF AddKeyLast
<1>3. QED
  BY <1>2 DEF MemoryView, Drawn, memory

-----------------------------------------------------------------------------
(* The engine.                                                             *)

\* Platforms that see the same entropy.
Together(p, q) == LittleEndian(p) = LittleEndian(q) \/ Paired

SameInMemory(p, q, a) == MemoryView(p, a[p]) = MemoryView(q, a[q])

SameInAes(p, q, a) == View(p, a[p]) = View(q, a[q])

SameEntropy(p, q) ==
    \A seed \in SeedBuffer : \A b \in 0 .. kFeistelBlocks - 2 : SameInMemory(p, q, seed[b])

\* The blocks of p and q are those of one engine, loaded by each its own way.
SameBlocks(p, q) ==
    /\ pc = "idle" => \A b \in Branch : SameInMemory(p, q, state[b])
    /\ pc # "idle" => /\ \A b \in Branch : SameInAes(p, q, state[b])
                      /\ SameInMemory(p, q, prev_inner)

PlatformInv ==
    /\ state = [b \in Branch |-> state[b]]
    /\ branch \in Nat
    /\ \A p, q \in Platform : Together(p, q) => SameBlocks(p, q)

LEMMA Entropy ==
    ASSUME Comparable, NEW p \in Platform, NEW q \in Platform, Together(p, q)
    PROVE  SameEntropy(p, q)
<1> SUFFICES ASSUME NEW seed \in SeedBuffer, NEW b \in 0 .. kFeistelBlocks - 2
             PROVE  SameInMemory(p, q, seed[b])
  BY DEF SameEntropy
<1>1. Platform \subseteq AddKeyLast /\ kFeistelBlocks \in Nat
  BY DEF Comparable
<1>2. b \in Nat /\ b <= kFeistelBlocks - 2
  BY <1>1
<1>3. PICK buffer \in Buffer :
        seed = [c \in 0 .. kFeistelBlocks - 2 |->
                  [r \in Platform |-> Load(r, InMemory(r, 4, buffer, 4 * c))]]
  BY DEF SeedBuffer
<1>4. /\ seed[b][p] = Load(p, InMemory(p, 4, buffer, 4 * b))
      /\ seed[b][q] = Load(q, InMemory(q, 4, buffer, 4 * b))
  BY <1>3
<1>5. /\ MemoryView(p, seed[b][p]) = Drawn(p, buffer, b)
      /\ MemoryView(q, seed[b][q]) = Drawn(q, buffer, b)
  <2>1. MemoryView(p, Load(p, InMemory(p, 4, buffer, 4 * b))) = Drawn(p, buffer, b)
    BY <1>1, <1>2, BufferView, Zenon
  <2>2. MemoryView(q, Load(q, InMemory(q, 4, buffer, 4 * b))) = Drawn(q, buffer, b)
    BY <1>1, <1>2, BufferView, Zenon
  <2>3. QED
    BY <1>4, <2>1, <2>2, Zenon
<1>6. ASSUME NEW i \in Lane
      PROVE  buffer[4 * b + WordOf(p, i)] = buffer[4 * b + WordOf(q, i)]
  <2>1. CASE LittleEndian(p) = LittleEndian(q)
    BY <2>1 DEF WordOf
  <2>2. CASE Paired /\ LittleEndian(p) # LittleEndian(q)
    <3> DEFINE w == i \div 4
               j == 2 * b + w \div 2
    <3>1. w \in 0 .. 3
      BY DEF Lane
    <3>2. j \in 0 .. 2 * (kFeistelBlocks - 1) - 1
      BY <1>1, <1>2, <3>1
    <3>3. buffer[2 * j] = buffer[2 * j + 1]
      BY <2>2, <3>2 DEF Paired
    <3>4. CASE w \in {0, 2}
      <4>1. 2 * j = 4 * b + w /\ 2 * j + 1 = 4 * b + (w + 1)
        BY <1>2, <3>1, <3>4
      <4>2. {WordOf(p, i), WordOf(q, i)} = {w, w + 1}
        BY <2>2, <3>4 DEF WordOf, LittleEndian
      <4> HIDE DEF w, j
      <4>3. buffer[4 * b + w] = buffer[4 * b + (w + 1)]
        BY <3>3, <4>1
      <4>4. /\ WordOf(p, i) = w \/ WordOf(p, i) = w + 1
            /\ WordOf(q, i) = w \/ WordOf(q, i) = w + 1
        BY <4>2
      <4>5. QED
        BY <4>3, <4>4, Zenon
    <3>5. CASE w \notin {0, 2}
      <4>1. 2 * j + 1 = 4 * b + w /\ 2 * j = 4 * b + (w - 1)
        BY <1>2, <3>1, <3>5
      <4>2. {WordOf(p, i), WordOf(q, i)} = {w, w - 1}
        BY <2>2, <3>5 DEF WordOf, LittleEndian
      <4> HIDE DEF w, j
      <4>3. buffer[4 * b + w] = buffer[4 * b + (w - 1)]
        BY <3>3, <4>1
      <4>4. /\ WordOf(p, i) = w \/ WordOf(p, i) = w - 1
            /\ WordOf(q, i) = w \/ WordOf(q, i) = w - 1
        BY <4>2
      <4>5. QED
        BY <4>3, <4>4, Zenon
    <3>6. QED
      BY <3>4, <3>5
  <2>3. QED
    BY <2>1, <2>2 DEF Together
<1>7. Drawn(p, buffer, b) = Drawn(q, buffer, b)
  BY <1>6 DEF Drawn
<1>8. QED
  BY <1>5, <1>7, Zenon DEF SameInMemory

LEMMA SeededSame ==
    ASSUME Comparable, NEW p \in Platform, NEW q \in Platform, NEW v \in Seed, NEW b \in Branch
    PROVE  SameInMemory(p, q, Seeded(v)[b])
<1>1. Platform \subseteq AddKeyLast /\ Widths \subseteq {1, 2, 4, 8}
  BY DEF Comparable
<1>2. CASE b = 0
  <2>1. Seeded(v)[b] = [r \in Platform |-> [i \in Lane |-> 0]]
    BY <1>2 DEF Seeded, Zero
  <2>2. ASSUME NEW r \in Platform
        PROVE  MemoryView(r, Seeded(v)[b][r]) = [i \in Lane |-> 0]
    <3>1. Seeded(v)[b][r] = [i \in Lane |-> 0]
      BY <2>1
    <3>2. ASSUME NEW i \in Lane
          PROVE  Seeded(v)[b][r][Loaded(r, i)] = 0
      BY <1>1, <3>1, Places
    <3>3. QED
      BY <3>2 DEF MemoryView
  <2>3. QED
    BY <2>2 DEF SameInMemory
<1>3. CASE b # 0
  <2>1. Seeded(v)[b] = v
    BY <1>3 DEF Seeded
  <2>2. PICK n \in Widths, value \in Value :
          v = [r \in Platform |-> Filled(r, n, value)]
    <3>1. Seed = {[r \in Platform |-> Filled(r, n, value)] : n \in Widths, value \in Value}
      BY DEF Seed, Filled
    <3>2. QED
      BY <3>1
  <2>3. ASSUME NEW r \in Platform
        PROVE  MemoryView(r, v[r]) = Repeated(n, value)
    <3>1. n \in {1, 2, 4, 8}
      BY <1>1
    <3>2. v[r] = Filled(r, n, value)
      BY <2>2
    <3>3. MemoryView(r, Filled(r, n, value)) = Repeated(n, value)
      BY <1>1, <3>1, SeedView, Zenon
    <3>4. QED
      BY <3>2, <3>3, Zenon
  <2>4. MemoryView(p, v[p]) = MemoryView(q, v[q])
    BY <2>3, Zenon
  <2>5. QED
    BY <2>1, <2>4, Zenon DEF SameInMemory
<1>4. QED
  BY <1>2, <1>3

LEMMA FunctionSame ==
    ASSUME Platform \subseteq AddKeyLast, NEW p \in Platform, NEW q \in Platform,
           NEW even, NEW odd, NEW k, SameInAes(p, q, even), SameInAes(p, q, odd)
    PROVE  SameInAes(p, q, Function(even, odd, k))
<1>1. p \in AddKeyLast /\ q \in AddKeyLast
  OBVIOUS
<1>2. SameInAes(p, q, Key(k))
  BY KeyView, Zenon DEF SameInAes
<1>3. ASSUME NEW a, NEW b, SameInAes(p, q, a), SameInAes(p, q, b)
      PROVE  SameInAes(p, q, AES(a, b))
  <2>1. AES(a, b)[p] = AESRound(p, a[p], b[p]) /\ AES(a, b)[q] = AESRound(q, a[q], b[q])
    BY DEF AES
  <2>2. View(p, a[p]) = View(q, a[q]) /\ View(p, b[p]) = View(q, b[q])
    BY <1>3, Zenon DEF SameInAes
  <2>3. View(p, AESRound(p, a[p], b[p])) = View(q, AESRound(q, a[q], b[q]))
    <3>1. View(p, AESRound(p, a[p], b[p])) = AESRound("x86", View(p, a[p]), View(p, b[p]))
      BY <1>1, RoundOnX86, Zenon
    <3>2. View(q, AESRound(q, a[q], b[q])) = AESRound("x86", View(q, a[q]), View(q, b[q]))
      BY <1>1, RoundOnX86, Zenon
    <3>3. QED
      BY <2>2, <3>1, <3>2, Zenon
  <2>4. QED
    BY <2>1, <2>3, Zenon DEF SameInAes
<1>4. QED
  BY <1>2, <1>3, Zenon DEF Function

LEMMA SwappedSame ==
    ASSUME Platform \subseteq AddKeyLast, NEW p \in Platform, NEW q \in Platform, NEW a
    PROVE  /\ SameInMemory(p, q, a) => SameInAes(p, q, SwapIfBigEndian(a))
           /\ SameInAes(p, q, a) => SameInMemory(p, q, SwapIfBigEndian(a))
  BY Turned, Zenon DEF SameInMemory, SameInAes

LEMMA XoredSame ==
    ASSUME Platform \subseteq AddKeyLast, NEW p \in Platform, NEW q \in Platform,
           NEW a, NEW b, SameInMemory(p, q, a), SameInMemory(p, q, b)
    PROVE  SameInMemory(p, q, XOR(a, b))
  BY XoredViews, Zenon DEF SameInMemory

LEMMA PlatformInit == ASSUME Comparable PROVE Init => PlatformInv
<1> SUFFICES ASSUME Init PROVE PlatformInv
  OBVIOUS
<1>1. PICK v \in Seed : state = Seeded(v)
  BY DEF Init
<1>2. state = [b \in Branch |-> state[b]]
  BY <1>1 DEF Seeded
<1>3. branch \in Nat /\ pc = "idle"
  BY DEF Init
<1>4. ASSUME NEW p \in Platform, NEW q \in Platform
      PROVE  SameBlocks(p, q)
  BY <1>1, <1>3, SeededSame DEF SameBlocks
<1>5. QED
  BY <1>2, <1>3, <1>4, Zenon DEF PlatformInv

LEMMA PlatformStep ==
    ASSUME Comparable, PlatformInv, [Next]_vars PROVE PlatformInv'
<1>1. /\ Platform \subseteq AddKeyLast /\ kFeistelBlocks \in Nat \ {0}
      /\ 0 \in Branch /\ shuffle \in [Branch -> Branch]
  BY DEF Comparable, Branch
<1>2. /\ state = [b \in Branch |-> state[b]]
      /\ branch \in Nat
      /\ \A p, q \in Platform : Together(p, q) => SameBlocks(p, q)
  BY Zenon DEF PlatformInv
<1>3. ASSUME NEW v \in Seed, Reset(v)
      PROVE  PlatformInv'
  <2>1. state' = Seeded(v) /\ pc' = "idle" /\ branch' = branch
    BY <1>3 DEF Reset
  <2>2. state' = [b \in Branch |-> state'[b]]
    BY <2>1 DEF Seeded
  <2>3. ASSUME NEW p \in Platform, NEW q \in Platform
        PROVE  SameBlocks(p, q)'
    <3>1. \A b \in Branch : SameInMemory(p, q, state'[b])
      BY <2>1, SeededSame
    <3>2. QED
      BY <2>1, <3>1 DEF SameBlocks, SameInMemory
  <2>4. QED
    BY <1>2, <2>1, <2>2, <2>3 DEF PlatformInv, Together
<1>4. ASSUME NEW seed \in SeedBuffer, Absorb(seed)
      PROVE  PlatformInv'
  <2>1. state' = Absorbed(state, seed) /\ pc = "idle" /\ pc' = "idle" /\ branch' = branch
    BY <1>4 DEF Absorb
  <2>2. state' = [b \in Branch |-> state'[b]]
    BY <2>1 DEF Absorbed
  <2>3. ASSUME NEW p \in Platform, NEW q \in Platform, Together(p, q)
        PROVE  SameBlocks(p, q)'
    <3>1. \A b \in Branch : SameInMemory(p, q, state[b])
      BY <1>2, <2>1, <2>3 DEF SameBlocks
    <3>2. SameEntropy(p, q)
      BY <2>3, Entropy
    <3>3. ASSUME NEW b \in Branch
          PROVE  SameInMemory(p, q, state'[b])
      <4>1. CASE b = 0
        BY <2>1, <3>1, <4>1 DEF Absorbed
      <4>2. CASE b # 0
        <5>1. state'[b] = XOR(state[b], seed[b - 1])
          BY <2>1, <4>2 DEF Absorbed
        <5>2. b - 1 \in 0 .. kFeistelBlocks - 2
          BY <1>1, <4>2 DEF Branch
        <5>3. SameInMemory(p, q, seed[b - 1])
          BY <3>2, <5>2 DEF SameEntropy
        <5>4. SameInMemory(p, q, XOR(state[b], seed[b - 1]))
          BY <1>1, <3>1, <5>3, XoredSame
        <5>5. QED
          BY <5>1, <5>4
      <4>3. QED
        BY <4>1, <4>2
    <3>4. QED
      BY <2>1, <3>3 DEF SameBlocks, SameInMemory
  <2>4. QED
    BY <1>2, <2>1, <2>2, <2>3 DEF PlatformInv, Together
<1>5. ASSUME Begin
      PROVE  PlatformInv'
  <2>1. /\ pc = "idle" /\ pc' = "permute" /\ branch' = 0
        /\ state' = Swapped(state) /\ prev_inner' = state[0]
    BY <1>5 DEF Begin
  <2>2. state' = [b \in Branch |-> state'[b]]
    BY <2>1 DEF Swapped
  <2>3. ASSUME NEW p \in Platform, NEW q \in Platform, Together(p, q)
        PROVE  SameBlocks(p, q)'
    <3>1. \A b \in Branch : SameInMemory(p, q, state[b])
      BY <1>2, <2>1, <2>3 DEF SameBlocks
    <3>2. ASSUME NEW b \in Branch
          PROVE  SameInAes(p, q, state'[b])
      <4>1. state'[b] = SwapIfBigEndian(state[b])
        BY <2>1 DEF Swapped
      <4>2. QED
        BY <1>1, <3>1, <4>1, SwappedSame
    <3>3. SameInMemory(p, q, prev_inner')
      BY <1>1, <2>1, <3>1
    <3>4. QED
      BY <2>1, <3>2, <3>3 DEF SameBlocks, SameInMemory, SameInAes
  <2>4. QED
    BY <2>1, <2>2, <2>3 DEF PlatformInv, Together
<1>6. ASSUME FeistelFunction
      PROVE  PlatformInv'
  <2>1. /\ pc = "permute" /\ pc' = "permute" /\ branch < kFeistelBlocks
        /\ branch' = branch + 2 /\ prev_inner' = prev_inner
        /\ state' = [state EXCEPT
                       ![branch + 1] = Function(state[branch], state[branch + 1], keys)]
    BY <1>6 DEF FeistelFunction
  <2>2. branch' \in Nat /\ branch \in Branch
    BY <1>1, <1>2, <2>1 DEF Branch
  <2>3. state' = [b \in Branch |-> state'[b]]
    BY <1>2, <2>1
  <2>4. ASSUME NEW p \in Platform, NEW q \in Platform, Together(p, q)
        PROVE  SameBlocks(p, q)'
    <3>1. /\ \A b \in Branch : SameInAes(p, q, state[b])
          /\ SameInMemory(p, q, prev_inner)
      BY <1>2, <2>1, <2>4 DEF SameBlocks
    <3>2. ASSUME NEW b \in Branch
          PROVE  SameInAes(p, q, state'[b])
      <4>1. CASE b = branch + 1
        <5>1. state'[b] = Function(state[branch], state[b], keys)
          BY <1>2, <2>1, <4>1
        <5>2. SameInAes(p, q, Function(state[branch], state[b], keys))
          BY <1>1, <2>2, <3>1, FunctionSame
        <5>3. QED
          BY <5>1, <5>2
      <4>2. CASE b # branch + 1
        BY <1>2, <2>1, <3>1, <4>2
      <4>3. QED
        BY <4>1, <4>2
    <3>3. QED
      BY <2>1, <3>1, <3>2 DEF SameBlocks, SameInMemory, SameInAes
  <2>5. QED
    BY <2>2, <2>3, <2>4 DEF PlatformInv, Together
<1>7. ASSUME BlockShuffle
      PROVE  PlatformInv'
  <2>1. /\ pc # "idle" /\ pc' # "idle" /\ branch' = 0
        /\ state' = Shuffled(state) /\ prev_inner' = prev_inner
    BY <1>7 DEF BlockShuffle
  <2>2. state' = [b \in Branch |-> state'[b]]
    BY <2>1 DEF Shuffled
  <2>3. ASSUME NEW p \in Platform, NEW q \in Platform, Together(p, q)
        PROVE  SameBlocks(p, q)'
    <3>1. /\ \A b \in Branch : SameInAes(p, q, state[b])
          /\ SameInMemory(p, q, prev_inner)
      BY <1>2, <2>1, <2>3 DEF SameBlocks
    <3>2. ASSUME NEW b \in Branch
          PROVE  SameInAes(p, q, state'[b])
      BY <1>1, <2>1, <3>1 DEF Shuffled
    <3>3. QED
      BY <2>1, <3>1, <3>2 DEF SameBlocks, SameInMemory, SameInAes
  <2>4. QED
    BY <2>1, <2>2, <2>3 DEF PlatformInv, Together
<1>8. ASSUME Finish
      PROVE  PlatformInv'
  <2>1. /\ pc = "finish" /\ pc' = "idle" /\ branch' = branch
        /\ state' = [Swapped(state) EXCEPT ![0] = XOR(Swapped(state)[0], prev_inner)]
    BY <1>8 DEF Finish
  <2>2. ASSUME NEW b \in Branch
        PROVE  state'[b] = IF b = 0 THEN XOR(SwapIfBigEndian(state[0]), prev_inner)
                                    ELSE SwapIfBigEndian(state[b])
    BY <1>1, <2>1 DEF Swapped
  <2>3. state' = [b \in Branch |-> state'[b]]
    BY <2>1 DEF Swapped
  <2>4. ASSUME NEW p \in Platform, NEW q \in Platform, Together(p, q)
        PROVE  SameBlocks(p, q)'
    <3>1. /\ \A b \in Branch : SameInAes(p, q, state[b])
          /\ SameInMemory(p, q, prev_inner)
      BY <1>2, <2>1, <2>4 DEF SameBlocks
    <3>2. \A b \in Branch : SameInMemory(p, q, SwapIfBigEndian(state[b]))
      BY <1>1, <3>1, SwappedSame
    <3>3. SameInMemory(p, q, XOR(SwapIfBigEndian(state[0]), prev_inner))
      BY <1>1, <3>1, <3>2, XoredSame
    <3>4. \A b \in Branch : SameInMemory(p, q, state'[b])
      BY <2>2, <3>2, <3>3
    <3>5. QED
      BY <2>1, <3>4 DEF SameBlocks, SameInMemory
  <2>5. QED
    BY <1>2, <2>1, <2>3, <2>4 DEF PlatformInv, Together
<1>9. CASE UNCHANGED vars
  <2>1. state' = state /\ branch' = branch /\ pc' = pc /\ prev_inner' = prev_inner
    BY <1>9 DEF vars
  <2>2. QED
    BY <1>2, <2>1 DEF PlatformInv, SameBlocks, SameInMemory, SameInAes, Together
<1>10. QED
  BY <1>3, <1>4, <1>5, <1>6, <1>7, <1>8, <1>9 DEF Next, GenerateStep

\* The registers of the platforms hold the same blocks, in memory's order when
\* no Generate is running and in the order of AES while one is.
THEOREM SameRegisters == ASSUME Comparable PROVE Spec => []PlatformInv
  BY PlatformInit, PlatformStep, PTL DEF Spec

LEMMA WordIsView ==
    ASSUME Comparable, NEW p \in Platform, NEW n \in {1, 2, 4, 8},
           LittleEndian(p) \/ n = 8,
           NEW i \in 0 .. kFeistelBlocks * (16 \div n) - 1
    PROVE  /\ (n * i) \div 16 \in Branch
           /\ WordAt(p, n, i) =
                [k \in 0 .. n - 1 |->
                   MemoryView(p, state[(n * i) \div 16][p])[((n * i) % 16) + k]]
<1> DEFINE b == (n * i) \div 16
           first == (n * i) % 16
           reg == state[b][p]
           memory == Store(p, reg)
<1>1. Platform \subseteq AddKeyLast /\ kFeistelBlocks \in Nat /\ p \in AddKeyLast
  BY DEF Comparable
<1>2. /\ i \in Nat
      /\ n = 1 => i < 16 * kFeistelBlocks
      /\ n = 2 => i < 8 * kFeistelBlocks
      /\ n = 4 => i < 4 * kFeistelBlocks
      /\ n = 8 => i < 2 * kFeistelBlocks
  BY <1>1
<1>3. /\ b \in 0 .. kFeistelBlocks - 1
      /\ \A k \in 0 .. n - 1 : first + k \in 0 .. 15 /\ first + (n - 1 - k) \in 0 .. 15
      /\ n = 8 => first \in {0, 8}
  <2>1. CASE n = 1
    BY <1>1, <1>2, <2>1
  <2>2. CASE n = 2
    BY <1>1, <1>2, <2>2
  <2>3. CASE n = 4
    BY <1>1, <1>2, <2>3
  <2>4. CASE n = 8
    BY <1>1, <1>2, <2>4
  <2>5. QED
    BY <2>1, <2>2, <2>3, <2>4
<1>4. WordAt(p, n, i) =
        [k \in 0 .. n - 1 |->
           memory[first + (IF LittleEndian(p) THEN k ELSE n - 1 - k)]]
  BY DEF WordAt
<1>5. ASSUME NEW m \in Lane
      PROVE  memory[m] = reg[IF p = "ppc64le" THEN 15 - m ELSE m]
  BY DEF Store
<1> HIDE DEF memory, reg, b, first
<1>6. ASSUME NEW k \in 0 .. n - 1
      PROVE  memory[first + (IF LittleEndian(p) THEN k ELSE n - 1 - k)]
               = MemoryView(p, reg)[first + k]
  <2> DEFINE m == first + k
  <2>1. m \in Lane /\ first + (n - 1 - k) \in Lane
    BY <1>3 DEF Lane
  <2>2. MemoryView(p, reg)[m] = reg[Loaded(p, m)]
    BY <1>1, <2>1, MemoryLane
  <2>3. CASE p = "x86"
    BY <1>5, <2>1, <2>2, <2>3 DEF Loaded, LittleEndian
  <2>4. CASE p = "ppc64le"
    BY <1>5, <2>1, <2>2, <2>4 DEF Loaded, LittleEndian
  <2>5. CASE p = "ppc64"
    <3>1. n = 8 /\ ~ LittleEndian(p) /\ Loaded(p, m) = 8 * (m \div 8) + (7 - (m % 8))
      BY <2>5 DEF LittleEndian, Loaded
    <3>2. k \in 0 .. 7 /\ first \in {0, 8}
      BY <1>3, <3>1
    <3>3. 8 * (m \div 8) + (7 - (m % 8)) = first + (n - 1 - k)
      BY <3>1, <3>2
    <3> HIDE DEF m
    <3>4. reg[Loaded(p, m)] = memory[first + (n - 1 - k)]
      BY <1>5, <2>1, <2>5, <3>1, <3>3
    <3>5. QED
      BY <2>2, <3>1, <3>4 DEF m
  <2>6. QED
    BY <1>1, <2>3, <2>4, <2>5 DEF AddKeyLast
<1>7. b \in Branch
  BY <1>3 DEF Branch
<1>8. WordAt(p, n, i) = [k \in 0 .. n - 1 |-> MemoryView(p, reg)[first + k]]
  BY <1>4, <1>6
<1>9. QED
  BY <1>7, <1>8, Zenon DEF b, first, reg

LEMMA AgreeTogether ==
    ASSUME Comparable, PlatformInv, pc = "idle",
           NEW p \in Platform, NEW q \in Platform, NEW n \in {1, 2, 4, 8},
           Together(p, q), n = 8 \/ (LittleEndian(p) /\ LittleEndian(q))
    PROVE  Agree(p, q, n)
<1> SUFFICES ASSUME NEW i \in 0 .. kFeistelBlocks * (16 \div n) - 1
             PROVE  WordAt(p, n, i) = WordAt(q, n, i)
  BY DEF Agree
<1> DEFINE b == (n * i) \div 16
           first == (n * i) % 16
<1>1. /\ b \in Branch
      /\ WordAt(p, n, i) = [k \in 0 .. n - 1 |-> MemoryView(p, state[b][p])[first + k]]
  BY WordIsView
<1>2. /\ b \in Branch
      /\ WordAt(q, n, i) = [k \in 0 .. n - 1 |-> MemoryView(q, state[b][q])[first + k]]
  BY WordIsView
<1> HIDE DEF b, first
<1>3. SameInMemory(p, q, state[b])
  BY <1>1 DEF PlatformInv, SameBlocks
<1>4. MemoryView(p, state[b][p]) = MemoryView(q, state[b][q])
  BY <1>3, Zenon DEF SameInMemory
<1>5. QED
  BY <1>1, <1>2, <1>4, Zenon

\* Platforms of one byte order have the same words of T, of every width
\* (SameWords): one set of golden values for x86 and little-endian POWER
\* (randen_test.cc:89-148), although they load registers in opposite orders.
THEOREM SameByteOrder == ASSUME Comparable PROVE Spec => []SameWords
<1>1. PlatformInv => SameWords
  <2> SUFFICES ASSUME PlatformInv, pc = "idle", NEW n \in Widths,
                      NEW p \in Platform, NEW q \in Platform,
                      LittleEndian(p) = LittleEndian(q)
               PROVE  Agree(p, q, n)
    BY DEF SameWords
  <2>1. n \in {1, 2, 4, 8} /\ p \in AddKeyLast /\ q \in AddKeyLast
    BY DEF Comparable
  <2>2. CASE LittleEndian(p)
    BY <2>1, <2>2, AgreeTogether DEF Together
  <2>3. CASE ~ LittleEndian(p)
    <3>1. p = q
      BY <2>1, <2>3 DEF LittleEndian
    <3>2. QED
      BY <3>1 DEF Agree
  <2>4. QED
    BY <2>2, <2>3
<1>2. QED
  BY <1>1, SameRegisters, PTL

\* Big-endian machines have the words of uint64_t of little-endian ones
\* (SameWords64, vector128.h:91-92), where the entropy of reseed does not tell
\* the order of 32-bit words, which Absorb leaves to the machine.
THEOREM AnyByteOrder == ASSUME Comparable, Paired PROVE Spec => []SameWords64
<1>1. PlatformInv => SameWords64
  BY AgreeTogether DEF SameWords64, Together
<1>2. QED
  BY <1>1, SameRegisters, PTL
=============================================================================
