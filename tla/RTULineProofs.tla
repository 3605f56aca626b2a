--------------------------- MODULE RTULineProofs ---------------------------
(***************************************************************************)
(* The serial line, byte by byte, with registers, addresses and units of   *)
(* the code's own widths: readers find the frames that writers send, every *)
(* request is answered on a line without noise, and a result is what the   *)
(* store did for it.                                                       *)
(***************************************************************************)
EXTENDS RTULine, OperatorProofs, WellFoundedInduction

-----------------------------------------------------------------------------
(***************************************************************************)
(* Induction and recursion, for functions that a module defines by         *)
(* themselves.  The provers know such a function as the CHOOSE of one that *)
(* satisfies its equation, so that one has to be shown to exist.           *)
(***************************************************************************)

\* The least-number principle.
LEMMA LeastNumber ==
  ASSUME NEW T \in SUBSET Nat, T # {}
  PROVE  \E n \in T : \A m \in T : n <= m
<1> DEFINE R == OpToRel(<, Nat)
<1>1. IsWellFoundedOn(R, Nat)
  BY NatLessThanWellFounded
<1>2. PICK n \in T : \A m \in T : <<m, n>> \notin R
  <2> HIDE DEF R
  <2> QED  BY <1>1, WFMin
<1>3. \A m \in T : ~(m < n)
  BY <1>2 DEF OpToRel
<1> QED  BY <1>3

\* Induction, over a set of numbers instead of a predicate.
LEMMA Induction ==
  ASSUME NEW S, 0 \in S, \A n \in Nat : n \in S => n + 1 \in S
  PROVE  \A n \in Nat : n \in S
<1> SUFFICES ASSUME Nat \ S # {} PROVE FALSE
  OBVIOUS
<1>1. PICK n \in Nat \ S : \A m \in Nat \ S : n <= m
  <2>1. Nat \ S \in SUBSET Nat
    OBVIOUS
  <2> QED  BY <2>1, LeastNumber
<1>2. n # 0 /\ n \in Nat /\ n \notin S
  BY <1>1
<1>3. n - 1 \in Nat /\ ~(n <= n - 1)
  BY <1>2
<1>4. n - 1 \in S
  BY <1>1, <1>3
<1>5. (n - 1) + 1 \in S
  BY <1>3, <1>4
<1> QED  BY <1>2, <1>5

(***************************************************************************)
(* A function on 0 .. n whose value at i is a function G[i] of the value   *)
(* at a smaller place p[i].                                                *)
(***************************************************************************)
Recurs(f, m, x, p, G) == f[0] = x /\ \A i \in 1 .. m : f[i] = G[i][f[p[i]]]

\* Such an f exists, if every G[i] maps S to S.
LEMMA RecursionExists ==
  ASSUME NEW n \in Nat, NEW S, NEW x \in S, NEW p, NEW G \in [1 .. n -> [S -> S]],
         \A i \in 1 .. n : p[i] \in 0 .. i - 1
  PROVE  \E f \in [0 .. n -> S] : Recurs(f, n, x, p, G)
<1> DEFINE T == {m \in Nat : m <= n => \E f \in [0 .. m -> S] : Recurs(f, m, x, p, G)}
<1>1. 0 \in T
  <2>1. [i \in 0 .. 0 |-> x] \in [0 .. 0 -> S] /\ Recurs([i \in 0 .. 0 |-> x], 0, x, p, G)
    BY DEF Recurs
  <2> QED  BY <2>1
<1>2. ASSUME NEW m \in Nat, m \in T
      PROVE  m + 1 \in T
  <2> SUFFICES ASSUME m + 1 <= n
               PROVE  \E f \in [0 .. m + 1 -> S] : Recurs(f, m + 1, x, p, G)
    OBVIOUS
  <2>1. PICK f \in [0 .. m -> S] : Recurs(f, m, x, p, G)
    BY <1>2
  <2>2. m + 1 \in 1 .. n /\ p[m + 1] \in 0 .. m /\ G[m + 1] \in [S -> S]
    <3>1. m + 1 \in 1 .. n /\ (m + 1) - 1 = m
      OBVIOUS
    <3>2. p[m + 1] \in 0 .. (m + 1) - 1
      BY <3>1
    <3> QED  BY <3>1, <3>2
  <2> DEFINE y == G[m + 1][f[p[m + 1]]]
             g == [i \in 0 .. m + 1 |-> IF i = m + 1 THEN y ELSE f[i]]
  <2>3. y \in S
    BY <2>2
  <2>4. g \in [0 .. m + 1 -> S] /\ g[0] = f[0] /\ g[m + 1] = y
    BY <2>3
  <2>5. \A i \in 0 .. m : g[i] = f[i]
    OBVIOUS
  <2> HIDE DEF g
  <2>6. ASSUME NEW i \in 1 .. m + 1
        PROVE  g[i] = G[i][g[p[i]]]
    <3>1. CASE i = m + 1
      BY <2>2, <2>4, <2>5, <3>1
    <3>2. CASE i \in 1 .. m
      <4>1. p[i] \in 0 .. m
        <5>1. i \in 1 .. n
          BY <3>2
        <5>2. p[i] \in 0 .. i - 1
          BY <5>1
        <5> QED  BY <3>2, <5>2
      <4>2. g[i] = f[i] /\ g[p[i]] = f[p[i]]
        BY <2>5, <3>2, <4>1
      <4> QED  BY <2>1, <3>2, <4>2 DEF Recurs
    <3> QED  BY <3>1, <3>2
  <2>7. Recurs(g, m + 1, x, p, G)
    BY <2>1, <2>4, <2>6 DEF Recurs
  <2> QED  BY <2>4, <2>7
<1> HIDE DEF T
<1>3. n \in T
  BY <1>1, <1>2, Induction
<1> QED  BY <1>3 DEF T

-----------------------------------------------------------------------------
(***************************************************************************)
(* The CRC of bytes is a word (rtu.go:73-86).                              *)
(***************************************************************************)
XorAt(f, a, b) == IF a = 0 THEN b ELSE ((a + b) % 2) + 2 * f[a \div 2][b \div 2]

IsXor(f) == f = [a \in UInt16 |-> [b \in UInt16 |-> XorAt(f, a, b)]]

\* A half of a word is a word, and smaller.
LEMMA HalfWord ==
  /\ \A a : a \in UInt16 <=> a \in Nat /\ a <= MaxUint16
  /\ \A a \in UInt16 :
       /\ a \div 2 \in UInt16 /\ a \div 2 \in Nat
       /\ a # 0 => a \in 1 .. MaxUint16 /\ a \div 2 \in 0 .. a - 1
<1>1. MaxUint16 \in Nat /\ \A a : a \in UInt16 <=> a \in Nat /\ a <= MaxUint16
  BY Ranges DEF UInt16
<1>2. ASSUME NEW a \in UInt16
      PROVE  /\ a \div 2 \in UInt16 /\ a \div 2 \in Nat
             /\ a # 0 => a \in 1 .. MaxUint16 /\ a \div 2 \in 0 .. a - 1
  <2>1. a \in Nat /\ a <= MaxUint16
    BY <1>1
  <2>2. /\ a \div 2 \in Nat /\ a \div 2 <= MaxUint16
        /\ a # 0 => a \in 1 .. MaxUint16 /\ a \div 2 \in 0 .. a - 1
    BY <1>1, <2>1
  <2> QED  BY <1>1, <2>2
<1> QED  BY <1>1, <1>2

\* The size of words, for arithmetic with numbers.
LEMMA WordSize ==
  /\ \A a : a \in UInt16 <=> a \in Nat /\ a < 65536
  /\ \A a : a \in UInt8 <=> a \in Nat /\ a < 256
<1>1. \A a : a \in UInt16 <=> a \in Nat /\ a <= MaxUint16
  BY HalfWord
<1>2. MaxUint16 = 65535
  BY DEF MaxUint16
<1>3. \A a : a \in UInt8 <=> a \in Nat /\ a < 256
  BY DEF UInt8
<1> QED  BY <1>1, <1>2, <1>3

\* There is such a function,
LEMMA XorExists == \E f : IsXor(f)
<1> DEFINE S == [UInt16 -> Nat]
           x == [b \in UInt16 |-> b]
           p == [a \in 1 .. MaxUint16 |-> a \div 2]
           F(a, g) == [b \in UInt16 |-> ((a + b) % 2) + 2 * g[b \div 2]]
           G == [a \in 1 .. MaxUint16 |-> [g \in S |-> F(a, g)]]
<1>0. 1 .. MaxUint16 \subseteq UInt16 /\ 0 .. MaxUint16 = UInt16 /\ MaxUint16 \in Nat
  BY Ranges DEF UInt16
<1>1. x \in S
  BY HalfWord
<1>2. ASSUME NEW a \in 1 .. MaxUint16, NEW g \in S
      PROVE  F(a, g) \in S
  <2>1. ASSUME NEW b \in UInt16
        PROVE  ((a + b) % 2) + 2 * g[b \div 2] \in Nat
    <3>1. a \in Nat /\ b \in Nat /\ b \div 2 \in UInt16
      BY <1>0, HalfWord
    <3>2. g[b \div 2] \in Nat
      BY <3>1
    <3>3. ASSUME NEW k \in Nat
          PROVE  ((a + b) % 2) + 2 * k \in Nat
      BY <3>1
    <3> QED  BY <3>2, <3>3
  <2> QED  BY <2>1
<1> HIDE DEF F
<1>3. G \in [1 .. MaxUint16 -> [S -> S]]
  <2> HIDE DEF S
  <2> QED  BY <1>2
<1>4. \A a \in 1 .. MaxUint16 : p[a] \in 0 .. a - 1 /\ p[a] = a \div 2
  <2>1. ASSUME NEW a \in 1 .. MaxUint16
        PROVE  a \div 2 \in 0 .. a - 1
    BY <1>0, HalfWord
  <2> QED  BY <2>1
<1>5. \A a \in 1 .. MaxUint16, g \in S : G[a][g] = F(a, g)
  OBVIOUS
<1> HIDE DEF S, x, p, G
<1>6. PICK f \in [0 .. MaxUint16 -> S] : Recurs(f, MaxUint16, x, p, G)
  BY <1>0, <1>1, <1>3, <1>4, RecursionExists
<1>7. ASSUME NEW a \in UInt16
      PROVE  f[a] = [b \in UInt16 |-> XorAt(f, a, b)]
  <2>1. CASE a = 0
    BY <1>6, <2>1 DEF Recurs, XorAt, x
  <2>2. CASE a # 0
    <3>1. a \in 1 .. MaxUint16 /\ a \div 2 \in UInt16
      BY <2>2, HalfWord
    <3>2. f[a] = G[a][f[p[a]]]
      BY <1>6, <3>1 DEF Recurs
    <3>3. f[a \div 2] \in S
      BY <1>0, <1>6, <3>1
    <3>4. f[a] = F(a, f[a \div 2])
      <4>1. p[a] = a \div 2
        BY <1>4, <3>1
      <4>2. G[a][f[a \div 2]] = F(a, f[a \div 2])
        BY <1>5, <3>1, <3>3
      <4> QED  BY <3>2, <4>1, <4>2
    <3> QED  BY <2>2, <3>4 DEF XorAt, F
  <2> QED  BY <2>1, <2>2
<1>8. f \in [UInt16 -> S]
  BY <1>0, <1>6
<1> QED  BY <1>7, <1>8 DEF IsXor

\* and Xor is one.
LEMMA XorEquation == \A a, b \in UInt16 : Xor[a][b] = XorAt(Xor, a, b)
<1>1. Xor = CHOOSE f : IsXor(f)
  BY DEF Xor, IsXor, XorAt
<1>2. IsXor(Xor)
  BY <1>1, XorExists
<1> QED  BY <1>2 DEF IsXor

\* Numbers below a bound stay below it,
XorBelow(n) == \A a, b \in UInt16 : a < n /\ b < n => Xor[a][b] \in Nat /\ Xor[a][b] < n

\* and so do those below twice the bound.
LEMMA XorTwice ==
  ASSUME NEW n \in Nat, XorBelow(n)
  PROVE  XorBelow(2 * n)
<1> SUFFICES ASSUME NEW a \in UInt16, NEW b \in UInt16, a < 2 * n, b < 2 * n
             PROVE  Xor[a][b] \in Nat /\ Xor[a][b] < 2 * n
  BY DEF XorBelow
<1>0. a \in Nat /\ b \in Nat
  BY HalfWord
<1>1. CASE a = 0
  BY <1>0, <1>1, XorEquation DEF XorAt
<1>2. CASE a # 0
  <2> DEFINE h == Xor[a \div 2][b \div 2]
  <2>1. a \div 2 < n /\ b \div 2 < n
    BY <1>0
  <2>2. h \in Nat /\ h < n
    BY <2>1, HalfWord DEF XorBelow
  <2>3. Xor[a][b] = ((a + b) % 2) + 2 * h
    BY <1>2, XorEquation DEF XorAt
  <2>4. (a + b) % 2 \in {0, 1}
    BY <1>0
  <2> HIDE DEF h
  <2> QED  BY <2>2, <2>3, <2>4
<1> QED  BY <1>1, <1>2

\* Four bits at a time.
LEMMA XorNibble ==
  ASSUME NEW n \in Nat, XorBelow(n)
  PROVE  XorBelow(16 * n)
<1>1. XorBelow(2 * n)
  BY XorTwice
<1>2. XorBelow(4 * n)
  <2>1. 2 * n \in Nat /\ 4 * n = 2 * (2 * n)
    OBVIOUS
  <2> QED  BY <1>1, <2>1, XorTwice
<1>3. XorBelow(8 * n)
  <2>1. 4 * n \in Nat /\ 8 * n = 2 * (4 * n)
    OBVIOUS
  <2> QED  BY <1>2, <2>1, XorTwice
<1>4. 8 * n \in Nat /\ 16 * n = 2 * (8 * n)
  OBVIOUS
<1> QED  BY <1>3, <1>4, XorTwice

\* The exclusive or of bytes is a byte, and of words a word.
LEMMA XorType ==
  /\ \A a, b \in UInt16 : Xor[a][b] \in UInt16
  /\ \A a, b \in UInt8 : Xor[a][b] \in UInt8
<1>1. XorBelow(1)
  <2>1. \A a \in UInt16 : a < 1 => a = 0
    BY HalfWord
  <2>2. 0 \in UInt16 => Xor[0][0] = 0
    BY XorEquation DEF XorAt
  <2> QED  BY <2>1, <2>2 DEF XorBelow
<1>2. XorBelow(16)
  BY <1>1, XorNibble
<1>3. XorBelow(256)
  BY <1>2, XorNibble
<1>4. XorBelow(4096)
  BY <1>3, XorNibble
<1>5. XorBelow(65536)
  BY <1>4, XorNibble
<1>6. \A a, b \in UInt16 : Xor[a][b] \in UInt16
  BY <1>5, WordSize DEF XorBelow
<1>7. \A a, b \in UInt8 : Xor[a][b] \in UInt8
  BY <1>3, WordSize DEF XorBelow
<1> QED  BY <1>6, <1>7

\* f is the run of a loop of n rounds: from x, the round i is G[i].
Loops(f, n, x, G) == f[0] = x /\ \A i \in 1 .. n : f[i] = G[i][f[i - 1]]

\* There is such an f, if every round maps S to S.
LEMMA LoopExists ==
  ASSUME NEW n \in Nat, NEW S, NEW x \in S, NEW G \in [1 .. n -> [S -> S]]
  PROVE  \E f \in [0 .. n -> S] : Loops(f, n, x, G)
<1> DEFINE p == [i \in 1 .. n |-> i - 1]
<1>1. \A i \in 1 .. n : p[i] \in 0 .. i - 1 /\ p[i] = i - 1
  OBVIOUS
<1> HIDE DEF p
<1>2. PICK f \in [0 .. n -> S] : Recurs(f, n, x, p, G)
  BY <1>1, RecursionExists
<1> QED  BY <1>1, <1>2 DEF Recurs, Loops

\* What holds before the first round and is kept by every round holds throughout.
LEMMA LoopStays ==
  ASSUME NEW n \in Nat, NEW S, NEW f, f[0] \in S,
         \A i \in 1 .. n : f[i - 1] \in S => f[i] \in S
  PROVE  \A i \in 0 .. n : f[i] \in S
<1> DEFINE T == {i \in Nat : i <= n => f[i] \in S}
<1>1. 0 \in T
  OBVIOUS
<1>2. ASSUME NEW i \in Nat, i \in T
      PROVE  i + 1 \in T
  <2> SUFFICES ASSUME i + 1 <= n PROVE f[i + 1] \in S
    OBVIOUS
  <2>1. i + 1 \in 1 .. n /\ (i + 1) - 1 = i /\ f[i] \in S
    BY <1>2
  <2> QED  BY <2>1
<1> HIDE DEF T
<1>3. \A i \in Nat : i \in T
  BY <1>1, <1>2, Induction
<1> QED  BY <1>3 DEF T

\* The shifts of a byte,
ShiftAt(f, b, n) == IF n = 0 THEN b ELSE Xor[f[n - 1] \div 2][(f[n - 1] % 2) * 40961]

IsShift(f, b) == f = [n \in 0 .. 8 |-> ShiftAt(f, b, n)]

\* The table of the CRC holds words (rtu.go, CRC16).
LEMMA CRCTableType == CRCTable \in [UInt8 -> UInt16]
<1> DEFINE F(c) == Xor[c \div 2][(c % 2) * 40961]
<1>1. ASSUME NEW c \in UInt16
      PROVE  F(c) \in UInt16
  <2>1. (c % 2) * 40961 \in UInt16
    <3>1. c % 2 \in {0, 1}
      BY HalfWord
    <3>2. 0 \in UInt16 /\ 40961 \in UInt16
      BY WordSize
    <3> QED  BY <3>1, <3>2
  <2> QED  BY <2>1, HalfWord, XorType
<1>2. ASSUME NEW b \in UInt8
      PROVE  (CHOOSE f : IsShift(f, b))[8] \in UInt16
  <2> DEFINE G == [n \in 1 .. 8 |-> [c \in UInt16 |-> F(c)]]
  <2>0. b \in UInt16
    BY WordSize
  <2>1. G \in [1 .. 8 -> [UInt16 -> UInt16]]
    BY <1>1
  <2>2. \A n \in 1 .. 8, c \in UInt16 : G[n][c] = F(c)
    OBVIOUS
  <2> HIDE DEF G
  <2>3. PICK g \in [0 .. 8 -> UInt16] : Loops(g, 8, b, G)
    BY <2>0, <2>1, LoopExists
  <2>4. \A n \in 1 .. 8 : g[n] = F(g[n - 1])
    <3> SUFFICES ASSUME NEW n \in 1 .. 8 PROVE g[n] = F(g[n - 1])
      OBVIOUS
    <3>1. g[n - 1] \in UInt16
      BY <2>3
    <3> HIDE DEF F
    <3> QED  BY <2>2, <2>3, <3>1 DEF Loops
  <2>5. \A n \in 0 .. 8 : g[n] = ShiftAt(g, b, n)
    <3> SUFFICES ASSUME NEW n \in 0 .. 8 PROVE g[n] = ShiftAt(g, b, n)
      OBVIOUS
    <3>1. CASE n = 0
      BY <2>3, <3>1 DEF ShiftAt, Loops
    <3>2. CASE n \in 1 .. 8
      BY <2>4, <3>2 DEF ShiftAt
    <3> QED  BY <3>1, <3>2
  <2>6. IsShift(g, b)
    BY <2>3, <2>5 DEF IsShift
  <2> DEFINE f == CHOOSE f : IsShift(f, b)
  <2>7. IsShift(f, b)
    BY <2>6
  <2> HIDE DEF f
  <2>8. f[0] = b /\ \A n \in 1 .. 8 : f[n] = F(f[n - 1])
    <3>1. \A n \in 0 .. 8 : f[n] = ShiftAt(f, b, n)
      BY <2>7 DEF IsShift
    <3> QED  BY <3>1 DEF ShiftAt
  <2>9. \A n \in 1 .. 8 : f[n - 1] \in UInt16 => f[n] \in UInt16
    BY <1>1, <2>8
  <2>10. \A n \in 0 .. 8 : f[n] \in UInt16
    BY <2>0, <2>8, <2>9, LoopStays
  <2> QED  BY <2>10 DEF f
<1>3. CRCTable = [b \in UInt8 |-> (CHOOSE f : IsShift(f, b))[8]]
  BY DEF CRCTable, IsShift, ShiftAt
<1> QED  BY <1>2, <1>3

\* and the rounds of the checksum.
CRCAt(f, data, i) ==
  IF i = 0 THEN MaxUint16
  ELSE Xor[f[i - 1] \div 256][CRCTable[Xor[Byte(f[i - 1])][data[i]]]]

IsCRC(f, data) == f = [i \in 0 .. Len(data) |-> CRCAt(f, data, i)]

\* The bytes of a word.
LEMMA BytesOfWord ==
  ASSUME NEW c \in UInt16
  PROVE  /\ Byte(c) \in UInt8 /\ Byte(c) \in UInt16
         /\ c \div 256 \in UInt8 /\ c \div 256 \in UInt16
         /\ Byte(c \div 256) = c \div 256
<1>1. c \in Nat /\ c < 65536
  BY WordSize
<1>2. /\ Byte(c) \in Nat /\ Byte(c) < 256
      /\ c \div 256 \in Nat /\ c \div 256 < 256
      /\ Byte(c \div 256) = c \div 256
  BY <1>1 DEF Byte
<1> QED  BY <1>2, WordSize

\* The CRC of any bytes is a word.
LEMMA CRCType ==
  ASSUME NEW data \in Seq(UInt8)
  PROVE  CRC16(data) \in UInt16
<1> DEFINE F(i, c) == Xor[c \div 256][CRCTable[Xor[Byte(c)][data[i]]]]
           k == Len(data)
           G == [i \in 1 .. k |-> [c \in UInt16 |-> F(i, c)]]
<1>0. k \in Nat /\ MaxUint16 \in UInt16
  BY Ranges
<1>1. ASSUME NEW i \in 1 .. k, NEW c \in UInt16
      PROVE  F(i, c) \in UInt16
  <2>1. data[i] \in UInt8
    OBVIOUS
  <2>2. Xor[Byte(c)][data[i]] \in UInt8
    BY <2>1, BytesOfWord, XorType
  <2>3. CRCTable[Xor[Byte(c)][data[i]]] \in UInt16
    BY <2>2, CRCTableType
  <2> QED  BY <2>3, BytesOfWord, XorType
<1> HIDE DEF F
<1>2. G \in [1 .. k -> [UInt16 -> UInt16]]
  BY <1>1
<1>3. \A i \in 1 .. k, c \in UInt16 : G[i][c] = F(i, c)
  OBVIOUS
<1> HIDE DEF G
<1>4. PICK g \in [0 .. k -> UInt16] : Loops(g, k, MaxUint16, G)
  <2> HIDE DEF k
  <2> QED  BY <1>0, <1>2, LoopExists
<1>5. ASSUME NEW i \in 0 .. k
      PROVE  g[i] = CRCAt(g, data, i)
  <2>1. CASE i = 0
    BY <1>4, <2>1 DEF CRCAt, Loops
  <2>2. CASE i \in 1 .. k
    <3>1. g[i - 1] \in UInt16
      BY <1>0, <1>4, <2>2
    <3>2. g[i] = F(i, g[i - 1])
      BY <1>3, <1>4, <2>2, <3>1 DEF Loops
    <3>3. i # 0
      BY <2>2
    <3> QED  BY <3>2, <3>3 DEF CRCAt, F
  <2> QED  BY <1>0, <2>1, <2>2
<1>6. IsCRC(g, data)
  BY <1>4, <1>5 DEF IsCRC
<1> DEFINE f == CHOOSE f : IsCRC(f, data)
<1>7. IsCRC(f, data)
  BY <1>6
<1>8. CRC16(data) = f[k]
  BY DEF CRC16, IsCRC, CRCAt
<1> HIDE DEF f
<1>9. \A i \in 0 .. k : f[i] = CRCAt(f, data, i)
  BY <1>7 DEF IsCRC
<1>10. f[0] \in UInt16
  BY <1>0, <1>9 DEF CRCAt
<1>11. ASSUME NEW i \in 1 .. k, f[i - 1] \in UInt16
       PROVE  f[i] \in UInt16
  <2>1. i # 0 /\ i \in 0 .. k
    BY <1>0
  <2>2. f[i] = F(i, f[i - 1])
    BY <1>9, <2>1 DEF CRCAt, F
  <2> QED  BY <1>1, <1>11, <2>2
<1>12. \A i \in 0 .. k : f[i] \in UInt16
  <2> HIDE DEF k
  <2> QED  BY <1>0, <1>10, <1>11, LoopStays
<1>13. k \in 0 .. k
  BY <1>0
<1> QED  BY <1>8, <1>12, <1>13

\* A frame with its checksum is two bytes longer, starts as it did, and is
\* found correct.
LEMMA Checksum ==
  ASSUME NEW data \in Seq(UInt8)
  PROVE  LET frame == AppendCRC(data)
         IN  /\ frame \in Seq(UInt8) /\ Len(frame) = Len(data) + 2
             /\ \A i \in 1 .. Len(data) : frame[i] = data[i]
             /\ SubSeq(frame, 1, Len(data)) = data
             /\ Len(data) >= 2 => VerifyCRC(frame)
<1> DEFINE c == CRC16(data)
           e == <<Byte(c), Byte(c \div 256)>>
           frame == AppendCRC(data)
<1>1. c \in UInt16
  BY CRCType
<1> HIDE DEF c
<1>2. e \in Seq(UInt8) /\ Len(e) = 2
  <2>1. Byte(c) \in UInt8 /\ Byte(c \div 256) \in UInt8
    BY <1>1, BytesOfWord
  <2> QED  BY <2>1
<1>3. frame = data \o e
  BY DEF AppendCRC, c
<1> HIDE DEF e, frame
<1>4. frame \in Seq(UInt8) /\ Len(frame) = Len(data) + 2
  <2>1. data \o e \in Seq(UInt8) /\ Len(data \o e) = Len(data) + Len(e)
    BY <1>2, ConcatProperties
  <2> QED  BY <1>2, <1>3, <2>1
<1>5. \A i \in 1 .. Len(data) : frame[i] = data[i]
  <2>1. ASSUME NEW i \in 1 .. Len(data)
        PROVE  (data \o e)[i] = data[i]
    BY <1>2
  <2> QED  BY <1>3, <2>1
<1>6. SubSeq(frame, 1, Len(data)) = data
  <2>1. Len(data) \in Nat /\ Len(data) <= Len(frame)
    BY <1>4
  <2>2. SubSeq(frame, 1, Len(data)) = [i \in 1 .. Len(data) |-> frame[i]]
    BY <1>4, <2>1
  <2>3. data = [i \in 1 .. Len(data) |-> data[i]]
    OBVIOUS
  <2> QED  BY <1>5, <2>2, <2>3
<1>7. ASSUME Len(data) >= 2
      PROVE  VerifyCRC(frame)
  <2>1. Len(frame) - 2 = Len(data) /\ Len(frame) >= 4
    BY <1>4, <1>7
  <2> QED  BY <1>6, <2>1 DEF VerifyCRC, frame
<1> QED  BY <1>4, <1>5, <1>6, <1>7 DEF frame

-----------------------------------------------------------------------------
(***************************************************************************)
(* Bytes that are read from a line.                                        *)
(***************************************************************************)

\* What is left of a line.
LEMMA DropType ==
  ASSUME NEW S, NEW line \in Seq(S), NEW k \in 0 .. Len(line)
  PROVE  /\ Drop(line, k) \in Seq(S) /\ Len(Drop(line, k)) = Len(line) - k
         /\ \A i \in 1 .. Len(line) - k : Drop(line, k)[i] = line[k + i]
<1>1. Len(line) \in Nat /\ k \in Nat /\ k <= Len(line)
  OBVIOUS
<1>2. \A i \in k + 1 .. Len(line) : line[i] \in S
  OBVIOUS
<1> DEFINE d == SubSeq(line, k + 1, Len(line))
<1>3. /\ d \in Seq(S)
      /\ Len(d) = IF k + 1 <= Len(line) THEN Len(line) - (k + 1) + 1 ELSE 0
      /\ \A i \in 1 .. Len(line) - (k + 1) + 1 : d[i] = line[(k + 1) + i - 1]
  <2>1. k + 1 \in Int /\ Len(line) \in Int
    BY <1>1
  <2> QED  BY <1>2, <2>1, SubSeqProperties
<1> HIDE DEF d
<1>4. Len(d) = Len(line) - k
  BY <1>1, <1>3
<1>5. \A i \in 1 .. Len(line) - k : d[i] = line[k + i]
  BY <1>1, <1>3
<1> QED  BY <1>3, <1>4, <1>5 DEF d, Drop

\* A line of which nothing is left, and one of which all is.
LEMMA DropEnds ==
  ASSUME NEW S, NEW line \in Seq(S)
  PROVE  Drop(line, 0) = line /\ Drop(line, Len(line)) = << >>
<1>1. Drop(line, 0) = line
  BY SubSeqFull DEF Drop
<1>2. Drop(line, Len(line)) = << >>
  <2>1. Len(line) \in 0 .. Len(line) /\ Len(line) - Len(line) = 0
    OBVIOUS
  <2>2. Drop(line, Len(line)) \in Seq(S) /\ Len(Drop(line, Len(line))) = 0
    BY <2>1, DropType
  <2> QED  BY <2>2, EmptySeq
<1> QED  BY <1>1, <1>2

\* Reading moves bytes, in their order.
LEMMA Moved ==
  ASSUME NEW s \in Seq(UInt8), NEW line \in Seq(UInt8), NEW n \in 0 .. Len(line)
  PROVE  /\ s \o SubSeq(line, 1, n) \in Seq(UInt8) /\ Drop(line, n) \in Seq(UInt8)
         /\ (s \o SubSeq(line, 1, n)) \o Drop(line, n) = s \o line
<1>1. Len(line) \in Nat /\ n \in Nat /\ n <= Len(line)
  OBVIOUS
<1>2. SubSeq(line, 1, n) \in Seq(UInt8)
  <2>1. 1 \in Int /\ n \in Int /\ \A i \in 1 .. n : line[i] \in UInt8
    BY <1>1
  <2> QED  BY <2>1, SubSeqProperties
<1>3. Drop(line, n) \in Seq(UInt8)
  BY DropType
<1>4. SubSeq(line, 1, n) \o Drop(line, n) = line
  <2>1. 1 \in 1 .. Len(line) + 1 /\ n \in 1 - 1 .. Len(line) /\ Len(line) \in n .. Len(line)
    BY <1>1
  <2>2. SubSeq(line, 1, n) \o SubSeq(line, n + 1, Len(line)) = SubSeq(line, 1, Len(line))
    BY <2>1, ConcatAdjacentSubSeq
  <2> QED  BY <2>2, SubSeqFull DEF Drop
<1>5. (s \o SubSeq(line, 1, n)) \o Drop(line, n) = s \o (SubSeq(line, 1, n) \o Drop(line, n))
  <2>1. \A u, v \in Seq(UInt8) : (s \o u) \o v = s \o (u \o v)
    BY ConcatAssociative, SMTT(20)
  <2> QED  BY <1>2, <1>3, <2>1
<1>6. s \o SubSeq(line, 1, n) \in Seq(UInt8)
  BY <1>2, ConcatProperties
<1> QED  BY <1>3, <1>4, <1>5, <1>6

\* The two parts of a whole.
LEMMA Parts ==
  ASSUME NEW S, NEW s \in Seq(S), NEW t \in Seq(S)
  PROVE  /\ s \o t \in Seq(S) /\ Len(s \o t) = Len(s) + Len(t)
         /\ Len(s) \in Nat /\ Len(t) \in Nat
         /\ \A i \in 1 .. Len(s) : (s \o t)[i] = s[i]
         /\ \A i \in 1 .. Len(t) : (s \o t)[Len(s) + i] = t[i]
         /\ t = << >> => s \o t = s
         /\ t = << >> <=> Len(t) = 0
         /\ s = << >> => s \o t = t
<1>1. /\ s \o t \in Seq(S) /\ Len(s \o t) = Len(s) + Len(t)
      /\ \A i \in 1 .. Len(s) + Len(t) : (s \o t)[i] = IF i <= Len(s) THEN s[i] ELSE t[i - Len(s)]
  BY ConcatProperties
<1>2. Len(s) \in Nat /\ Len(t) \in Nat
  OBVIOUS
<1>3. \A i \in 1 .. Len(s) : (s \o t)[i] = s[i]
  BY <1>1, <1>2
<1>4. ASSUME NEW i \in 1 .. Len(t)
      PROVE  (s \o t)[Len(s) + i] = t[i]
  <2>1. Len(s) + i \in 1 .. Len(s) + Len(t) /\ ~(Len(s) + i <= Len(s)) /\ (Len(s) + i) - Len(s) = i
    BY <1>2
  <2> QED  BY <1>1, <2>1
<1>5. (t = << >> => s \o t = s) /\ (s = << >> => s \o t = t)
  <2>1. s \o << >> = s /\ << >> \o t = t
    BY ConcatEmptySeq
  <2> QED  BY <2>1
<1>6. t = << >> <=> Len(t) = 0
  BY EmptySeq
<1> QED  BY <1>1, <1>2, <1>3, <1>4, <1>5, <1>6

\* The end of the end of a line is an end of the line.
LEMMA DropTail ==
  ASSUME NEW s \in Seq(UInt8), NEW t \in Seq(UInt8), NEW line \in Seq(UInt8),
         NEW k \in 0 .. Len(line), NEW j \in 0 .. Len(t), s \o t = Drop(line, k)
  PROVE  /\ k + Len(s) + j \in 0 .. Len(line)
         /\ Drop(t, j) = Drop(line, k + Len(s) + j)
<1>1. /\ Len(s) + Len(t) = Len(line) - k
      /\ \A i \in 1 .. Len(line) - k : (s \o t)[i] = line[k + i]
  <2>1. /\ Len(Drop(line, k)) = Len(line) - k
        /\ \A i \in 1 .. Len(line) - k : Drop(line, k)[i] = line[k + i]
    BY DropType
  <2>2. Len(s \o t) = Len(s) + Len(t)
    BY Parts
  <2> QED  BY <2>1, <2>2
<1>2. Len(s) \in Nat /\ Len(t) \in Nat /\ Len(line) \in Nat /\ k \in Nat /\ j \in Nat /\ j <= Len(t)
  OBVIOUS
<1> DEFINE m == k + Len(s) + j
<1>3. m \in 0 .. Len(line) /\ Len(line) - m = Len(t) - j
  BY <1>1, <1>2
<1>4. /\ Drop(t, j) \in Seq(UInt8) /\ Len(Drop(t, j)) = Len(t) - j
      /\ \A i \in 1 .. Len(t) - j : Drop(t, j)[i] = t[j + i]
  BY DropType
<1> HIDE DEF m
<1>5. /\ Drop(line, m) \in Seq(UInt8) /\ Len(Drop(line, m)) = Len(line) - m
      /\ \A i \in 1 .. Len(line) - m : Drop(line, m)[i] = line[m + i]
  BY <1>3, DropType
<1>6. ASSUME NEW i \in 1 .. Len(t) - j
      PROVE  Drop(t, j)[i] = Drop(line, m)[i]
  <2>1. j + i \in 1 .. Len(t) /\ Len(s) + (j + i) \in 1 .. Len(line) - k
    BY <1>1, <1>2
  <2>2. (s \o t)[Len(s) + (j + i)] = t[j + i]
    BY <2>1, Parts
  <2>3. (s \o t)[Len(s) + (j + i)] = line[k + (Len(s) + (j + i))]
    BY <1>1, <2>1
  <2>4. k + (Len(s) + (j + i)) = m + i
    BY <1>2 DEF m
  <2> QED  BY <1>3, <1>4, <1>5, <2>2, <2>3, <2>4
<1>7. Drop(t, j) = Drop(line, m)
  <2>1. Len(Drop(t, j)) = Len(Drop(line, m))
    BY <1>3, <1>4, <1>5
  <2>2. \A i \in 1 .. Len(Drop(t, j)) : Drop(t, j)[i] = Drop(line, m)[i]
    BY <1>4, <1>6
  <2> QED  BY <1>4, <1>5, <2>1, <2>2, SeqEqual
<1> QED  BY <1>3, <1>7 DEF m

-----------------------------------------------------------------------------
(***************************************************************************)
(* Frames, and where a reader that has some of one stops.                  *)
(***************************************************************************)
RequestFrame(q) == AppendCRC(<<q.slave>> \o BuildPDU(q))

AnswerFrame(q, o) == AppendCRC(<<q.slave>> \o Response(BuildPDU(q), o))

\* The places of a PDU in its frame.
LEMMA FramePlaces ==
  ASSUME NEW unit \in UInt8, NEW p \in Seq(UInt8)
  PROVE  LET frame == AppendCRC(<<unit>> \o p)
         IN  /\ frame \in Seq(UInt8) /\ Len(frame) = Len(p) + 3
             /\ frame[1] = unit /\ \A i \in 1 .. Len(p) : frame[i + 1] = p[i]
             /\ Len(p) >= 1 => VerifyCRC(frame)
             /\ InFrame(frame) = p
<1> DEFINE data == <<unit>> \o p
           frame == AppendCRC(data)
<1>1. <<unit>> \in Seq(UInt8) /\ Len(<<unit>>) = 1 /\ <<unit>>[1] = unit
  OBVIOUS
<1>2. /\ data \in Seq(UInt8) /\ Len(data) = 1 + Len(p) /\ Len(p) \in Nat
      /\ data[1] = unit /\ \A i \in 1 .. Len(p) : data[1 + i] = p[i]
  <2>1. 1 \in 1 .. 1
    OBVIOUS
  <2> QED  BY <1>1, <2>1, Parts
<1> HIDE DEF data
<1>3. /\ frame \in Seq(UInt8) /\ Len(frame) = Len(data) + 2
      /\ \A i \in 1 .. Len(data) : frame[i] = data[i]
      /\ Len(data) >= 2 => VerifyCRC(frame)
  BY <1>2, Checksum
<1> HIDE DEF frame
<1>4. frame[1] = unit /\ \A i \in 1 .. Len(p) : frame[i + 1] = p[i]
  <2>1. frame[1] = unit
    BY <1>2, <1>3
  <2>2. ASSUME NEW i \in 1 .. Len(p)
        PROVE  frame[i + 1] = p[i]
    <3>1. i + 1 \in 1 .. Len(data) /\ i + 1 = 1 + i
      BY <1>2
    <3> QED  BY <1>2, <1>3, <3>1
  <2> QED  BY <2>1, <2>2
<1>5. InFrame(frame) = p
  <2>1. /\ 2 \in Int /\ Len(frame) - 2 \in Int
        /\ (2 <= Len(frame) - 2 => (Len(frame) - 2) - 2 + 1 = Len(p))
        /\ (~(2 <= Len(frame) - 2) => Len(p) = 0)
        /\ (Len(frame) - 2) - 2 + 1 = Len(p)
    BY <1>2, <1>3
  <2>2. \A i \in 2 .. Len(frame) - 2 : frame[i] \in UInt8
    BY <1>2, <1>3
  <2> DEFINE d == SubSeq(frame, 2, Len(frame) - 2)
  <2>3. /\ d \in Seq(UInt8)
        /\ Len(d) = IF 2 <= Len(frame) - 2 THEN (Len(frame) - 2) - 2 + 1 ELSE 0
        /\ \A i \in 1 .. (Len(frame) - 2) - 2 + 1 : d[i] = frame[2 + i - 1]
    BY <2>1, <2>2, SubSeqProperties
  <2> HIDE DEF d
  <2>4. Len(d) = Len(p)
    BY <2>1, <2>3
  <2>5. ASSUME NEW i \in 1 .. Len(d)
        PROVE  d[i] = p[i]
    <3>1. i \in 1 .. (Len(frame) - 2) - 2 + 1 /\ 2 + i - 1 = i + 1 /\ i \in 1 .. Len(p)
      BY <2>1, <2>4
    <3> QED  BY <1>4, <2>3, <3>1
  <2>6. d = p
    BY <2>3, <2>4, <2>5, SeqEqual
  <2> QED  BY <2>6 DEF d, InFrame
<1> QED  BY <1>2, <1>3, <1>4, <1>5 DEF frame, data

\* How long the frames are, as their own bytes say.
LEMMA RequestFramePlaces ==
  ASSUME NEW q \in MasterRequest, ValidateProtocol(q)
  PROVE  LET frame == RequestFrame(q)
         IN  /\ frame \in Seq(UInt8) /\ frame[1] = q.slave /\ q.slave \in ValidSlave
             /\ VerifyCRC(frame) /\ InFrame(frame) = BuildPDU(q)
             /\ \/ frame[2] \in 1 .. 6 /\ Len(frame) = 8
                \/ frame[2] \in MultiCodes /\ frame[7] \in Nat /\ Len(frame) = 9 + frame[7]
<1> DEFINE p == BuildPDU(q)
           frame == RequestFrame(q)
<1>1. q.slave \in UInt8 /\ q.slave \in ValidSlave /\ q.fc \in FunctionCodes
  BY DEF MasterRequest, ValidateProtocol
<1>2. Starts(q, p) /\ RequestSize(p)
  BY RequestPDU
<1> HIDE DEF p
<1>3. /\ p \in Seq(UInt8) /\ Len(p) >= 5 /\ Len(p) \in Nat /\ p[1] = q.fc
      /\ Len(p) = IF p[1] \in MultiCodes THEN 6 + p[6] ELSE 5
  <2>1. p \in Seq(UInt8) /\ Len(p) >= 5 /\ Code(p) = q.fc
    BY <1>2 DEF Starts
  <2>2. Code(p) = p[1]
    BY <2>1 DEF Code
  <2> QED  BY <1>2, <2>1, <2>2 DEF RequestSize
<1>4. /\ frame \in Seq(UInt8) /\ Len(frame) = Len(p) + 3
      /\ frame[1] = q.slave /\ \A i \in 1 .. Len(p) : frame[i + 1] = p[i]
      /\ Len(p) >= 1 => VerifyCRC(frame)
      /\ InFrame(frame) = p
  BY <1>1, <1>3, FramePlaces DEF RequestFrame, p
<1> HIDE DEF frame
<1>5. frame[2] = p[1]
  <2>1. 1 \in 1 .. Len(p) /\ 1 + 1 = 2
    BY <1>3
  <2> QED  BY <1>4, <2>1
<1>6. CASE p[1] \in MultiCodes
  <2>3. Len(p) = 6 + p[6]
    BY <1>3, <1>6
  <2>4. 6 \in 1 .. Len(p)
    <3>1. WellFormed(p)
      BY RequestPDU DEF p
    <3>2. Code(p) \in MultiCodes /\ Code(p) \notin ReadCodes /\ Code(p) # 5 /\ Code(p) # 6
      BY <1>3, <1>6 DEF Code, MultiCodes, ReadCodes
    <3>3. Len(p) >= 6
      BY <3>1, <3>2 DEF WellFormed
    <3> QED  BY <1>3, <3>3
  <2>5. frame[7] = p[6] /\ p[6] \in Nat
    <3>1. 6 + 1 = 7 /\ p[6] \in UInt8
      BY <1>3, <2>4
    <3> QED  BY <1>4, <2>4, <3>1, Ranges
  <2>6. frame[2] \in MultiCodes /\ frame[7] \in Nat /\ Len(frame) = 9 + frame[7]
    BY <1>3, <1>4, <1>5, <1>6, <2>3, <2>5
  <2>7. VerifyCRC(frame)
    BY <1>3, <1>4
  <2> QED  BY <1>1, <1>4, <2>6, <2>7 DEF p, frame
<1>7. CASE p[1] \notin MultiCodes
  <2>1. Len(frame) = 8
    BY <1>3, <1>4, <1>7
  <2>2. frame[2] \in 1 .. 6
    BY <1>1, <1>3, <1>5, <1>7 DEF FunctionCodes
  <2>3. VerifyCRC(frame)
    BY <1>3, <1>4
  <2> QED  BY <1>1, <1>4, <2>1, <2>2, <2>3 DEF p, frame
<1> QED  BY <1>6, <1>7

\* The same of the answers: an exception, the values of a read, an echo.
LEMMA AnswerFramePlaces ==
  ASSUME NEW q \in MasterRequest, ValidateProtocol(q), NEW o, Fits(q, o)
  PROVE  LET frame == AnswerFrame(q, o)
         IN  /\ frame \in Seq(UInt8) /\ frame[1] = q.slave
             /\ VerifyCRC(frame) /\ InFrame(frame) = Response(BuildPDU(q), o)
             /\ \/ frame[2] >= 128 /\ Len(frame) = 5
                \/ frame[2] \in ReadCodes /\ frame[3] \in Nat /\ Len(frame) = 5 + frame[3]
                \/ frame[2] \in FunctionCodes \ ReadCodes /\ Len(frame) = 8
<1> DEFINE p == Response(BuildPDU(q), o)
           frame == AnswerFrame(q, o)
<1>1. q.slave \in UInt8
  BY DEF MasterRequest
<1>2. p \in Seq(UInt8) /\ ResponseSize(p) /\ Len(p) \in Nat
  BY ResponsePDU
<1>3. frame = AppendCRC(<<q.slave>> \o p)
  BY DEF AnswerFrame
<1> HIDE DEF p, frame
<1>4. /\ frame \in Seq(UInt8) /\ Len(frame) = Len(p) + 3
      /\ frame[1] = q.slave /\ \A i \in 1 .. Len(p) : frame[i + 1] = p[i]
      /\ Len(p) >= 1 => VerifyCRC(frame)
      /\ InFrame(frame) = p
  <2>1. p \in Seq(UInt8) /\ q.slave \in UInt8
    BY <1>1, <1>2
  <2> QED  BY <1>3, <2>1, FramePlaces, Zenon
<1>5. Len(p) >= 2
  BY <1>2 DEF ResponseSize
<1>6. frame[2] = p[1] /\ frame[3] = p[2] /\ p[2] \in Nat
  <2>1. 1 \in 1 .. Len(p) /\ 1 + 1 = 2 /\ 2 \in 1 .. Len(p) /\ 2 + 1 = 3
    BY <1>2, <1>5
  <2>2. p[2] \in UInt8
    BY <1>2, <2>1
  <2> QED  BY <1>4, <2>1, <2>2, Ranges
<1>7. \/ frame[2] >= 128 /\ Len(frame) = 5
      \/ frame[2] \in ReadCodes /\ frame[3] \in Nat /\ Len(frame) = 5 + frame[3]
      \/ frame[2] \in FunctionCodes \ ReadCodes /\ Len(frame) = 8
  <2>1. \/ p[1] >= 128 /\ Len(p) = 2
        \/ p[1] \in ReadCodes /\ Len(p) = 2 + p[2]
        \/ p[1] \in FunctionCodes \ ReadCodes /\ Len(p) = 5
    BY <1>2 DEF ResponseSize
  <2>2. CASE p[1] >= 128 /\ Len(p) = 2
    BY <1>4, <1>6, <2>2
  <2>3. CASE p[1] \in ReadCodes /\ Len(p) = 2 + p[2]
    <3>1. Len(frame) = 5 + p[2]
      BY <1>4, <1>6, <2>3
    <3> QED  BY <1>6, <2>3, <3>1
  <2>4. CASE p[1] \in FunctionCodes \ ReadCodes /\ Len(p) = 5
    BY <1>4, <1>6, <2>4
  <2> QED  BY <2>1, <2>2, <2>3, <2>4
<1>8. VerifyCRC(frame)
  BY <1>2, <1>4, <1>5
<1> QED  BY <1>4, <1>7, <1>8 DEF p, frame

\* A reader that has s of a frame, of which t is to come, wants a part of t.
Wants(wanted, s, t) ==
  IF t = << >> THEN wanted - Len(s) = 0 ELSE wanted - Len(s) \in 1 .. Len(t)

\* It does, if it wants the whole frame or more of it than it has.
LEMMA WantsPart ==
  ASSUME NEW s \in Seq(UInt8), NEW t \in Seq(UInt8), NEW wanted,
         \/ wanted = Len(s \o t)
         \/ wanted \in Nat /\ Len(s) < wanted /\ wanted <= Len(s \o t)
  PROVE  Wants(wanted, s, t)
<1>1. /\ Len(s) \in Nat /\ Len(t) \in Nat /\ Len(s) + Len(t) = Len(s \o t)
      /\ t = << >> <=> Len(t) = 0
  BY Parts
<1> QED  BY <1>1 DEF Wants

\* Of a request,
LEMMA RequestCut ==
  ASSUME NEW q \in MasterRequest, ValidateProtocol(q),
         NEW s \in Seq(UInt8), NEW t \in Seq(UInt8), s \o t = RequestFrame(q)
  PROVE  Wants(WantedRequest(s), s, t)
<1> DEFINE frame == RequestFrame(q)
           w == WantedRequest(s)
<1>1. \/ frame[2] \in 1 .. 6 /\ Len(frame) = 8
      \/ frame[2] \in MultiCodes /\ frame[7] \in Nat /\ Len(frame) = 9 + frame[7]
  BY RequestFramePlaces
<1>2. Len(s) \in Nat /\ Len(s) <= Len(frame) /\ \A i \in 1 .. Len(s) : s[i] = frame[i]
  <2>1. /\ Len(s) \in Nat /\ Len(t) \in Nat /\ Len(s) + Len(t) = Len(frame)
        /\ \A i \in 1 .. Len(s) : s[i] = frame[i]
    BY Parts
  <2> QED  BY <2>1
<1> HIDE DEF frame
<1>3. w = Len(frame) \/ (w \in Nat /\ Len(s) < w /\ w <= Len(frame))
  <2>1. CASE Len(s) < 2
    <3>1. w = 2
      BY <1>2, <2>1 DEF WantedRequest
    <3> HIDE DEF w
    <3> QED  BY <1>1, <1>2, <2>1, <3>1
  <2>2. CASE Len(s) >= 2 /\ frame[2] \in 1 .. 6 /\ Len(frame) = 8
    <3>1. s[2] \in 1 .. 6 /\ ~(Len(s) < 2)
      BY <1>2, <2>2
    <3>2. w = 8
      BY <2>2, <3>1 DEF WantedRequest, MultiCodes
    <3> QED  BY <2>2, <3>2
  <2>3. CASE /\ Len(s) >= 2
             /\ frame[2] \in MultiCodes /\ frame[7] \in Nat /\ Len(frame) = 9 + frame[7]
    <3>1. s[2] \in MultiCodes /\ s[2] \notin 1 .. 6 /\ ~(Len(s) < 2)
      <4>1. s[2] = frame[2]
        BY <1>2, <2>3
      <4>2. \A n \in MultiCodes : n \notin 1 .. 6
        BY DEF MultiCodes
      <4>3. ~(Len(s) < 2)
        BY <1>2, <2>3
      <4> QED  BY <2>3, <4>1, <4>2, <4>3
    <3>2. w = IF Len(s) < 7 THEN 7 ELSE 9 + s[7]
      BY <2>3, <3>1 DEF WantedRequest
    <3>3. CASE Len(s) < 7
      <4>1. w = 7
        BY <3>2, <3>3
      <4> HIDE DEF w
      <4> QED  BY <1>2, <2>3, <3>3, <4>1
    <3>4. CASE Len(s) >= 7
      <4>1. s[7] = frame[7] /\ ~(Len(s) < 7)
        BY <1>2, <3>4
      <4>2. w = Len(frame)
        BY <2>3, <3>2, <4>1
      <4> QED  BY <4>2
    <3> QED  BY <1>2, <3>3, <3>4
  <2> QED  BY <1>1, <1>2, <2>1, <2>2, <2>3
<1> HIDE DEF w
<1>4. Wants(w, s, t)
  BY <1>3, WantsPart DEF frame
<1> QED  BY <1>4 DEF w

\* and of its answer.
LEMMA AnswerCut ==
  ASSUME NEW q \in MasterRequest, ValidateProtocol(q), NEW o, Fits(q, o),
         NEW s \in Seq(UInt8), NEW t \in Seq(UInt8), s \o t = AnswerFrame(q, o)
  PROVE  /\ Wants(WantedResponse(s), s, t)
         /\ WantedResponse(s) # 0 /\ (Len(s) >= 2 => s[1] = q.slave)
<1> DEFINE frame == AnswerFrame(q, o)
           w == WantedResponse(s)
<1>1. /\ frame[1] = q.slave
      /\ \/ frame[2] >= 128 /\ Len(frame) = 5
         \/ frame[2] \in ReadCodes /\ frame[3] \in Nat /\ Len(frame) = 5 + frame[3]
         \/ frame[2] \in FunctionCodes \ ReadCodes /\ Len(frame) = 8
  BY AnswerFramePlaces
<1>2. Len(s) \in Nat /\ Len(s) <= Len(frame) /\ \A i \in 1 .. Len(s) : s[i] = frame[i]
  <2>1. /\ Len(s) \in Nat /\ Len(t) \in Nat /\ Len(s) + Len(t) = Len(frame)
        /\ \A i \in 1 .. Len(s) : s[i] = frame[i]
    BY Parts
  <2> QED  BY <2>1
<1>3. ReadCodes \subseteq FunctionCodes /\ \A n \in FunctionCodes : ~(n >= 128)
  BY DEF FunctionCodes, ReadCodes, MultiCodes
<1> HIDE DEF frame
<1>4. /\ w = Len(frame) \/ (w \in Nat /\ Len(s) < w /\ w <= Len(frame))
      /\ w # 0
  <2>1. CASE Len(s) < 2
    <3>1. w = 2
      BY <1>2, <2>1 DEF WantedResponse
    <3> HIDE DEF w
    <3> QED  BY <1>1, <1>2, <2>1, <3>1
  <2>2. CASE Len(s) >= 2
    <3>1. s[2] = frame[2] /\ ~(Len(s) < 2)
      BY <1>2, <2>2
    <3>2. CASE frame[2] >= 128 /\ Len(frame) = 5
      <4>1. w = 5
        <5>1. s[2] \notin FunctionCodes /\ s[2] \notin ReadCodes
          BY <1>3, <3>1, <3>2
        <5> QED  BY <2>2, <3>1, <3>2, <5>1 DEF WantedResponse
      <4> QED  BY <3>2, <4>1
    <3>3. CASE frame[2] \in ReadCodes /\ frame[3] \in Nat /\ Len(frame) = 5 + frame[3]
      <4>1. s[2] \in ReadCodes /\ ~(s[2] >= 128)
        BY <1>3, <3>1, <3>3
      <4>2. w = IF Len(s) < 3 THEN 3 ELSE 5 + s[3]
        BY <2>2, <3>1, <4>1 DEF WantedResponse
      <4>3. CASE Len(s) < 3
        <5>1. w = 3
          BY <4>2, <4>3
        <5> HIDE DEF w
        <5> QED  BY <1>2, <3>3, <4>3, <5>1
      <4>4. CASE Len(s) >= 3
        <5>1. s[3] = frame[3] /\ ~(Len(s) < 3)
          BY <1>2, <4>4
        <5>2. w = Len(frame)
          BY <3>3, <4>2, <5>1
        <5> QED  BY <3>3, <5>2
      <4> QED  BY <1>2, <4>3, <4>4
    <3>4. CASE frame[2] \in FunctionCodes \ ReadCodes /\ Len(frame) = 8
      <4>1. s[2] \notin ReadCodes /\ s[2] \in FunctionCodes \ ReadCodes /\ ~(s[2] >= 128)
        BY <1>3, <3>1, <3>4
      <4>2. w = 8
        BY <2>2, <3>1, <4>1 DEF WantedResponse
      <4> QED  BY <3>4, <4>2
    <3> QED  BY <1>1, <3>2, <3>3, <3>4
  <2> QED  BY <1>2, <2>1, <2>2
<1>5. Len(s) >= 2 => s[1] = q.slave
  BY <1>1, <1>2
<1> HIDE DEF w
<1>6. Wants(w, s, t)
  BY <1>4, WantsPart DEF frame
<1> QED  BY <1>4, <1>5, <1>6 DEF w

(***************************************************************************)
(* RTU has no length field, yet the readers of rtu.go:225-269 (master) and *)
(* rtu.go:452-480 (slave) find the end of each frame that the other side   *)
(* writes: whatever they have of it, they ask for no byte behind it, and   *)
(* they are content with the whole and with nothing less.                  *)
(***************************************************************************)
THEOREM FramesFound ==
  ASSUME NEW q \in MasterRequest, ValidateProtocol(q), NEW o, Fits(q, o),
         NEW s \in Seq(UInt8), NEW t \in Seq(UInt8)
  PROVE  /\ s \o t = RequestFrame(q) => Wants(WantedRequest(s), s, t)
         /\ s \o t = AnswerFrame(q, o) => Wants(WantedResponse(s), s, t)
BY RequestCut, AnswerCut

-----------------------------------------------------------------------------
(***************************************************************************)
(* What a slave makes of a PDU that it accepts, whoever sent it.           *)
(***************************************************************************)

\* The widths of the code: uint8 units, uint16 addresses and registers.
CodeSizes == Slave = UInt8 /\ LastAddr = MaxUint16 /\ Word = UInt16

\* Every unit, address and register that bytes can name is there.
LEMMA Sizes ==
  ASSUME CodeSizes
  PROVE  Addr = UInt16 /\ Slave = UInt8 /\ Word = UInt16
BY DEF CodeSizes, Addr, UInt16

\* A PDU that the slave accepts.
LEMMA AcceptedPDU ==
  ASSUME NEW p \in Seq(UInt8), WellFormed(p)
  PROVE  /\ Code(p) \in FunctionCodes /\ Len(p) \in Nat /\ Len(p) >= 5 /\ Code(p) = p[1]
         /\ p[1] \in UInt8 /\ WordAt(p, 2) \in UInt16 /\ WordAt(p, 4) \in UInt16
         /\ Code(p) \in {1, 2, 15} => WordAt(p, 4) <= 2000
         /\ Code(p) = 15 => Len(p) >= 6 + ByteCount(WordAt(p, 4))
         /\ Code(p) = 16 => Len(p) >= 6 + 2 * WordAt(p, 4)
<1>1. Code(p) \in FunctionCodes /\ Len(p) \in Nat /\ Len(p) >= 5
  BY DEF WellFormed, FunctionCodes, ReadCodes
<1>2. Code(p) = p[1] /\ p[1] \in UInt8
  BY <1>1 DEF Code
<1>3. WordAt(p, 2) \in UInt16 /\ WordAt(p, 4) \in UInt16
  BY <1>1, AWord
<1>4. ASSUME Code(p) \in {1, 2, 15}
      PROVE  WordAt(p, 4) <= 2000
  <2>1. WordAt(p, 4) \in 1 .. ServeLimit(Code(p))
    BY <1>4 DEF WellFormed, ReadCodes, MultiCodes
  <2>2. ServeLimit(Code(p)) \in Nat /\ ServeLimit(Code(p)) <= 2000
    BY <1>4 DEF ServeLimit
  <2> QED  BY <2>1, <2>2
<1>5. Code(p) = 15 => Len(p) >= 6 + ByteCount(WordAt(p, 4))
  BY DEF WellFormed, ReadCodes, MultiCodes
<1>6. Code(p) = 16 => Len(p) >= 6 + 2 * WordAt(p, 4)
  BY DEF WellFormed, ReadCodes, MultiCodes
<1> QED  BY <1>1, <1>2, <1>3, <1>4, <1>5, <1>6

\* The call on the store is one that the store can be given.
LEMMA CallType ==
  ASSUME CodeSizes, NEW unit \in UInt8, NEW p \in Seq(UInt8), WellFormed(p)
  PROVE  StoreCall(unit, p) \in Request
<1> DEFINE r == StoreCall(unit, p)
           n == WordAt(p, 4)
<1>1. /\ Code(p) \in FunctionCodes /\ WordAt(p, 2) \in UInt16 /\ n \in UInt16
      /\ Code(p) \in {1, 2, 15} => n <= 2000
      /\ Code(p) = 15 => Len(p) >= 6 + ByteCount(n)
      /\ Code(p) = 16 => Len(p) >= 6 + 2 * n
  BY AcceptedPDU
<1> HIDE DEF n
<1>2. Code(p) \in {1, 2, 3, 4, 5, 6, 15, 16}
  BY <1>1 DEF FunctionCodes, MultiCodes
<1>3. r.op \in {"read", "write"} /\ r.slave \in Slave /\ r.addr \in Addr
  BY <1>1, Sizes DEF StoreCall
<1>4. r.table \in Table
  BY <1>2 DEF StoreCall, Table
<1>5. r.qty \in Nat
  BY <1>1, Ranges DEF StoreCall, n
<1>6. r.values \in Seq(UInt16)
  <2>0. n \in Nat /\ << >> \in Seq(UInt16)
    BY <1>1, Ranges
  <2>1. CASE Code(p) \in {1, 2, 3, 4}
    BY <2>0, <2>1 DEF StoreCall, ReadCodes, MultiCodes
  <2>2. CASE Code(p) = 5
    <3>1. r.values = <<IF n = FF00 THEN 1 ELSE 0>>
      BY <2>2 DEF StoreCall, ReadCodes, n
    <3> HIDE DEF r
    <3>2. r.values \in Seq({0, 1})
      BY <3>1
    <3> QED  BY <3>2, BitsAreWords
  <2>3. CASE Code(p) = 6
    <3>1. r.values = <<n>>
      BY <2>3 DEF StoreCall, ReadCodes, n
    <3> HIDE DEF r
    <3> QED  BY <1>1, <3>1
  <2>4. CASE Code(p) = 15
    <3>1. r.values = UnpackBits(p, 6 + 1, n)
      BY <2>4 DEF StoreCall, ReadCodes, n
    <3> HIDE DEF r
    <3>2. r.values \in Seq({0, 1})
      BY <1>1, <2>0, <2>4, <3>1, UnpackedBits
    <3> QED  BY <3>2, BitsAreWords
  <2>5. CASE Code(p) = 16
    <3>1. r.values = UnpackWords(p, 6 + 1, n)
      BY <2>5 DEF StoreCall, ReadCodes, n
    <3>2. UnpackWords(p, 6 + 1, n) \in Seq(UInt16)
      <4>1. 6 \in Nat /\ Len(p) >= 6 + 2 * n
        BY <1>1, <2>5
      <4> QED  BY <2>0, <4>1, UnpackedWords, Zenon
    <3> HIDE DEF r
    <3> QED  BY <3>1, <3>2
  <2> QED  BY <1>2, <2>1, <2>2, <2>3, <2>4, <2>5
<1>7. \E a, c, d, e, f, g : r = [op |-> a, table |-> c, slave |-> d, addr |-> e,
                                 qty |-> f, values |-> g]
  BY Zenon DEF StoreCall
<1> HIDE DEF r
<1>8. r \in Request
  <2>1. PICK a, c, d, e, f, g : r = [op |-> a, table |-> c, slave |-> d, addr |-> e,
                                     qty |-> f, values |-> g]
    BY <1>7
  <2>2. /\ a \in {"read", "write"} /\ c \in Table /\ d \in Slave /\ e \in Addr
        /\ f \in Nat /\ g \in Seq(Word)
    BY <1>3, <1>4, <1>5, <1>6, <2>1, Sizes
  <2> QED  BY <2>1, <2>2 DEF Request
<1> QED  BY <1>8 DEF r

\* An exception and a refusal are two bytes.
LEMMA ExceptionType ==
  ASSUME NEW p \in Seq(UInt8)
  PROVE  /\ ExceptionPDU(p, IllegalAddress) \in Seq(UInt8)
         /\ Refusal(p) \in Seq(UInt8)
<1>1. Code(p) \in UInt8
  <2>1. 0 \in UInt8
    BY Ranges
  <2>2. p # << >> => 1 \in 1 .. Len(p)
    BY EmptySeq
  <2>3. p # << >> => p[1] \in UInt8
    BY <2>2
  <2> QED  BY <2>1, <2>3 DEF Code
<1>2. (IF Code(p) < 128 THEN Code(p) + 128 ELSE Code(p)) \in UInt8
  <2>1. \A c \in UInt8 : (IF c < 128 THEN c + 128 ELSE c) \in UInt8
    BY DEF UInt8
  <2> QED  BY <1>1, <2>1
<1>3. ASSUME NEW code \in {1, 2, 3}
      PROVE  ExceptionPDU(p, code) \in Seq(UInt8)
  <2>1. code \in UInt8
    BY DEF UInt8
  <2> QED  BY <1>2, <2>1 DEF ExceptionPDU
<1>4. ExceptionPDU(p, IllegalAddress) \in Seq(UInt8)
  BY <1>3 DEF IllegalAddress
<1>5. Refusal(p) \in Seq(UInt8)
  BY <1>3 DEF Refusal, IllegalValue, IllegalFunction
<1> QED  BY <1>4, <1>5

\* The low byte of a number is a byte.
LEMMA LowByte ==
  ASSUME NEW n \in Nat
  PROVE  Byte(n) \in UInt8
<1>1. Byte(n) \in Nat /\ Byte(n) < 256
  BY DEF Byte
<1> QED  BY <1>1, WordSize

\* What the slave answers are bytes.
LEMMA ReplyType ==
  ASSUME CodeSizes, NEW unit \in UInt8, NEW p \in Seq(UInt8), WellFormed(p),
         NEW b \in Banks, BitsIn(b)
  PROVE  Response(p, Outcome(b, StoreCall(unit, p))) \in Seq(UInt8)
<1> DEFINE r == StoreCall(unit, p)
           o == Outcome(b, r)
           n == WordAt(p, 4)
<1>1. r \in Request
  BY CallType
<1>2. /\ Code(p) \in FunctionCodes /\ Len(p) >= 5 /\ n \in UInt16
      /\ Code(p) \in {1, 2} => n <= 2000
  BY AcceptedPDU
<1>3. Code(p) \in {1, 2, 3, 4, 5, 6, 15, 16} /\ Code(p) \in UInt8
  BY <1>2 DEF FunctionCodes, MultiCodes, UInt8
<1>4. Code(p) \in {1, 2} => r.op = "read" /\ r.qty = n /\ r.table \in {"coil", "discrete"}
  BY DEF StoreCall, ReadCodes
<1>5. Word \subseteq UInt16
  BY Sizes
<1> HIDE DEF r
<1>6. /\ o.values \in Seq(UInt16)
      /\ r.op = "read" /\ o.ok =>
           /\ Len(o.values) = r.qty
           /\ r.table \in {"coil", "discrete"} => o.values \in Seq({0, 1})
  BY <1>1, <1>5, StoreReads
<1> HIDE DEF o
<1>7. CASE ~o.ok
  <2>1. Response(p, o) = ExceptionPDU(p, IllegalAddress)
    BY <1>7 DEF Response
  <2> QED  BY <2>1, ExceptionType DEF o, r
<1>8. CASE o.ok /\ Code(p) \in {1, 2}
  <2>1. Response(p, o) = <<Code(p), Byte(ByteCount(n))>> \o PackBits(o.values)
    BY <1>8 DEF Response, ReadCodes
  <2>2. PackBits(o.values) \in Seq(UInt8)
    <3>1. o.values \in Seq({0, 1}) /\ Len(o.values) <= 2000
      BY <1>2, <1>4, <1>6, <1>8
    <3> QED  BY <3>1, PackedBits
  <2>3. Byte(ByteCount(n)) \in UInt8
    <3>1. n \in Nat /\ n <= 2000
      BY <1>2, <1>8, Ranges
    <3>2. ByteCount(n) \in Nat
      BY <3>1, ByteCountFacts
    <3> QED  BY <3>2, LowByte
  <2>4. ReadPlaces(<<Code(p), Byte(ByteCount(n))>> \o PackBits(o.values),
                   Code(p), Byte(ByteCount(n)), PackBits(o.values))
    BY <1>3, <2>2, <2>3, ReadPDU, Zenon
  <2> QED  BY <2>1, <2>4 DEF ReadPlaces, o, r
<1>9. CASE o.ok /\ Code(p) \in {3, 4}
  <2> DEFINE k == Byte(2 * Len(o.values))
  <2>1. Response(p, o) = <<Code(p), k>> \o PackWords(o.values)
    BY <1>9 DEF Response, ReadCodes
  <2>2. PackWords(o.values) \in Seq(UInt8)
    BY <1>6, PackedWords
  <2>3. k \in UInt8
    <3>1. 2 * Len(o.values) \in Nat
      BY <1>6
    <3> QED  BY <3>1, LowByte
  <2> HIDE DEF k
  <2>4. ReadPlaces(<<Code(p), k>> \o PackWords(o.values), Code(p), k, PackWords(o.values))
    BY <1>3, <2>2, <2>3, ReadPDU, Zenon
  <2> QED  BY <2>1, <2>4 DEF ReadPlaces, o, r
<1>10. CASE o.ok /\ Code(p) \notin {1, 2, 3, 4}
  <2>1. Response(p, o) = SubSeq(p, 1, 5)
    BY <1>10 DEF Response, ReadCodes
  <2>2. SubSeq(p, 1, 5) \in Seq(UInt8)
    BY <1>2, EchoPDU
  <2> QED  BY <2>1, <2>2 DEF o, r
<1> QED  BY <1>7, <1>8, <1>9, <1>10

\* A request that is asked of the master, and what the slave makes of it.
LEMMA AskFacts ==
  ASSUME CodeSizes, NEW k \in Lines, NEW q \in k.asks, ValidateProtocol(q)
  PROVE  /\ q \in MasterRequest /\ q \in DOMAIN AskFrame
         /\ AskFrame[q] = RequestFrame(q) /\ AskFrame[q] \in Seq(UInt8)
         /\ Meant(q) \in Request
<1>1. q \in MasterRequest
  BY LineAssumption
<1>2. q \in DOMAIN AskFrame /\ AskFrame[q] = RequestFrame(q)
  BY DEF AskFrame, RequestFrame
<1>3. RequestFrame(q) \in Seq(UInt8)
  BY <1>1, RequestFramePlaces
<1>4. q.slave \in UInt8
  BY <1>1 DEF MasterRequest
<1>5. BuildPDU(q) \in Seq(UInt8) /\ WellFormed(BuildPDU(q)) /\ StoreCall(q.slave, BuildPDU(q)) = Meant(q)
  BY <1>1, CodecAgrees
<1>6. StoreCall(q.slave, BuildPDU(q)) \in Request
  BY <1>4, <1>5, CallType
<1> QED  BY <1>1, <1>2, <1>3, <1>5, <1>6

\* A disturbed line carries bytes.
LEMMA DisturbedType ==
  ASSUME NEW line \in Seq(UInt8)
  PROVE  Disturbed(line) \subseteq Seq(UInt8)
<1>1. ASSUME NEW i \in DOMAIN line
      PROVE  [line EXCEPT ![i] = 255 - @] \in Seq(UInt8)
  <2>1. i \in 1 .. Len(line) /\ line[i] \in UInt8
    OBVIOUS
  <2>2. \A c \in UInt8 : 255 - c \in UInt8
    BY DEF UInt8
  <2> QED  BY <2>1, <2>2, ExceptSeq
<1>2. ASSUME NEW i \in DOMAIN line
      PROVE  SubSeq(line, 1, i - 1) \o Drop(line, i) \in Seq(UInt8)
  <2>1. i \in 1 .. Len(line) /\ i \in 0 .. Len(line) /\ i - 1 \in Int /\ 1 \in Int
    OBVIOUS
  <2>2. SubSeq(line, 1, i - 1) \in Seq(UInt8)
    <3>1. \A j \in 1 .. i - 1 : line[j] \in UInt8
      BY <2>1
    <3> QED  BY <2>1, <3>1, SubSeqProperties
  <2>3. Drop(line, i) \in Seq(UInt8)
    BY <2>1, DropType
  <2> QED  BY <2>2, <2>3, ConcatProperties
<1>3. Append(line, 0) \in Seq(UInt8)
  <2>1. 0 \in UInt8
    BY Ranges
  <2> QED  BY <2>1, AppendProperties, SMTT(20)
<1>4. {[line EXCEPT ![i] = 255 - @] : i \in DOMAIN line} \subseteq Seq(UInt8)
  BY <1>1
<1>5. {SubSeq(line, 1, i - 1) \o Drop(line, i) : i \in DOMAIN line} \subseteq Seq(UInt8)
  BY <1>2
<1> QED  BY <1>3, <1>4, <1>5 DEF Disturbed

-----------------------------------------------------------------------------
(***************************************************************************)
(* The inductive invariant.                                                *)
(***************************************************************************)

\* No request holds another frame behind its first byte.
NoFrameInside ==
  \A q \in DOMAIN AskFrame : \A i \in 1 .. Len(AskFrame[q]) : \A n \in i .. Len(AskFrame[q]) :
    LET inner == SubSeq(AskFrame[q], i + 1, n)
    IN  ~(WantedRequest(inner) = Len(inner) /\ VerifyCRC(inner))

\* Nothing is on the line that the next request could meet.
AtRest ==
  /\ request = << >> /\ out = << >> /\ toSlave = << >>
  /\ kind.patient \/ toMaster = << >>

\* The request is on its way; a slave that was impatient may have lost its start.
Asking ==
  /\ response = << >> /\ toMaster = << >> /\ out = << >>
  /\ \E k \in 0 .. Len(AskFrame[ask]) :
       request \o toSlave = Drop(AskFrame[ask], k) /\ (kind.patient => k = 0)

\* Its answer is.
Answering ==
  /\ request = << >> /\ toSlave = << >>
  /\ served \in Reply /\ Fits(ask, served)
  /\ \/ response = << >> /\ toMaster = << >> /\ out = AnswerFrame(ask, served)
     \/ out = << >> /\ response \o toMaster = AnswerFrame(ask, served)

Answered == served \in Reply /\ Fits(ask, served) /\ result = Truth(ask, served)

\* On a line without noise that was at rest when the port was opened.
Conversation ==
  session = "quiet" /\ (kind.patient \/ NoFrameInside) =>
    /\ phase = "reading" => Asking \/ Answering
    /\ phase # "reading" => AtRest
    /\ phase = "done" /\ result.kind = "values" => Answered

\* What is so on every line, whatever happens on it.
LineTypes ==
  /\ TypeOK
  /\ BitsIn(bank)
  /\ phase = "reading" => ask \in kind.asks /\ ValidateProtocol(ask)
  /\ phase # "reading" => response = << >>

SerialInv == LineTypes /\ Conversation

\* The bytes and the numbers of the state.
LEMMA LineBytes ==
  ASSUME TypeOK
  PROVE  /\ response \in Seq(UInt8) /\ request \in Seq(UInt8) /\ out \in Seq(UInt8)
         /\ toSlave \in Seq(UInt8) /\ toMaster \in Seq(UInt8)
         /\ Len(response) \in Nat /\ Len(request) \in Nat
         /\ kind \in Lines /\ kind.asks \subseteq MasterRequest /\ bank \in Banks
         /\ kind.patient \in BOOLEAN
<1>1. /\ response \in Seq(UInt8) /\ request \in Seq(UInt8) /\ out \in Seq(UInt8)
      /\ toSlave \in Seq(UInt8) /\ toMaster \in Seq(UInt8)
      /\ kind \in Lines /\ bank \in Banks
  BY DEF TypeOK
<1>2. kind.asks \subseteq MasterRequest /\ kind.patient \in BOOLEAN
  BY <1>1, LineAssumption
<1> QED  BY <1>1, <1>2

\* A line of which the start is gone carries bytes.
LEMMA CutTypes ==
  ASSUME TypeOK
  PROVE  /\ Flushed \subseteq Seq(UInt8)
         /\ \A line \in {toSlave, toMaster} : \A n :
              \A rest \in AfterTimeout(line, n) :
                /\ rest \in Seq(UInt8)
                /\ \E k \in 0 .. Len(line) : rest = Drop(line, k)
<1>1. ASSUME NEW line \in {toSlave, toMaster}
      PROVE  line \in Seq(UInt8) /\ Len(line) \in Nat
  BY LineBytes
<1>2. ASSUME NEW line \in {toSlave, toMaster}
      PROVE  Cuts(line) \subseteq 0 .. Len(line)
  BY <1>1 DEF Cuts
<1>3. ASSUME NEW line \in {toSlave, toMaster}, NEW n, NEW rest \in AfterTimeout(line, n)
      PROVE  rest \in Seq(UInt8) /\ \E k \in 0 .. Len(line) : rest = Drop(line, k)
  <2>1. PICK k \in 0 .. Len(line) : rest = Drop(line, k)
    <3>1. Len(line) \in 0 .. Len(line)
      BY <1>1
    <3> QED  BY <1>2, <1>3, <3>1 DEF AfterTimeout
  <2>2. Drop(line, k) \in Seq(UInt8)
    BY <1>1, DropType
  <2> QED  BY <2>1, <2>2
<1>4. Flushed \subseteq Seq(UInt8)
  <2>1. ASSUME NEW k \in Cuts(toMaster)
        PROVE  Drop(toMaster, k) \in Seq(UInt8)
    <3>1. toMaster \in {toSlave, toMaster}
      OBVIOUS
    <3>2. toMaster \in Seq(UInt8) /\ k \in 0 .. Len(toMaster)
      BY <1>1, <1>2, <3>1
    <3> QED  BY <3>2, DropType
  <2>2. << >> \in Seq(UInt8)
    OBVIOUS
  <2> QED  BY <2>1, <2>2 DEF Flushed
<1> QED  BY <1>3, <1>4

\* At the beginning,
LEMMA TypesInit == Init => LineTypes
<1> SUFFICES ASSUME Init PROVE LineTypes
  OBVIOUS
<1>1. bank \in Banks /\ BitsIn(bank)
  BY SeededBanksType, SeededBits DEF Init
<1>2. << >> \in Seq(UInt8) /\ 0 \in 0 .. kind.noises
  <2>1. kind.noises \in Nat
    BY LineAssumption DEF Init
  <2> QED  BY <2>1
<1> QED  BY <1>1, <1>2 DEF Init, LineTypes, TypeOK

\* and with every step.
LEMMA TypesStep ==
  ASSUME CodeSizes, LineTypes, [Next]_vars
  PROVE  LineTypes'
<1>0. /\ response \in Seq(UInt8) /\ request \in Seq(UInt8) /\ out \in Seq(UInt8)
      /\ toSlave \in Seq(UInt8) /\ toMaster \in Seq(UInt8)
      /\ Len(response) \in Nat /\ Len(request) \in Nat
      /\ kind \in Lines /\ kind.asks \subseteq MasterRequest /\ bank \in Banks
      /\ BitsIn(bank) /\ TypeOK
      /\ kind.noises \in Nat
  <2>1. TypeOK /\ BitsIn(bank)
    BY DEF LineTypes
  <2>2. kind \in Lines
    BY <2>1 DEF TypeOK
  <2>3. kind.noises \in Nat
    BY <2>2, LineAssumption
  <2> QED  BY <2>1, <2>3, LineBytes
<1>1. CASE Open
  <2>1. toMaster' \in Seq(UInt8)
    <3>1. << >> \in Seq(UInt8)
      OBVIOUS
    <3> QED  BY <1>0, <1>1, <3>1 DEF Open
  <2>2. session' \in {"closed", "late", "quiet", "noisy"}
    BY <1>1 DEF Open
  <2> QED  BY <1>0, <1>1, <2>1, <2>2 DEF Open, slave, LineTypes, TypeOK
<1>2. CASE Close
  BY <1>0, <1>2 DEF Close, slave, LineTypes, TypeOK
<1>3. CASE Return
  BY <1>0, <1>3 DEF Return, LineTypes, TypeOK
<1>4. CASE Noise
  <2>1. toSlave' \in Seq(UInt8) /\ toMaster' \in Seq(UInt8)
    BY <1>0, <1>4, DisturbedType DEF Noise
  <2>2. noises' \in 0 .. kind.noises
    BY <1>0, <1>4 DEF Noise, TypeOK
  <2>3. session' \in {"closed", "late", "quiet", "noisy"} /\ (session # "closed" => session' # "closed")
    BY <1>0, <1>4 DEF Noise, TypeOK
  <2> QED  BY <1>0, <1>4, <2>1, <2>2, <2>3 DEF Noise, slave, LineTypes, TypeOK
<1>5. ASSUME NEW q \in kind.asks, Refuse(q)
      PROVE  LineTypes'
  BY <1>0, <1>5 DEF Refuse, Finish, slave, LineTypes, TypeOK
<1>6. ASSUME NEW q \in kind.asks, Ready(q)
      PROVE  /\ ask' = q /\ ValidateProtocol(q) /\ session # "closed"
             /\ toMaster' \in Seq(UInt8) /\ toSlave \o AskFrame[q] \in Seq(UInt8)
  <2>1. ask' = q /\ ValidateProtocol(q) /\ session # "closed" /\ toMaster' \in Flushed
    BY <1>6 DEF Ready
  <2>2. toMaster' \in Seq(UInt8)
    BY <1>0, <2>1, CutTypes
  <2>3. AskFrame[q] \in Seq(UInt8)
    BY <1>0, <2>1, AskFacts
  <2> QED  BY <1>0, <2>1, <2>2, <2>3, ConcatProperties
<1>7. ASSUME NEW q \in kind.asks, Write(q)
      PROVE  LineTypes'
  <2>1. Ready(q)
    BY <1>7 DEF Write
  <2>2. /\ ask' = q /\ ValidateProtocol(q) /\ session # "closed"
        /\ toMaster' \in Seq(UInt8) /\ toSlave \o AskFrame[q] \in Seq(UInt8)
    BY <1>6, <2>1
  <2> QED  BY <1>0, <1>7, <2>2 DEF Write, slave, LineTypes, TypeOK
<1>8. ASSUME NEW q \in kind.asks, WriteFails(q)
      PROVE  LineTypes'
  <2>1. Ready(q)
    BY <1>8 DEF WriteFails
  <2>2. ask' = q /\ toMaster' \in Seq(UInt8) /\ toSlave \o AskFrame[q] \in Seq(UInt8)
    BY <1>6, <2>1
  <2>3. toSlave' \in Seq(UInt8)
    BY <1>0, <1>8, <2>2 DEF WriteFails
  <2> QED  BY <1>0, <1>8, <2>2, <2>3 DEF WriteFails, Finish, slave, LineTypes, TypeOK
<1>9. CASE ReadResponse
  <2>1. Missing \in 0 .. Len(toMaster)
    BY <1>9 DEF ReadResponse
  <2>2. response' \in Seq(UInt8) /\ toMaster' \in Seq(UInt8)
    <3> HIDE DEF Missing
    <3> QED  BY <1>0, <1>9, <2>1, Moved DEF ReadResponse
  <2> QED  BY <1>0, <1>9, <2>2 DEF ReadResponse, slave, LineTypes, TypeOK
<1>10. CASE Received
  BY <1>0, <1>10 DEF Received, Finish, slave, LineTypes, TypeOK
<1>11. CASE BadFrame
  BY <1>0, <1>11 DEF BadFrame, Finish, slave, LineTypes, TypeOK
<1>12. CASE Timeout
  <2>1. toMaster' \in Seq(UInt8)
    <3>1. toMaster' \in AfterTimeout(toMaster, Missing)
      BY <1>12 DEF Timeout, TimedOut
    <3> QED  BY <1>0, <3>1, CutTypes
  <2> QED  BY <1>0, <1>12, <2>1 DEF Timeout, TimedOut, Finish, slave, LineTypes, TypeOK
<1>13. CASE ReadRequest
  <2>1. Unheard \in 0 .. Len(toSlave)
    BY <1>13 DEF ReadRequest
  <2>2. request' \in Seq(UInt8) /\ toSlave' \in Seq(UInt8)
    BY <1>0, <1>13, <2>1, Moved DEF ReadRequest
  <2> QED  BY <1>0, <1>13, <2>2 DEF ReadRequest, master, LineTypes, TypeOK
<1>14. CASE RequestTimeout
  <2>1. toSlave' \in Seq(UInt8)
    <3>1. toSlave' \in AfterTimeout(toSlave, Unheard)
      BY <1>14 DEF RequestTimeout
    <3> QED  BY <1>0, <3>1, CutTypes
  <2> QED  BY <1>0, <1>14, <2>1 DEF RequestTimeout, master, LineTypes, TypeOK
<1>15. CASE Ignore
  BY <1>0, <1>15 DEF Ignore, master, LineTypes, TypeOK
<1>16. CASE Dispatch
  <2> DEFINE p == InFrame(request)
             r == StoreCall(request[1], p)
             o == IF WellFormed(p) THEN Outcome(bank, r) ELSE NoReply
             body == IF WellFormed(p) THEN Response(p, o) ELSE Refusal(p)
  <2>1. /\ request # << >>
        /\ bank' = IF WellFormed(p) THEN Effect(bank, r) ELSE bank
        /\ out' = AppendCRC(<<request[1]>> \o body)
        /\ request' = << >>
        /\ UNCHANGED <<kind, master, toSlave, toMaster, noises>>
    BY <1>16 DEF Dispatch, DispatchUnchecked
  <2>2. request[1] \in UInt8
    BY <1>0, <2>1
  <2>3. p \in Seq(UInt8)
    <3>1. \A i \in 2 .. Len(request) - 2 : request[i] \in UInt8
      BY <1>0
    <3>2. 2 \in Int /\ Len(request) - 2 \in Int
      BY <1>0
    <3> QED  BY <3>1, <3>2, SubSeqProperties DEF InFrame
  <2> HIDE DEF p
  <2>4. body \in Seq(UInt8)
    <3>1. CASE WellFormed(p)
      BY <1>0, <2>2, <2>3, <3>1, ReplyType
    <3>2. CASE ~WellFormed(p)
      BY <2>3, <3>2, ExceptionType
    <3> QED  BY <3>1, <3>2
  <2>5. bank' \in Banks /\ BitsIn(bank')
    <3>1. CASE WellFormed(p)
      <4>1. r \in Request
        BY <2>2, <2>3, <3>1, CallType
      <4> HIDE DEF r
      <4> QED  BY <1>0, <2>1, <3>1, <4>1, EffectType, EffectBits
    <3>2. CASE ~WellFormed(p)
      BY <1>0, <2>1, <3>2
    <3> QED  BY <3>1, <3>2
  <2> HIDE DEF r, body
  <2>6. out' \in Seq(UInt8)
    BY <2>1, <2>2, <2>4, FramePlaces
  <2>7. << >> \in Seq(UInt8)
    OBVIOUS
  <2> QED  BY <1>0, <2>1, <2>5, <2>6, <2>7 DEF master, LineTypes, TypeOK
<1>17. CASE SendReply
  <2>1. toMaster' \in Seq(UInt8)
    BY <1>0, <1>17, ConcatProperties DEF SendReply
  <2> QED  BY <1>0, <1>17, <2>1 DEF SendReply, master, LineTypes, TypeOK
<1>18. CASE UNCHANGED vars
  BY <1>0, <1>18 DEF vars, LineTypes, TypeOK
<1> QED
  BY <1>1, <1>2, <1>3, <1>4, <1>5, <1>7, <1>8, <1>9, <1>10, <1>11, <1>12, <1>13, <1>14, <1>15,
     <1>16, <1>17, <1>18 DEF Next, MasterStep, SlaveStep


(***************************************************************************)
(* Every variable of the line has its type, whatever noise makes of the    *)
(* bytes and whatever a slave or a master reads out of them (rtu.go).      *)
(***************************************************************************)
THEOREM LineTypeCorrect == ASSUME CodeSizes PROVE Spec => []TypeOK
<1>1. LineTypes /\ [Next]_vars => LineTypes'
  BY TypesStep
<1>2. LineTypes => TypeOK
  BY DEF LineTypes
<1> QED  BY <1>1, <1>2, TypesInit, PTL DEF Spec

-----------------------------------------------------------------------------
(***************************************************************************)
(* A conversation on a line without noise.                                 *)
(***************************************************************************)
Quiet == session = "quiet" /\ (kind.patient \/ NoFrameInside)

\* The request and its answer, while Execute reads.
LEMMA Reading ==
  ASSUME CodeSizes, LineTypes, phase = "reading"
  PROVE  /\ ask \in MasterRequest /\ ValidateProtocol(ask)
         /\ ask \in DOMAIN AskFrame /\ Meant(ask) \in Request
         /\ AskFrame[ask] = RequestFrame(ask) /\ AskFrame[ask] \in Seq(UInt8)
         /\ Len(AskFrame[ask]) \in Nat /\ Len(AskFrame[ask]) >= 8
         /\ response \in Seq(UInt8) /\ request \in Seq(UInt8) /\ out \in Seq(UInt8)
         /\ toSlave \in Seq(UInt8) /\ toMaster \in Seq(UInt8)
<1>1. TypeOK /\ ask \in kind.asks /\ ValidateProtocol(ask)
  BY DEF LineTypes
<1>2. kind \in Lines
  BY <1>1, LineBytes
<1>3. /\ ask \in MasterRequest /\ ask \in DOMAIN AskFrame
      /\ AskFrame[ask] = RequestFrame(ask) /\ AskFrame[ask] \in Seq(UInt8) /\ Meant(ask) \in Request
  BY <1>1, <1>2, AskFacts
<1>4. Len(RequestFrame(ask)) \in Nat /\ Len(RequestFrame(ask)) >= 8
  <2> DEFINE frame == RequestFrame(ask)
  <2>1. /\ frame \in Seq(UInt8)
        /\ \/ Len(frame) = 8
           \/ \E n \in Nat : Len(frame) = 9 + n
    BY <1>1, <1>3, RequestFramePlaces
  <2> HIDE DEF frame
  <2>2. CASE Len(frame) = 8
    BY <2>2 DEF frame
  <2>3. CASE \E n \in Nat : Len(frame) = 9 + n
    BY <2>3 DEF frame
  <2> QED  BY <2>1, <2>2, <2>3
<1> QED  BY <1>1, <1>3, <1>4, LineBytes

\* Nothing read of an answer yet, a reader wants two bytes.
LEMMA NothingRead ==
  /\ WantedResponse(<< >>) = 2 /\ WantedRequest(<< >>) = 2 /\ Len(<< >>) = 0
  /\ response = << >> => Missing = 2 /\ ~BadHead
<1>1. Len(<< >>) = 0
  OBVIOUS
<1>2. WantedResponse(<< >>) = 2 /\ WantedRequest(<< >>) = 2
  BY <1>1 DEF WantedResponse, WantedRequest
<1> QED  BY <1>1, <1>2 DEF Missing, BadHead

\* The master has some of the answer; of the rest it asks no more than there is.
LEMMA MasterHears ==
  ASSUME CodeSizes, LineTypes, phase = "reading", Answering, out = << >>
  PROVE  /\ ~BadHead /\ Wants(WantedResponse(response), response, toMaster)
         /\ response \o toMaster = AnswerFrame(ask, served)
         /\ toMaster = << >> => response = AnswerFrame(ask, served)
<1>1. /\ ask \in MasterRequest /\ ValidateProtocol(ask) /\ Fits(ask, served)
      /\ response \in Seq(UInt8) /\ toMaster \in Seq(UInt8)
  BY Reading DEF Answering
<1>2. response \o toMaster = AnswerFrame(ask, served)
  <2>1. AnswerFrame(ask, served) # << >>
    <3> DEFINE frame == AnswerFrame(ask, served)
    <3>1. /\ frame \in Seq(UInt8)
          /\ \/ Len(frame) = 5
             \/ \E n \in Nat : Len(frame) = 5 + n
             \/ Len(frame) = 8
      BY <1>1, AnswerFramePlaces
    <3> HIDE DEF frame
    <3>2. Len(frame) # 0
      BY <3>1
    <3>3. frame # << >>
      BY <3>2
    <3> QED  BY <3>3 DEF frame
  <2> QED  BY <2>1 DEF Answering
<1>3. /\ Wants(WantedResponse(response), response, toMaster)
      /\ WantedResponse(response) # 0 /\ (Len(response) >= 2 => response[1] = ask.slave)
  BY <1>1, <1>2, AnswerCut
<1>4. toMaster = << >> => response \o toMaster = response
  BY <1>1, Parts
<1> QED  BY <1>2, <1>3, <1>4 DEF BadHead

\* So does the slave, if it has the request from its start.
LEMMA SlaveHears ==
  ASSUME CodeSizes, LineTypes, phase = "reading", request \o toSlave = AskFrame[ask]
  PROVE  /\ Wants(WantedRequest(request), request, toSlave)
         /\ toSlave = << >> => request = AskFrame[ask]
         /\ request = << >> => toSlave # << >>
<1>1. /\ ask \in MasterRequest /\ ValidateProtocol(ask) /\ AskFrame[ask] = RequestFrame(ask)
      /\ request \in Seq(UInt8) /\ toSlave \in Seq(UInt8)
      /\ Len(AskFrame[ask]) >= 8
  BY Reading
<1>2. Wants(WantedRequest(request), request, toSlave)
  BY <1>1, RequestCut
<1>3. toSlave = << >> => request \o toSlave = request
  BY <1>1, Parts
<1>4. request = << >> => toSlave # << >>
  BY <1>1, <1>3
<1> QED  BY <1>2, <1>3, <1>4

-----------------------------------------------------------------------------
(***************************************************************************)
(* Step by step.                                                           *)
(***************************************************************************)

\* Between two requests,
LEMMA QuietBetween ==
  ASSUME CodeSizes, LineTypes, LineTypes', Conversation, Quiet',
         \/ Open \/ Return
         \/ \E q \in kind.asks : Refuse(q) \/ Write(q)
  PROVE  Conversation'
<1>1. CASE Open
  BY <1>1 DEF Open, Outstanding, slave, Quiet, Conversation, AtRest
<1>2. CASE Return
  <2>1. Quiet /\ phase = "done" /\ phase' = "idle"
    BY <1>2 DEF Return, Quiet
  <2>2. AtRest
    BY <2>1 DEF Conversation, Quiet
  <2>3. AtRest'
    BY <1>2, <2>2 DEF Return, AtRest
  <2> QED  BY <2>1, <2>3 DEF Conversation
<1>3. ASSUME NEW q \in kind.asks, Refuse(q)
      PROVE  Conversation'
  <2>1. Quiet /\ phase = "idle" /\ phase' = "done" /\ result' = Error
    BY <1>3 DEF Refuse, Finish, Quiet
  <2>2. AtRest
    BY <2>1 DEF Conversation, Quiet
  <2>3. AtRest'
    BY <1>3, <2>2 DEF Refuse, slave, AtRest
  <2>4. result'.kind # "values"
    BY <2>1 DEF Error, Result
  <2> QED  BY <2>1, <2>3, <2>4 DEF Conversation
<1>4. ASSUME NEW q \in kind.asks, Write(q)
      PROVE  Conversation'
  <2>1. /\ phase = "idle" /\ ask' = q /\ toMaster' \in Flushed
        /\ toSlave' = toSlave \o AskFrame[q]
        /\ phase' = "reading"
        /\ UNCHANGED <<kind, slave, session, response>>
    BY <1>4 DEF Write, Ready
  <2>2. Quiet /\ AtRest /\ response = << >>
    BY <2>1 DEF Conversation, Quiet, LineTypes
  <2>3. toMaster' = << >>
    <3>1. CASE kind.patient
      BY <2>1, <3>1 DEF Flushed
    <3>2. CASE ~kind.patient
      <4>1. toMaster = << >> /\ << >> \in Seq(UInt8) /\ Len(<< >>) = 0
        BY <2>2, <3>2 DEF AtRest
      <4>2. Cuts(<< >>) \subseteq {0}
        BY <4>1 DEF Cuts
      <4>3. Drop(<< >>, 0) = << >>
        BY <4>1, DropEnds
      <4> QED  BY <2>1, <3>2, <4>1, <4>2, <4>3 DEF Flushed
    <3> QED  BY <3>1, <3>2
  <2>4. AskFrame[q] \in Seq(UInt8)
    <3>1. kind \in Lines /\ ValidateProtocol(q)
      BY <1>4, LineBytes DEF LineTypes, Write, Ready
    <3> QED  BY <3>1, AskFacts
  <2>5. toSlave' = AskFrame[q] /\ request' \o toSlave' = Drop(AskFrame[q], 0)
    <3>1. << >> \o AskFrame[q] = AskFrame[q] /\ Drop(AskFrame[q], 0) = AskFrame[q]
      BY <2>4, DropEnds, ConcatEmptySeq
    <3> QED  BY <2>1, <2>2, <3>1 DEF AtRest, slave
  <2>6. Asking'
    <3>1. 0 \in 0 .. Len(AskFrame[q])
      BY <2>4
    <3> QED  BY <2>1, <2>2, <2>3, <2>5, <3>1 DEF Asking, AtRest, slave
  <2> QED  BY <2>1, <2>6 DEF Conversation
<1> QED  BY <1>1, <1>2, <1>3, <1>4

\* while the master listens,
LEMMA QuietMaster ==
  ASSUME CodeSizes, LineTypes, Conversation, Quiet', ReadResponse \/ Received
  PROVE  Conversation'
<1>1. /\ phase = "reading" /\ ~BadHead /\ Quiet
      /\ UNCHANGED <<kind, slave, session, ask, toSlave>>
  BY DEF ReadResponse, Received, Quiet
<1>2. Answering /\ out = << >>
  <2>1. Asking \/ Answering
    BY <1>1 DEF Conversation, Quiet
  <2>2. ~(response = << >> /\ toMaster = << >>)
    <3>1. ASSUME response = << >>, toMaster = << >>
          PROVE  FALSE
      <4>1. Missing = 2 /\ Len(toMaster) = 0
        BY <3>1, NothingRead
      <4> HIDE DEF Missing
      <4> QED  BY <4>1 DEF ReadResponse, Received
    <3> QED  BY <3>1
  <2> QED  BY <2>1, <2>2 DEF Asking, Answering
<1>3. /\ Wants(WantedResponse(response), response, toMaster)
      /\ response \o toMaster = AnswerFrame(ask, served)
      /\ toMaster = << >> => response = AnswerFrame(ask, served)
  BY <1>1, <1>2, MasterHears
<1>4. CASE ReadResponse
  <2>1. /\ Missing \in 1 .. Len(toMaster)
        /\ response' = response \o SubSeq(toMaster, 1, Missing)
        /\ toMaster' = Drop(toMaster, Missing)
        /\ UNCHANGED <<slave, phase, ask>>
    BY <1>4 DEF ReadResponse
  <2>2. response \in Seq(UInt8) /\ toMaster \in Seq(UInt8)
    BY <1>1, Reading
  <2>3. response' \o toMaster' = response \o toMaster
    <3> HIDE DEF Missing
    <3>1. Missing \in 0 .. Len(toMaster)
      BY <2>1
    <3> QED  BY <2>1, <2>2, <3>1, Moved
  <2>4. Answering'
    BY <1>1, <1>2, <1>3, <2>1, <2>3 DEF Answering, slave
  <2> QED  BY <1>1, <2>1, <2>4 DEF Conversation
<1>5. CASE Received
  <2>1. /\ Missing = 0 /\ phase' = "done" /\ response' = << >>
        /\ result' = Parse(ask, InFrame(response)) /\ UNCHANGED toMaster
    BY <1>5 DEF Received, Finish
  <2>2. toMaster = << >> /\ response = AnswerFrame(ask, served)
    <3>1. toMaster = << >>
      BY <1>3, <2>1 DEF Wants, Missing
    <3> QED  BY <1>3, <3>1
  <2>3. result' = Truth(ask, served)
    <3>1. ask \in MasterRequest /\ ValidateProtocol(ask) /\ Fits(ask, served)
      BY <1>1, <1>2, Reading DEF Answering
    <3>2. InFrame(response) = Response(BuildPDU(ask), served)
      BY <2>2, <3>1, AnswerFramePlaces
    <3> QED  BY <2>1, <3>1, <3>2, AnswersAgree
  <2>4. AtRest'
    BY <1>1, <1>2, <2>1, <2>2 DEF AtRest, Answering, slave
  <2>5. Answered'
    BY <1>1, <1>2, <2>3 DEF Answered, Answering, slave
  <2> QED  BY <2>1, <2>4, <2>5 DEF Conversation
<1> QED  BY <1>4, <1>5

\* and while the slave does.
LEMMA QuietSlave ==
  ASSUME CodeSizes, LineTypes, Conversation, Quiet',
         ReadRequest \/ RequestTimeout \/ Ignore \/ SendReply
  PROVE  Conversation'
<1> DEFINE F == AskFrame[ask]
<1>1. Quiet /\ UNCHANGED <<kind, master, served>>
  BY DEF ReadRequest, RequestTimeout, Ignore, SendReply, master, Quiet
<1>2. phase = "reading" /\ (Asking \/ Answering)
  <2>1. ~AtRest
    <3>1. ASSUME AtRest PROVE FALSE
      <4>1. Len(<< >>) = 0 /\ request = << >> /\ out = << >> /\ toSlave = << >>
        BY <3>1 DEF AtRest
      <4> HIDE DEF Unheard
      <4> QED  BY <4>1 DEF ReadRequest, RequestTimeout, Ignore, SendReply
    <3> QED  BY <3>1
  <2> QED  BY <1>1, <2>1 DEF Conversation, Quiet
<1>3. CASE SendReply
  <2>1. out # << >> /\ toMaster' = toMaster \o out /\ out' = << >> /\ UNCHANGED <<request, toSlave>>
    BY <1>3 DEF SendReply
  <2>2. Answering /\ response = << >> /\ toMaster = << >> /\ out = AnswerFrame(ask, served)
    BY <1>2, <2>1 DEF Asking, Answering
  <2>3. response' \o toMaster' = AnswerFrame(ask, served)
    <3>1. out \in Seq(UInt8)
      BY <1>2, Reading
    <3>2. << >> \o (<< >> \o out) = out
      BY <3>1, ConcatEmptySeq
    <3> QED  BY <1>1, <2>1, <2>2, <3>2 DEF master
  <2>4. Answering'
    BY <1>1, <2>1, <2>2, <2>3 DEF Answering, master
  <2> QED  BY <1>1, <1>2, <2>4 DEF Conversation, master
<1>4. CASE ReadRequest \/ RequestTimeout \/ Ignore
  <2>1. Asking
    <3>1. ASSUME Answering PROVE FALSE
      <4>1. Len(<< >>) = 0 /\ request = << >> /\ toSlave = << >>
        BY <3>1 DEF Answering
      <4> HIDE DEF Unheard
      <4> QED  BY <1>4, <4>1 DEF ReadRequest, RequestTimeout, Ignore
    <3> QED  BY <1>2, <3>1
  <2>2. PICK k \in 0 .. Len(F) : request \o toSlave = Drop(F, k) /\ (kind.patient => k = 0)
    BY <2>1 DEF Asking
  <2>3. /\ F \in Seq(UInt8) /\ request \in Seq(UInt8) /\ toSlave \in Seq(UInt8)
        /\ ask \in MasterRequest /\ ValidateProtocol(ask) /\ F = RequestFrame(ask)
    BY <1>2, Reading
  <2>4. ASSUME kind.patient
        PROVE  /\ Wants(WantedRequest(request), request, toSlave)
               /\ toSlave = << >> => request = F
    <3>1. request \o toSlave = F
      BY <2>2, <2>3, <2>4, DropEnds
    <3> QED  BY <1>2, <3>1, SlaveHears
  <2> HIDE DEF F
  <2>5. ASSUME request' \in Seq(UInt8), UNCHANGED <<out, toMaster>>,
               \E j \in 0 .. Len(F) : request' \o toSlave' = Drop(F, j) /\ (kind.patient => j = 0)
        PROVE  Conversation'
    <3>1. Asking'
      BY <1>1, <2>1, <2>5 DEF Asking, F, master
    <3> QED  BY <1>1, <1>2, <3>1 DEF Conversation, master
  <2>6. CASE ReadRequest
    <3>1. /\ Unheard \in 1 .. Len(toSlave)
          /\ request' = request \o SubSeq(toSlave, 1, Unheard)
          /\ toSlave' = Drop(toSlave, Unheard) /\ UNCHANGED <<out, toMaster>>
      BY <2>6 DEF ReadRequest
    <3> HIDE DEF Unheard
    <3>2. Unheard \in 0 .. Len(toSlave)
      BY <3>1
    <3>3. request' \in Seq(UInt8) /\ request' \o toSlave' = request \o toSlave
      <4>1. request \in Seq(UInt8) /\ toSlave \in Seq(UInt8)
        BY <2>3
      <4>2. request' = request \o SubSeq(toSlave, 1, Unheard) /\ toSlave' = Drop(toSlave, Unheard)
        BY <3>1
      <4> QED  BY <3>2, <4>1, <4>2, Moved
    <3> QED  BY <2>2, <2>5, <3>1, <3>3
  <2>7. ASSUME ~kind.patient, request' = << >>, UNCHANGED <<out, toMaster>>,
               NEW i \in 0 .. Len(toSlave), toSlave' = Drop(toSlave, i)
        PROVE  Conversation'
    <3>1. /\ k + Len(request) + i \in 0 .. Len(F)
          /\ Drop(toSlave, i) = Drop(F, k + Len(request) + i)
      <4>1. F \in Seq(UInt8) /\ request \in Seq(UInt8) /\ toSlave \in Seq(UInt8)
        BY <2>3
      <4>2. request \o toSlave = Drop(F, k)
        BY <2>2
      <4> QED  BY <4>1, <4>2, DropTail
    <3>2. Drop(toSlave, i) \in Seq(UInt8) /\ << >> \in Seq(UInt8)
      BY <2>3, DropType
    <3>3. request' \o toSlave' = Drop(F, k + Len(request) + i)
      BY <2>7, <3>1, <3>2, ConcatEmptySeq
    <3> QED  BY <2>5, <2>7, <3>1, <3>2, <3>3
  <2>8. CASE RequestTimeout
    <3>1. ~kind.patient
      <4>1. ASSUME kind.patient PROVE FALSE
        <5>1. Len(toSlave) \in Nat /\ Len(toSlave) < Unheard /\ Unheard > 0
          BY <2>3, <2>8, <4>1 DEF RequestTimeout
        <5>2. Unheard = 0 \/ Unheard \in 1 .. Len(toSlave)
          BY <2>4, <4>1 DEF Wants, Unheard
        <5> HIDE DEF Unheard
        <5> QED  BY <5>1, <5>2
      <4> QED  BY <4>1
    <3>2. /\ request' = << >> /\ UNCHANGED <<out, toMaster>>
          /\ \E i \in 0 .. Len(toSlave) : toSlave' = Drop(toSlave, i)
      <4>1. TypeOK
        BY DEF LineTypes
      <4> QED  BY <2>8, <4>1, CutTypes DEF RequestTimeout
    <3> QED  BY <2>7, <3>1, <3>2
  <2>9. CASE Ignore
    <3>1. ~kind.patient
      <4>1. ASSUME kind.patient PROVE FALSE
        <5>1. Unheard < 0 \/ (Unheard = 0 /\ (~VerifyCRC(request) \/ Broadcast))
          BY <2>9 DEF Ignore
        <5>2. IF toSlave = << >> THEN Unheard = 0 ELSE Unheard \in 1 .. Len(toSlave)
          BY <2>4, <4>1 DEF Wants, Unheard
        <5> HIDE DEF Unheard
        <5>3. Unheard = 0 /\ toSlave = << >>
          BY <2>3, <5>1, <5>2
        <5>4. request = RequestFrame(ask)
          BY <2>3, <2>4, <4>1, <5>3
        <5>5. VerifyCRC(request) /\ request[1] \in ValidSlave
          BY <2>3, <5>4, RequestFramePlaces
        <5>6. ~Broadcast
          <6>1. 0 \notin ValidSlave
            BY DEF ValidSlave
          <6> QED  BY <5>5, <6>1 DEF Broadcast
        <5> QED  BY <5>1, <5>3, <5>5, <5>6
      <4> QED  BY <4>1
    <3>2. request' = << >> /\ UNCHANGED <<out, toSlave, toMaster>>
      BY <2>9 DEF Ignore
    <3>3. 0 \in 0 .. Len(toSlave) /\ toSlave' = Drop(toSlave, 0)
      BY <2>3, <3>2, DropEnds
    <3> QED  BY <2>7, <3>1, <3>2, <3>3
  <2> QED  BY <1>4, <2>6, <2>8, <2>9
<1> QED  BY <1>3, <1>4

\* How many bytes a reader wants is a number.
LEMMA WantedNumber ==
  ASSUME NEW s \in Seq(UInt8)
  PROVE  WantedRequest(s) \in Nat
<1>1. Len(s) \in Nat
  OBVIOUS
<1>2. Len(s) >= 7 => s[7] \in Nat
  BY <1>1, Ranges
<1> QED  BY <1>1, <1>2 DEF WantedRequest

\* What is read of a request that lost its start is not taken for a frame.
LEMMA CutIsNoFrame ==
  ASSUME NoFrameInside, NEW q \in DOMAIN AskFrame, AskFrame[q] \in Seq(UInt8),
         NEW k \in 0 .. Len(AskFrame[q]), NEW s \in Seq(UInt8), NEW t \in Seq(UInt8),
         s \o t = Drop(AskFrame[q], k), WantedRequest(s) = Len(s), VerifyCRC(s)
  PROVE  k = 0
<1> DEFINE F == AskFrame[q]
           n == k + Len(s)
           d == SubSeq(F, k + 1, n)
<1> HIDE DEF F
<1>1. F \in Seq(UInt8) /\ Len(F) \in Nat /\ k \in 0 .. Len(F)
  BY DEF F
<1>2. /\ Len(Drop(F, k)) = Len(F) - k
      /\ \A i \in 1 .. Len(F) - k : Drop(F, k)[i] = F[k + i]
  BY <1>1, DropType
<1>3. /\ Len(s) \in Nat /\ Len(t) \in Nat /\ Len(s) + Len(t) = Len(F) - k
      /\ \A i \in 1 .. Len(s) : Drop(F, k)[i] = s[i]
  <2>1. s \o t = Drop(F, k)
    BY DEF F
  <2>2. /\ Len(s \o t) = Len(s) + Len(t) /\ Len(s) \in Nat /\ Len(t) \in Nat
        /\ \A i \in 1 .. Len(s) : (s \o t)[i] = s[i]
    BY Parts
  <2> QED  BY <1>2, <2>1, <2>2
<1>4. n \in k .. Len(F) /\ n - (k + 1) + 1 = Len(s)
  BY <1>1, <1>3
<1>5. d = s
  <2>1. /\ d \in Seq(UInt8)
        /\ Len(d) = IF k + 1 <= n THEN n - (k + 1) + 1 ELSE 0
        /\ \A i \in 1 .. n - (k + 1) + 1 : d[i] = F[(k + 1) + i - 1]
    <3>1. k + 1 \in Int /\ n \in Int /\ \A i \in k + 1 .. n : F[i] \in UInt8
      BY <1>1, <1>4
    <3> QED  BY <3>1, SubSeqProperties
  <2> HIDE DEF d
  <2>2. Len(d) = Len(s)
    BY <1>1, <1>3, <2>1
  <2>3. ASSUME NEW i \in 1 .. Len(d)
        PROVE  d[i] = s[i]
    <3>1. i \in 1 .. n - (k + 1) + 1 /\ (k + 1) + i - 1 = k + i /\ i \in 1 .. Len(F) - k /\ i \in 1 .. Len(s)
      BY <1>1, <1>3, <2>2
    <3> QED  BY <1>2, <1>3, <2>1, <3>1
  <2> QED  BY <2>1, <2>2, <2>3, SeqEqual
<1> HIDE DEF n, d
<1>6. ASSUME k # 0
      PROVE  FALSE
  <2>1. k \in 1 .. Len(F) /\ n \in k .. Len(F)
    BY <1>1, <1>4, <1>6
  <2>2. ~(WantedRequest(d) = Len(d) /\ VerifyCRC(d))
    BY <2>1 DEF NoFrameInside, F, d
  <2> QED  BY <1>5, <2>2
<1> QED  BY <1>6

\* The slave serves the request as it was asked.
LEMMA QuietDispatch ==
  ASSUME CodeSizes, LineTypes, Conversation, Quiet', Dispatch
  PROVE  Conversation'
<1> DEFINE F == AskFrame[ask]
           p == InFrame(request)
           r == StoreCall(request[1], p)
<1>1. /\ request # << >> /\ Unheard = 0 /\ VerifyCRC(request)
      /\ LET o == IF WellFormed(p) THEN Outcome(bank, r) ELSE NoReply
         IN  /\ served' = IF phase = "reading" THEN o ELSE NoReply
             /\ out' = AppendCRC(<<request[1]>> \o IF WellFormed(p) THEN Response(p, o) ELSE Refusal(p))
      /\ request' = << >>
      /\ UNCHANGED <<kind, master, toSlave, toMaster, noises>>
  BY DEF Dispatch, DispatchUnchecked
<1>2. Quiet
  BY <1>1 DEF Quiet, master
<1>3. phase = "reading" /\ Asking
  BY <1>1, <1>2 DEF Conversation, Quiet, AtRest, Answering
<1>4. /\ F \in Seq(UInt8) /\ request \in Seq(UInt8) /\ toSlave \in Seq(UInt8)
      /\ ask \in MasterRequest /\ ValidateProtocol(ask) /\ F = RequestFrame(ask)
      /\ ask \in DOMAIN AskFrame /\ Meant(ask) \in Request
  BY <1>3, Reading
<1>5. PICK k \in 0 .. Len(F) : request \o toSlave = Drop(F, k) /\ (kind.patient => k = 0)
  BY <1>3 DEF Asking
<1>6. WantedRequest(request) = Len(request)
  <2>1. WantedRequest(request) \in Nat
    BY <1>4, WantedNumber
  <2> DEFINE w == WantedRequest(request)
  <2>2. w \in Nat /\ Len(request) \in Nat /\ w - Len(request) = 0
    BY <1>1, <1>4, <2>1 DEF Unheard
  <2> HIDE DEF w
  <2>3. w = Len(request)
    BY <2>2
  <2> QED  BY <2>3 DEF w
<1>7. k = 0
  <2>1. ASSUME ~kind.patient
        PROVE  k = 0
    <3>1. NoFrameInside
      BY <1>2, <2>1 DEF Quiet
    <3> QED  BY <1>1, <1>4, <1>5, <1>6, <3>1, CutIsNoFrame
  <2> QED  BY <1>5, <2>1
<1>8. request = RequestFrame(ask) /\ toSlave = << >>
  <2>1. request \o toSlave = F
    BY <1>4, <1>5, <1>7, DropEnds
  <2>2. toSlave = << >>
    <3>1. Wants(WantedRequest(request), request, toSlave)
      BY <1>3, <2>1, SlaveHears
    <3>2. Unheard = 0 /\ ~(0 \in 1 .. Len(toSlave))
      BY <1>1, <1>4
    <3> QED  BY <3>1, <3>2 DEF Wants, Unheard
  <2> QED  BY <1>3, <1>4, <2>1, <2>2, SlaveHears
<1>9. /\ request[1] = ask.slave /\ p = BuildPDU(ask)
      /\ WellFormed(p) /\ r = Meant(ask)
  <2>1. request[1] = ask.slave /\ p = BuildPDU(ask)
    BY <1>4, <1>8, RequestFramePlaces
  <2>2. WellFormed(BuildPDU(ask)) /\ StoreCall(ask.slave, BuildPDU(ask)) = Meant(ask)
    BY <1>4, CodecAgrees
  <2> QED  BY <2>1, <2>2
<1> HIDE DEF p, r
<1>10. served' = Outcome(bank, Meant(ask)) /\ out' = AnswerFrame(ask, served')
  BY <1>1, <1>3, <1>9 DEF AnswerFrame
<1>11. served' \in Reply /\ Fits(ask, served')
  <2>1. bank \in Banks /\ BitsIn(bank) /\ Word \subseteq UInt16
    BY Sizes, LineBytes DEF LineTypes
  <2> QED  BY <1>4, <1>10, <2>1, StoreAnswers
<1>12. Answering'
  BY <1>1, <1>3, <1>8, <1>10, <1>11 DEF Answering, Asking, master
<1> QED  BY <1>1, <1>3, <1>12 DEF Conversation, master


\* SerialInv is inductive: it holds at first, and
LEMMA LineInit == Init => SerialInv
<1>1. Init => Conversation
  BY DEF Init, Conversation
<1> QED  BY <1>1, TypesInit DEF SerialInv

\* every step keeps it.
LEMMA LineStep ==
  ASSUME CodeSizes, SerialInv, [Next]_vars
  PROVE  SerialInv'
<1>1. LineTypes /\ LineTypes' /\ Conversation
  BY TypesStep DEF SerialInv
<1>2. CASE ~Quiet'
  <2>1. Conversation'
    BY <1>2 DEF Conversation, Quiet
  <2> QED  BY <1>1, <2>1 DEF SerialInv
<1>3. CASE Quiet'
  <2> SUFFICES Conversation'
    BY <1>1 DEF SerialInv
  <2>1. CASE Open \/ Return \/ \E q \in kind.asks : Refuse(q) \/ Write(q)
    BY <1>1, <1>3, <2>1, QuietBetween
  <2>2. CASE Close \/ BadFrame \/ Timeout \/ \E q \in kind.asks : WriteFails(q)
    BY <1>3, <2>2 DEF Close, BadFrame, Timeout, WriteFails, Quiet
  <2>3. CASE Noise
    BY <1>3, <2>3 DEF Noise, Quiet
  <2>4. CASE ReadResponse \/ Received
    BY <1>1, <1>3, <2>4, QuietMaster
  <2>5. CASE ReadRequest \/ RequestTimeout \/ Ignore \/ SendReply
    BY <1>1, <1>3, <2>5, QuietSlave
  <2>6. CASE Dispatch
    BY <1>1, <1>3, <2>6, QuietDispatch
  <2>7. CASE UNCHANGED vars
    BY <1>1, <2>7 DEF vars, Conversation, AtRest, Asking, Answering, Answered
  <2> QED
    BY <2>1, <2>2, <2>3, <2>4, <2>5, <2>6, <2>7 DEF Next, MasterStep, SlaveStep
<1> QED  BY <1>2, <1>3

(***************************************************************************)
(* The inductive invariant, on lines of every kind.                        *)
(***************************************************************************)
THEOREM LineInvariant == ASSUME CodeSizes PROVE Spec => []SerialInv
<1>1. SerialInv /\ [Next]_vars => SerialInv'
  BY LineStep
<1> QED  BY <1>1, LineInit, PTL DEF Spec

(***************************************************************************)
(* On a line without noise that was at rest when the port was opened, with *)
(* timeouts that are long enough, every request that Execute sends gets a  *)
(* result from the slave and none ends in an error (rtu.go:177-234), for   *)
(* any requests, in any order, and whatever broke off on the line before.  *)
(***************************************************************************)
THEOREM QuietAnswered == ASSUME CodeSizes PROVE Spec => QuietAnswers
<1>1. ASSUME SerialInv, kind.patient, session = "quiet", MasterStep, phase' = "done"
      PROVE  result'.kind \in {"values", "exception"}
  <2>1. LineTypes /\ phase = "reading"
    BY <1>1 DEF SerialInv, MasterStep, ReadResponse, Received, BadFrame, Timeout, TimedOut
  <2>2. Asking \/ Answering
    BY <1>1, <2>1 DEF SerialInv, Conversation
  <2>3. CASE Answering /\ out = << >>
    <3>1. /\ ~BadHead /\ Wants(WantedResponse(response), response, toMaster)
          /\ toMaster = << >> => response = AnswerFrame(ask, served)
      BY <2>1, <2>3, MasterHears
    <3>2. /\ ask \in MasterRequest /\ ValidateProtocol(ask) /\ Fits(ask, served)
          /\ toMaster \in Seq(UInt8)
      BY <2>1, <2>3, Reading DEF Answering
    <3>3. IF toMaster = << >> THEN Missing = 0 ELSE Missing \in 1 .. Len(toMaster)
      BY <3>1 DEF Wants, Missing
    <3>4. toMaster = << >> => /\ VerifyCRC(response)
                              /\ InFrame(response) = Response(BuildPDU(ask), served)
      BY <3>1, <3>2, AnswerFramePlaces
    <3>5. ~BadFrame
      <4>1. ~(Missing = 0 /\ ~VerifyCRC(response))
        <5> HIDE DEF Missing
        <5> QED  BY <3>2, <3>3, <3>4
      <4> QED  BY <3>1, <4>1 DEF BadFrame
    <3>6. ~Timeout
      <4>1. ASSUME Timeout PROVE FALSE
        <5>1. Missing > 0 /\ Len(toMaster) < Missing
          BY <1>1, <4>1 DEF Timeout, TimedOut
        <5> HIDE DEF Missing
        <5>2. Len(toMaster) \in Nat
          BY <3>2
        <5> QED  BY <3>3, <5>1, <5>2
      <4> QED  BY <4>1
    <3>7. ~ReadResponse
      BY <1>1, <2>1 DEF ReadResponse
    <3>8. CASE Received
      <4>1. result' = Parse(ask, InFrame(response)) /\ Missing = 0
        BY <3>8 DEF Received, Finish
      <4>2. toMaster = << >>
        <5> HIDE DEF Missing
        <5> QED  BY <3>3, <4>1
      <4>3. result' = Truth(ask, served)
        BY <3>2, <3>4, <4>1, <4>2, AnswersAgree
      <4> QED  BY <4>3 DEF Truth, Result
    <3> QED  BY <1>1, <3>5, <3>6, <3>7, <3>8 DEF MasterStep
  <2>4. CASE response = << >> /\ toMaster = << >> /\ Outstanding
    <3>1. Missing = 2 /\ ~BadHead
      BY <2>4, NothingRead
    <3>2. ~(Missing \in 1 .. Len(toMaster)) /\ Missing # 0
      <4>1. Len(toMaster) = 0
        BY <2>4
      <4> HIDE DEF Missing
      <4> QED  BY <3>1, <4>1
    <3> QED  BY <1>1, <2>4, <3>1, <3>2
         DEF MasterStep, ReadResponse, Received, BadFrame, Timeout, TimedOut
  <2>5. CASE Asking
    <3>1. Outstanding
      <4>1. request \o toSlave = AskFrame[ask]
        <5>1. request \o toSlave = Drop(AskFrame[ask], 0)
          BY <1>1, <2>5 DEF Asking
        <5>2. AskFrame[ask] \in Seq(UInt8)
          BY <2>1, Reading
        <5> QED  BY <5>1, <5>2, DropEnds
      <4> QED  BY <2>1, <4>1, SlaveHears DEF Outstanding
    <3> QED  BY <2>4, <2>5, <3>1 DEF Asking
  <2>6. CASE Answering /\ out # << >>
    BY <2>4, <2>6 DEF Answering, Outstanding
  <2> QED  BY <2>2, <2>3, <2>5, <2>6
<1>2. SerialInv /\ [Next]_vars =>
        [kind.patient /\ session = "quiet" /\ MasterStep /\ phase' = "done" =>
           result'.kind \in {"values", "exception"}]_vars
  BY <1>1
<1> QED  BY <1>2, LineInvariant, PTL DEF Spec, QuietAnswers

-----------------------------------------------------------------------------
(***************************************************************************)
(* What a result stands for where there is no noise.                       *)
(***************************************************************************)
Noiseless == kind.noises = 0 /\ (kind.patient \/ NoFrameInside)

\* The line of an open port is as it was when the port was opened, and what
\* was read of an open port is kept.
StaysQuiet ==
  kind.noises = 0 =>
    /\ session # "noisy"
    /\ phase = "done" /\ result.kind = "values" => session # "closed"

\* Only Received has values to return, and it leaves the port open.
LEMMA QuietStays == TypeOK /\ StaysQuiet /\ [Next]_vars => StaysQuiet'
<1> SUFFICES ASSUME TypeOK, StaysQuiet, [Next]_vars, kind'.noises = 0
             PROVE  /\ session' # "noisy"
                    /\ phase' = "done" /\ result'.kind = "values" => session' # "closed"
  BY DEF StaysQuiet
<1>1. Error.kind # "values"
  BY DEF Error, Result
<1>2. kind.noises = 0 /\ ~Noise
  <2>1. kind' = kind
    BY DEF Next, Open, Close, Return, Noise, Refuse, Write, WriteFails, MasterStep, SlaveStep,
           ReadResponse, Received, BadFrame, Timeout, ReadRequest, RequestTimeout, Ignore,
           Dispatch, DispatchUnchecked, SendReply, vars
  <2>2. kind.noises = 0 /\ noises = 0
    BY <2>1 DEF TypeOK
  <2> QED  BY <2>2 DEF Noise
<1>3. session # "noisy" /\ (phase = "done" /\ result.kind = "values" => session # "closed")
  BY <1>2 DEF StaysQuiet
<1>4. CASE Open \/ Close \/ Return
  BY <1>3, <1>4 DEF Open, Close, Return
<1>5. CASE \E q \in kind.asks : Refuse(q) \/ Write(q) \/ WriteFails(q)
  BY <1>1, <1>3, <1>5 DEF Refuse, Write, WriteFails, Finish
<1>6. CASE ReadResponse \/ BadFrame \/ Timeout
  BY <1>1, <1>3, <1>6 DEF ReadResponse, BadFrame, Timeout, Finish
<1>7. CASE Received
  BY <1>3, <1>7 DEF Received, Finish, TypeOK
<1>8. CASE SlaveStep \/ UNCHANGED vars
  BY <1>3, <1>8 DEF SlaveStep, ReadRequest, RequestTimeout, Ignore, Dispatch, DispatchUnchecked,
                    SendReply, master, vars
<1> QED  BY <1>2, <1>4, <1>5, <1>6, <1>7, <1>8 DEF Next, MasterStep

(***************************************************************************)
(* On a line without noise a result is what the store did for this request *)
(* as long as nothing was under way when the port was opened, although RTU *)
(* has no transaction id (rtu.go:177-195): the answers of earlier requests *)
(* never slip in.  Where timeouts may be too short this is of requests     *)
(* that hold no frame of their own behind their first byte.                *)
(***************************************************************************)
THEOREM NoiselessInStep == ASSUME CodeSizes PROVE Spec => [](Noiseless => InStep)
<1>1. ASSUME SerialInv, StaysQuiet, Noiseless
      PROVE  InStep
  <2>1. SUFFICES ASSUME phase = "done", result.kind = "values", session # "late"
                 PROVE  /\ served # NoReply /\ served.ok
                        /\ result.values = IF ask.fc \in ReadCodes THEN served.values
                                           ELSE Meant(ask).values
    BY DEF InStep
  <2>2. session = "quiet"
    BY <1>1, <2>1 DEF StaysQuiet, Noiseless, SerialInv, LineTypes, TypeOK
  <2>3. served \in Reply /\ result = Truth(ask, served)
    BY <1>1, <2>1, <2>2 DEF SerialInv, Conversation, Noiseless, Answered
  <2>4. served.ok
    BY <2>1, <2>3 DEF Truth, Result
  <2> QED  BY <2>3, <2>4, ClientAssumption DEF Truth, Result
<1>2. SerialInv /\ StaysQuiet /\ Noiseless => InStep
  BY <1>1
<1>3. Init => StaysQuiet
  BY DEF Init, StaysQuiet
<1>4. SerialInv => TypeOK
  BY DEF SerialInv, LineTypes
<1> QED  BY <1>2, <1>3, <1>4, QuietStays, LineInvariant, PTL DEF Spec

-----------------------------------------------------------------------------
(***************************************************************************)
(* What a slave serves where there is no noise and it does not give up too *)
(* early.  Whole is the least set that a number of whole frames is in.     *)
(***************************************************************************)
Extends(X) ==
  /\ << >> \in X
  /\ \A q \in DOMAIN AskFrame : \A s \in X : AskFrame[q] \o s \in X

Whole == {s \in Seq(UInt8) : \A X \in SUBSET Seq(UInt8) : Extends(X) => s \in X}

\* The frames of the line's requests.
LEMMA SentFrame ==
  ASSUME NEW q \in DOMAIN AskFrame
  PROVE  /\ q \in MasterRequest /\ ValidateProtocol(q)
         /\ AskFrame[q] = RequestFrame(q) /\ AskFrame[q] \in Seq(UInt8)
<1>1. q \in MasterRequest /\ ValidateProtocol(q)
  <2>1. ValidateProtocol(q) /\ \E k \in Lines : q \in k.asks
    BY DEF AskFrame
  <2> QED  BY <2>1, LineAssumption
<1>2. AskFrame[q] = RequestFrame(q)
  BY DEF AskFrame, RequestFrame
<1> QED  BY <1>1, <1>2, RequestFramePlaces

\* Nothing is whole, and so is a frame before what is whole.
LEMMA WholeExtends == Whole \in SUBSET Seq(UInt8) /\ Extends(Whole)
<1>1. Whole \in SUBSET Seq(UInt8)
  BY DEF Whole
<1>2. << >> \in Whole
  BY DEF Whole, Extends
<1>3. ASSUME NEW q \in DOMAIN AskFrame, NEW s \in Whole
      PROVE  AskFrame[q] \o s \in Whole
  <2>1. AskFrame[q] \o s \in Seq(UInt8)
    BY <1>1, SentFrame, ConcatProperties
  <2>2. ASSUME NEW X \in SUBSET Seq(UInt8), Extends(X)
        PROVE  AskFrame[q] \o s \in X
    <3>1. s \in X
      BY <2>2 DEF Whole
    <3> QED  BY <2>2, <3>1 DEF Extends
  <2> QED  BY <2>1, <2>2 DEF Whole
<1> QED  BY <1>1, <1>2, <1>3 DEF Extends

\* Induction: what nothing has, and a frame before what has it, has all that is whole.
LEMMA WholeInduction ==
  ASSUME NEW X \in SUBSET Seq(UInt8), Extends(X)
  PROVE  Whole \subseteq X
BY DEF Whole

\* What is whole is nothing, or begins with a frame;
LEMMA WholeBegins ==
  ASSUME NEW s \in Whole, s # << >>
  PROVE  \E q \in DOMAIN AskFrame : \E rest \in Whole : s = AskFrame[q] \o rest
<1> DEFINE X == {u \in Whole : u # << >> => \E q \in DOMAIN AskFrame : \E rest \in Whole :
                                              u = AskFrame[q] \o rest}
<1>1. X \in SUBSET Seq(UInt8) /\ X \subseteq Whole
  BY WholeExtends
<1>2. Extends(X)
  <2>1. << >> \in X
    BY WholeExtends DEF Extends
  <2>2. ASSUME NEW q \in DOMAIN AskFrame, NEW u \in X
        PROVE  AskFrame[q] \o u \in X
    <3>1. u \in Whole /\ AskFrame[q] \o u \in Whole
      BY WholeExtends DEF Extends
    <3> QED  BY <3>1
  <2> QED  BY <2>1, <2>2 DEF Extends
<1>3. s \in X
  <2> HIDE DEF X
  <2> QED  BY <1>1, <1>2, WholeInduction
<1> QED  BY <1>3

\* and with a frame behind it is whole.
LEMMA WholeAppends ==
  ASSUME NEW s \in Whole, NEW q \in DOMAIN AskFrame
  PROVE  s \o AskFrame[q] \in Whole
<1> DEFINE X == {u \in Whole : u \o AskFrame[q] \in Whole}
<1>1. X \in SUBSET Seq(UInt8)
  BY WholeExtends
<1>2. Extends(X)
  <2>1. << >> \in X
    <3>1. << >> \in Whole /\ AskFrame[q] \o << >> \in Whole
      BY WholeExtends DEF Extends
    <3>2. AskFrame[q] \o << >> = << >> \o AskFrame[q]
      BY SentFrame, ConcatEmptySeq
    <3> QED  BY <3>1, <3>2
  <2>2. ASSUME NEW p \in DOMAIN AskFrame, NEW u \in X
        PROVE  AskFrame[p] \o u \in X
    <3>1. u \in Whole /\ u \o AskFrame[q] \in Whole
      OBVIOUS
    <3>2. AskFrame[p] \o u \in Whole /\ AskFrame[p] \o (u \o AskFrame[q]) \in Whole
      BY <3>1, WholeExtends DEF Extends
    <3>3. (AskFrame[p] \o u) \o AskFrame[q] = AskFrame[p] \o (u \o AskFrame[q])
      <4>1. AskFrame[p] \in Seq(UInt8) /\ AskFrame[q] \in Seq(UInt8) /\ u \in Seq(UInt8)
        BY <3>1, SentFrame, WholeExtends
      <4> QED  BY <4>1, ConcatAssociative, SMTT(20)
    <3> QED  BY <3>2, <3>3
  <2> QED  BY <2>1, <2>2 DEF Extends
<1>3. s \in X
  <2> HIDE DEF X
  <2> QED  BY <1>1, <1>2, WholeInduction
<1> QED  BY <1>3

\* The first bytes of two parts are those of the first part.
LEMMA CutsFirst ==
  ASSUME NEW s \in Seq(UInt8), NEW t \in Seq(UInt8), NEW n \in 0 .. Len(s)
  PROVE  /\ SubSeq(s \o t, 1, n) = SubSeq(s, 1, n)
         /\ Drop(s \o t, n) = Drop(s, n) \o t
<1> DEFINE line == s \o t
           d == Drop(s, n)
<1>1. /\ line \in Seq(UInt8) /\ Len(line) = Len(s) + Len(t) /\ Len(s) \in Nat /\ Len(t) \in Nat
      /\ \A i \in 1 .. Len(s) : line[i] = s[i]
      /\ \A i \in 1 .. Len(t) : line[Len(s) + i] = t[i]
  BY Parts
<1> HIDE DEF line
<1>2. n \in 0 .. Len(line) /\ n \in Nat
  BY <1>1
<1>3. SubSeq(line, 1, n) = SubSeq(s, 1, n)
  <2> DEFINE a == SubSeq(line, 1, n)
             b == SubSeq(s, 1, n)
  <2>1. /\ 1 \in Int /\ n \in Int
        /\ \A i \in 1 .. n : line[i] \in UInt8 /\ s[i] \in UInt8 /\ line[i] = s[i]
    BY <1>1, <1>2
  <2>2. a \in Seq(UInt8) /\ Len(a) = (IF 1 <= n THEN n - 1 + 1 ELSE 0) /\ \A i \in 1 .. n - 1 + 1 : a[i] = line[1 + i - 1]
    BY <2>1, SubSeqProperties
  <2>3. b \in Seq(UInt8) /\ Len(b) = (IF 1 <= n THEN n - 1 + 1 ELSE 0) /\ \A i \in 1 .. n - 1 + 1 : b[i] = s[1 + i - 1]
    BY <2>1, SubSeqProperties
  <2> HIDE DEF a, b
  <2>4. \A i \in 1 .. Len(a) : a[i] = b[i]
    BY <1>2, <2>1, <2>2, <2>3
  <2>5. a = b
    BY <2>2, <2>3, <2>4, SeqEqual
  <2> QED  BY <2>5 DEF a, b
<1>4. /\ d \in Seq(UInt8) /\ Len(d) = Len(s) - n
      /\ \A i \in 1 .. Len(s) - n : d[i] = s[n + i]
  BY DropType
<1> HIDE DEF d
<1>5. /\ d \o t \in Seq(UInt8) /\ Len(d \o t) = Len(d) + Len(t)
      /\ \A i \in 1 .. Len(d) : (d \o t)[i] = d[i]
      /\ \A i \in 1 .. Len(t) : (d \o t)[Len(d) + i] = t[i]
  <2>1. d \in Seq(UInt8)
    BY <1>4
  <2> QED  BY <2>1, Parts
<1>6. /\ Drop(line, n) \in Seq(UInt8) /\ Len(Drop(line, n)) = Len(line) - n
      /\ \A i \in 1 .. Len(line) - n : Drop(line, n)[i] = line[n + i]
  BY <1>1, <1>2, DropType
<1>7. Len(Drop(line, n)) = Len(d \o t)
  BY <1>1, <1>2, <1>4, <1>5, <1>6
<1>8. ASSUME NEW i \in 1 .. Len(Drop(line, n))
      PROVE  Drop(line, n)[i] = (d \o t)[i]
  <2>1. i \in 1 .. Len(line) - n /\ Drop(line, n)[i] = line[n + i]
    BY <1>6
  <2>2. CASE i <= Len(s) - n
    <3>1. i \in 1 .. Len(s) - n /\ n + i \in 1 .. Len(s)
      BY <1>1, <1>2, <2>2
    <3> QED  BY <1>1, <1>4, <1>5, <2>1, <3>1
  <2>3. CASE i > Len(s) - n
    <3> DEFINE j == i - (Len(s) - n)
    <3>1. j \in 1 .. Len(t) /\ n + i = Len(s) + j /\ i = Len(d) + j
      BY <1>1, <1>2, <1>4, <2>1, <2>3
    <3> HIDE DEF j
    <3> QED  BY <1>1, <1>5, <2>1, <3>1
  <2>4. i \in Int /\ Len(s) - n \in Int
    BY <1>1, <1>2, <2>1
  <2>5. i <= Len(s) - n \/ i > Len(s) - n
    BY <2>4
  <2> QED  BY <2>2, <2>3, <2>5
<1>9. Drop(line, n) = d \o t
  BY <1>5, <1>6, <1>7, <1>8, SeqEqual
<1> QED  BY <1>3, <1>9 DEF line, d

\* What the slave has read is the start of a frame that was sent.
SlaveInStep ==
  kind.patient /\ noises = 0 =>
    \/ request = << >> /\ toSlave \in Whole
    \/ \E q \in DOMAIN AskFrame : \E t \in Seq(UInt8) : \E rest \in Whole :
         request \o t = AskFrame[q] /\ toSlave = t \o rest

\* There it wants no more than there is, and accepts the frame when it is complete.
LEMMA WholeHeard ==
  ASSUME TypeOK, kind.patient, noises = 0, SlaveInStep, request # << >> \/ toSlave # << >>
  PROVE  \E q \in DOMAIN AskFrame : \E t \in Seq(UInt8) : \E rest \in Whole :
           /\ request \o t = AskFrame[q] /\ toSlave = t \o rest
           /\ IF t = << >> THEN Unheard = 0 /\ request = AskFrame[q] /\ toSlave = rest
              ELSE Unheard \in 1 .. Len(t) /\ Unheard <= Len(toSlave)
           /\ request = AskFrame[q] => VerifyCRC(request) /\ ~Broadcast
<1>1. request \in Seq(UInt8) /\ toSlave \in Seq(UInt8)
  BY LineBytes
<1>2. PICK q \in DOMAIN AskFrame, t \in Seq(UInt8), rest \in Whole :
        request \o t = AskFrame[q] /\ toSlave = t \o rest
  <2>1. CASE request = << >> /\ toSlave \in Whole
    <3>1. PICK q \in DOMAIN AskFrame : \E rest \in Whole : toSlave = AskFrame[q] \o rest
      BY <2>1, WholeBegins
    <3>2. AskFrame[q] \in Seq(UInt8) /\ request \o AskFrame[q] = AskFrame[q]
      BY <2>1, SentFrame, ConcatEmptySeq
    <3> QED  BY <3>1, <3>2
  <2> QED  BY <2>1 DEF SlaveInStep
<1>3. /\ q \in MasterRequest /\ ValidateProtocol(q) /\ AskFrame[q] = RequestFrame(q)
      /\ rest \in Seq(UInt8)
  BY SentFrame, WholeExtends
<1>4. IF t = << >> THEN Unheard = 0 ELSE Unheard \in 1 .. Len(t)
  <2>1. Wants(WantedRequest(request), request, t)
    BY <1>1, <1>2, <1>3, RequestCut
  <2> QED  BY <2>1 DEF Wants, Unheard
<1>5. Len(toSlave) = Len(t) + Len(rest) /\ Len(t) \in Nat /\ Len(rest) \in Nat
  BY <1>2, <1>3, Parts
<1>6. t = << >> => request = AskFrame[q] /\ toSlave = rest
  BY <1>1, <1>2, <1>3, Parts
<1>7. request = AskFrame[q] => VerifyCRC(request) /\ ~Broadcast
  <2>1. VerifyCRC(RequestFrame(q)) /\ RequestFrame(q)[1] \in ValidSlave
    BY <1>3, RequestFramePlaces
  <2>2. 0 \notin ValidSlave
    BY DEF ValidSlave
  <2> QED  BY <1>3, <2>1, <2>2 DEF Broadcast
<1>8. t # << >> => Unheard <= Len(toSlave)
  <2> HIDE DEF Unheard
  <2> QED  BY <1>4, <1>5
<1> HIDE DEF Unheard
<1> QED  BY <1>2, <1>4, <1>6, <1>7, <1>8

\* Every step keeps the slave in step.
LEMMA SlaveStaysInStep ==
  ASSUME TypeOK, TypeOK', SlaveInStep, [Next]_vars
  PROVE  SlaveInStep'
<1> SUFFICES ASSUME kind'.patient, noises' = 0
             PROVE  SlaveInStep'
  BY DEF SlaveInStep
<1>1. kind.patient /\ noises = 0 /\ ~Noise
  <2>1. kind' = kind
    BY DEF Next, Open, Close, Return, Noise, Refuse, Write, WriteFails, MasterStep, SlaveStep,
           ReadResponse, Received, BadFrame, Timeout, ReadRequest, RequestTimeout, Ignore,
           Dispatch, DispatchUnchecked, SendReply, vars
  <2>2. noises \in Nat
    <3>1. kind.noises \in Nat
      BY LineAssumption DEF TypeOK
    <3> QED  BY <3>1 DEF TypeOK
  <2>3. ~Noise
    BY <2>2 DEF Noise
  <2>4. noises' = noises
    BY <2>3 DEF Next, Open, Close, Return, Refuse, Write, WriteFails, MasterStep, SlaveStep,
           ReadResponse, Received, BadFrame, Timeout, ReadRequest, RequestTimeout, Ignore,
           Dispatch, DispatchUnchecked, SendReply, vars
  <2> QED  BY <2>1, <2>3, <2>4
<1>2. CASE UNCHANGED <<request, toSlave>>
  BY <1>1, <1>2 DEF SlaveInStep
<1>3. ASSUME NEW q \in DOMAIN AskFrame, request' = request, toSlave' = toSlave \o AskFrame[q]
      PROVE  SlaveInStep'
  <2>1. CASE request = << >> /\ toSlave \in Whole
    <3>1. toSlave' \in Whole
      BY <1>3, <2>1, WholeAppends
    <3> QED  BY <1>3, <2>1, <3>1 DEF SlaveInStep
  <2>2. ASSUME NEW p \in DOMAIN AskFrame, NEW t \in Seq(UInt8), NEW rest \in Whole,
               request \o t = AskFrame[p], toSlave = t \o rest
        PROVE  SlaveInStep'
    <3>1. rest \o AskFrame[q] \in Whole
      BY WholeAppends
    <3>2. toSlave' = t \o (rest \o AskFrame[q])
      <4>1. rest \in Seq(UInt8) /\ AskFrame[q] \in Seq(UInt8)
        BY WholeExtends, SentFrame
      <4>2. (t \o rest) \o AskFrame[q] = t \o (rest \o AskFrame[q])
        BY <4>1, ConcatAssociative
      <4> QED  BY <1>3, <2>2, <4>2
    <3>3. request' \o t = AskFrame[p]
      BY <1>3, <2>2
    <3> QED  BY <3>1, <3>2, <3>3 DEF SlaveInStep
  <2> QED  BY <1>1, <2>1, <2>2 DEF SlaveInStep
<1>4. ASSUME NEW q \in kind.asks, Ready(q)
      PROVE  q \in DOMAIN AskFrame
  BY <1>4 DEF Ready, AskFrame, TypeOK
<1>5. CASE \E q \in kind.asks : Refuse(q) \/ Write(q) \/ WriteFails(q)
  <2>1. ASSUME NEW q \in kind.asks, Refuse(q)
        PROVE  SlaveInStep'
    BY <1>2, <2>1 DEF Refuse, slave
  <2>2. ASSUME NEW q \in kind.asks, Write(q) \/ WriteFails(q)
        PROVE  SlaveInStep'
    <3>1. /\ q \in DOMAIN AskFrame /\ request' = request
          /\ toSlave' \in {toSlave, toSlave \o AskFrame[q]}
      BY <1>4, <2>2 DEF Write, WriteFails, slave
    <3> QED  BY <1>2, <1>3, <3>1
  <2> QED  BY <1>5, <2>1, <2>2
<1>6. CASE ReadRequest
  <2>1. /\ Unheard \in 1 .. Len(toSlave)
        /\ request' = request \o SubSeq(toSlave, 1, Unheard)
        /\ toSlave' = Drop(toSlave, Unheard)
    BY <1>6 DEF ReadRequest
  <2> HIDE DEF Unheard
  <2>2. toSlave # << >> /\ Unheard # 0
    BY <2>1
  <2>3. PICK q \in DOMAIN AskFrame, t \in Seq(UInt8), rest \in Whole :
          /\ request \o t = AskFrame[q] /\ toSlave = t \o rest
          /\ Unheard \in 1 .. Len(t)
    BY <1>1, <2>2, WholeHeard
  <2>4. rest \in Seq(UInt8) /\ request \in Seq(UInt8) /\ Unheard \in 0 .. Len(t)
    BY <2>3, WholeExtends, LineBytes
  <2>5. request' = request \o SubSeq(t, 1, Unheard) /\ toSlave' = Drop(t, Unheard) \o rest
    BY <2>1, <2>3, <2>4, CutsFirst
  <2>6. Drop(t, Unheard) \in Seq(UInt8) /\ request' \o Drop(t, Unheard) = AskFrame[q]
    <3>1. (request \o SubSeq(t, 1, Unheard)) \o Drop(t, Unheard) = request \o t
      BY <2>4, Moved
    <3>2. Drop(t, Unheard) \in Seq(UInt8)
      BY <2>4, DropType
    <3> QED  BY <2>3, <2>5, <3>1, <3>2
  <2> QED  BY <2>5, <2>6 DEF SlaveInStep
<1>7. ~RequestTimeout /\ ~Ignore
  <2>1. ASSUME RequestTimeout \/ Ignore
        PROVE  FALSE
    <3>1. request # << >> \/ toSlave # << >>
      BY <2>1 DEF RequestTimeout, Ignore
    <3>2. PICK q \in DOMAIN AskFrame, t \in Seq(UInt8), rest \in Whole :
           /\ request \o t = AskFrame[q] /\ toSlave = t \o rest
           /\ IF t = << >> THEN Unheard = 0 /\ request = AskFrame[q] /\ toSlave = rest
              ELSE Unheard \in 1 .. Len(t) /\ Unheard <= Len(toSlave)
           /\ request = AskFrame[q] => VerifyCRC(request) /\ ~Broadcast
      BY <1>1, <3>1, WholeHeard
    <3>3. Len(toSlave) \in Nat
      BY LineBytes
    <3>4. CASE RequestTimeout
      <4>1. Unheard > 0 /\ Len(toSlave) < Unheard
        BY <1>1, <3>4 DEF RequestTimeout
      <4> HIDE DEF Unheard
      <4> QED  BY <3>2, <3>3, <4>1
    <3>5. CASE Ignore
      <4>1. Unheard < 0 \/ (Unheard = 0 /\ (~VerifyCRC(request) \/ Broadcast))
        BY <3>5 DEF Ignore
      <4> HIDE DEF Unheard, Broadcast
      <4> QED  BY <3>2, <4>1
    <3> QED  BY <2>1, <3>4, <3>5
  <2> QED  BY <2>1
<1>8. CASE Dispatch
  <2>1. /\ request # << >> /\ Unheard = 0
        /\ request' = << >> /\ toSlave' = toSlave
    BY <1>8 DEF Dispatch, DispatchUnchecked
  <2> HIDE DEF Unheard
  <2>2. toSlave \in Whole
    BY <1>1, <2>1, WholeHeard
  <2> QED  BY <2>1, <2>2 DEF SlaveInStep
<1>9. CASE Open \/ Close \/ Return \/ MasterStep \/ SendReply \/ UNCHANGED vars
  BY <1>2, <1>9 DEF Open, Close, Return, MasterStep, ReadResponse, Received, BadFrame, Timeout,
                    SendReply, slave, vars
<1> QED  BY <1>1, <1>5, <1>6, <1>7, <1>8, <1>9 DEF Next, SlaveStep

(***************************************************************************)
(* Where there is no noise and the slave's timeouts are long enough, it    *)
(* serves nothing but frames that a master sent, whole (rtu.go:419-435):   *)
(* for any requests, any number of them on the line at once, and whatever  *)
(* the master did with its port meanwhile.                                 *)
(***************************************************************************)
THEOREM SentFramesServed ==
  ASSUME CodeSizes
  PROVE  Spec /\ [](kind.patient /\ noises = 0) => OnlySentFramesServed
<1>1. Init => SlaveInStep
  BY WholeExtends DEF Init, SlaveInStep, Extends
<1>2. TypeOK /\ TypeOK' /\ SlaveInStep /\ [Next]_vars => SlaveInStep'
  BY SlaveStaysInStep
<1>3. ASSUME TypeOK, SlaveInStep, kind.patient, noises = 0, Next, out = << >>, out' # << >>
      PROVE  \E q \in DOMAIN AskFrame : AskFrame[q] = request
  <2>1. Dispatch
    BY <1>3 DEF Next, Open, Close, Return, Noise, Refuse, Write, WriteFails, MasterStep, SlaveStep,
           ReadResponse, Received, BadFrame, Timeout, ReadRequest, RequestTimeout, Ignore,
           SendReply, slave
  <2>2. request # << >> /\ Unheard = 0
    BY <2>1 DEF Dispatch, DispatchUnchecked
  <2> HIDE DEF Unheard
  <2> QED  BY <1>3, <2>2, WholeHeard
<1>4. TypeOK /\ SlaveInStep /\ (kind.patient /\ noises = 0) /\ [Next]_vars =>
        [out = << >> /\ out' # << >> => \E q \in DOMAIN AskFrame : AskFrame[q] = request]_vars
  BY <1>3
<1> QED  BY <1>1, <1>2, <1>4, LineTypeCorrect, PTL DEF Spec, OnlySentFramesServed
=============================================================================
