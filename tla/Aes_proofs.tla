----------------------------- MODULE Aes_proofs ------------------------------
(***************************************************************************)
(* Proofs about the block cipher of aes.c, for every key and block and for *)
(* each of the three builds: InvCipher() undoes Cipher(), and Cipher() and *)
(* the counter are those of the standard.  Each rests on laws of bytes and *)
(* columns.  That the tables of aes.c undo each other is proved from their *)
(* entries; that they are the standard's is TablesAssumption.              *)
(***************************************************************************)
EXTENDS AesTables, SequenceTheorems, WellFoundedInduction, TLAPS

-----------------------------------------------------------------------------
(* Recursive functions                                                     *)

\* Induction: the naturals are well founded.
LEMMA SetInduction ==
    ASSUME NEW T, 0 \in T, \A n \in Nat : n \in T => n + 1 \in T
    PROVE  Nat \subseteq T
<1> DEFINE R == OpToRel(<, Nat)
           U == Nat \ T
<1> SUFFICES ASSUME U # {} PROVE FALSE
  OBVIOUS
<1>1. IsWellFoundedOn(R, Nat) /\ U \subseteq Nat
  BY NatLessThanWellFounded
<1>2. \A m, n \in Nat : m < n => <<m, n>> \in R
  BY DEF OpToRel
<1> HIDE DEF R
<1>3. PICK x \in U : \A y \in U : ~(<<y, x>> \in R)
  BY <1>1, WFMin
<1>4. x \in Nat /\ x # 0
  OBVIOUS
<1>5. x - 1 \in Nat /\ x - 1 < x /\ (x - 1) + 1 = x
  BY <1>4
<1>6. x - 1 \in U
  BY <1>4, <1>5
<1> QED BY <1>2, <1>3, <1>4, <1>5, <1>6

Recursion(f, z, step, n) ==
    f[0] = z /\ \A i \in Nat : i < n => f[i + 1] = step[<<i, f[i]>>]

\* Two functions that follow the same recursion agree as far as both go.
LEMMA SameRecursion ==
    ASSUME NEW z, NEW step, NEW m \in Nat, NEW n \in Nat, NEW f, NEW g,
           Recursion(f, z, step, m), Recursion(g, z, step, n)
    PROVE  \A i \in Nat : i <= m /\ i <= n => f[i] = g[i]
<1> DEFINE T == {i \in Nat : i <= m /\ i <= n => f[i] = g[i]}
<1>1. 0 \in T
  BY DEF Recursion
<1>2. ASSUME NEW i \in Nat, i \in T PROVE i + 1 \in T
  <2> SUFFICES ASSUME i + 1 <= m, i + 1 <= n PROVE f[i + 1] = g[i + 1]
    OBVIOUS
  <2>1. i < m /\ i < n /\ i <= m /\ i <= n
    OBVIOUS
  <2> QED BY <1>2, <2>1 DEF Recursion
<1> HIDE DEF T
<1>3. Nat \subseteq T
  BY <1>1, <1>2, SetInduction
<1> QED BY <1>3 DEF T

\* A recursion can be followed for any number of steps.
LEMMA RecursionUpTo ==
    ASSUME NEW S, NEW z \in S, NEW step \in [Nat \X S -> S], NEW n \in Nat
    PROVE  \E f \in [0..n -> S] : Recursion(f, z, step, n)
<1> DEFINE T == {m \in Nat : \E f \in [0..m -> S] : Recursion(f, z, step, m)}
<1>1. 0 \in T
  <2> DEFINE f == [i \in 0..0 |-> z]
  <2>1. f \in [0..0 -> S] /\ f[0] = z
    OBVIOUS
  <2>2. Recursion(f, z, step, 0)
    BY <2>1 DEF Recursion
  <2> HIDE DEF f
  <2> QED BY <2>1, <2>2
<1>2. ASSUME NEW m \in Nat, m \in T PROVE m + 1 \in T
  <2>1. PICK f \in [0..m -> S] : Recursion(f, z, step, m)
    BY <1>2
  <2> DEFINE g == [i \in 0..m + 1 |-> IF i = m + 1 THEN step[<<m, f[m]>>] ELSE f[i]]
  <2>2. f[m] \in S /\ step[<<m, f[m]>>] \in S
    OBVIOUS
  <2>3. g \in [0..m + 1 -> S]
    BY <2>2
  <2>4. \A i \in 0..m : g[i] = f[i]
    OBVIOUS
  <2>5. g[m + 1] = step[<<m, f[m]>>]
    OBVIOUS
  <2> HIDE DEF g
  <2>6. g[0] = z
    BY <2>1, <2>4 DEF Recursion
  <2>7. ASSUME NEW i \in Nat, i < m + 1 PROVE g[i + 1] = step[<<i, g[i]>>]
    <3>1. CASE i = m
      BY <2>4, <2>5, <3>1
    <3>2. CASE i # m
      <4>1. i < m /\ i \in 0..m /\ i + 1 \in 0..m
        BY <2>7, <3>2
      <4> QED BY <2>1, <2>4, <4>1 DEF Recursion
    <3> QED BY <3>1, <3>2
  <2>8. Recursion(g, z, step, m + 1)
    BY <2>6, <2>7 DEF Recursion
  <2> QED BY <2>3, <2>8
<1> HIDE DEF T
<1>3. Nat \subseteq T
  BY <1>1, <1>2, SetInduction
<1> QED BY <1>3 DEF T

\* ... and so without end: the function that a recursion defines exists.
LEMMA RecursionExists ==
    ASSUME NEW S, NEW z \in S, NEW step \in [Nat \X S -> S]
    PROVE  \E f \in [Nat -> S] : \A n \in Nat : Recursion(f, z, step, n)
<1> DEFINE Up(n) == CHOOSE f \in [0..n -> S] : Recursion(f, z, step, n)
           f == [n \in Nat |-> Up(n)[n]]
<1>1. \A n \in Nat : Up(n) \in [0..n -> S] /\ Recursion(Up(n), z, step, n)
  BY RecursionUpTo
<1>2. f \in [Nat -> S]
  BY <1>1
<1>3. \A n \in Nat : f[n] = Up(n)[n]
  OBVIOUS
<1> HIDE DEF f, Up
<1>4. f[0] = z
  BY <1>1, <1>3 DEF Recursion
<1>5. ASSUME NEW n \in Nat PROVE f[n + 1] = step[<<n, f[n]>>]
  <2>1. n + 1 \in Nat /\ n < n + 1 /\ n <= n + 1 /\ n <= n
    OBVIOUS
  <2>2. Up(n + 1)[n] = Up(n)[n]
    BY <1>1, <2>1, SameRecursion
  <2>3. Up(n + 1)[n + 1] = step[<<n, Up(n + 1)[n]>>]
    BY <1>1, <2>1 DEF Recursion
  <2> QED BY <1>3, <2>1, <2>2, <2>3
<1> QED BY <1>2, <1>4, <1>5 DEF Recursion


Nibble == 0..15

Bit3(x) == x >= 8
Bit2(x) == x \in {4, 5, 6, 7, 12, 13, 14, 15}
Bit1(x) == x \in {2, 3, 6, 7, 10, 11, 14, 15}
Bit0(x) == x \in {1, 3, 5, 7, 9, 11, 13, 15}

Nx(x, y) == NibbleXor[x + 1][y + 1]

\* NibbleXor is the exclusive or, bit by bit.
LEMMA NibbleBits ==
    ASSUME NEW x \in Nibble, NEW y \in Nibble
    PROVE  /\ Nx(x, y) \in Nibble
           /\ Bit3(Nx(x, y)) <=> (Bit3(x) <=> ~Bit3(y))
           /\ Bit2(Nx(x, y)) <=> (Bit2(x) <=> ~Bit2(y))
           /\ Bit1(Nx(x, y)) <=> (Bit1(x) <=> ~Bit1(y))
           /\ Bit0(Nx(x, y)) <=> (Bit0(x) <=> ~Bit0(y))
  BY DEF NibbleXor, Nx, Nibble, Bit0, Bit1, Bit2, Bit3

\* A half byte is given by its bits.
LEMMA SameNibble ==
    ASSUME NEW x \in Nibble, NEW y \in Nibble,
           Bit3(x) <=> Bit3(y), Bit2(x) <=> Bit2(y), Bit1(x) <=> Bit1(y), Bit0(x) <=> Bit0(y)
    PROVE  x = y
  BY DEF Nibble, Bit0, Bit1, Bit2, Bit3

\* The exclusive or of half bytes is a group in which each is its own inverse.
LEMMA NibbleLaws ==
    ASSUME NEW x \in Nibble, NEW y \in Nibble, NEW z \in Nibble
    PROVE  /\ Nx(x, y) \in Nibble
           /\ Nx(x, y) = Nx(y, x)
           /\ Nx(Nx(x, y), z) = Nx(x, Nx(y, z))
           /\ Nx(x, x) = 0 /\ Nx(x, 0) = x
<1>1. 0 \in Nibble /\ ~Bit3(0) /\ ~Bit2(0) /\ ~Bit1(0) /\ ~Bit0(0)
  BY DEF Nibble, Bit0, Bit1, Bit2, Bit3
<1>2. Nx(x, y) \in Nibble /\ Nx(x, y) = Nx(y, x)
  BY NibbleBits, SameNibble
<1>3. Nx(x, x) = 0 /\ Nx(x, 0) = x
  BY <1>1, NibbleBits, SameNibble
<1>4. Nx(Nx(x, y), z) = Nx(x, Nx(y, z))
  <2>1. Nx(x, y) \in Nibble /\ Nx(y, z) \in Nibble
        /\ Nx(Nx(x, y), z) \in Nibble /\ Nx(x, Nx(y, z)) \in Nibble
    BY NibbleBits
  <2>2. Bit3(Nx(Nx(x, y), z)) <=> Bit3(Nx(x, Nx(y, z)))
    BY <2>1, NibbleBits
  <2>3. Bit2(Nx(Nx(x, y), z)) <=> Bit2(Nx(x, Nx(y, z)))
    BY <2>1, NibbleBits
  <2>4. Bit1(Nx(Nx(x, y), z)) <=> Bit1(Nx(x, Nx(y, z)))
    BY <2>1, NibbleBits
  <2>5. Bit0(Nx(Nx(x, y), z)) <=> Bit0(Nx(x, Nx(y, z)))
    BY <2>1, NibbleBits
  <2> QED BY <2>1, <2>2, <2>3, <2>4, <2>5, SameNibble
<1> QED BY <1>2, <1>3, <1>4

Hi(b) == b \div 16
Lo(b) == b % 16

\* The halves of a byte.
LEMMA Halves ==
    ASSUME NEW b \in Byte
    PROVE  Hi(b) \in Nibble /\ Lo(b) \in Nibble /\ b = 16 * Hi(b) + Lo(b)
  BY DEF Byte, Hi, Lo, Nibble

\* The byte of two halves.
LEMMA HalvesOf ==
    ASSUME NEW h \in Nibble, NEW l \in Nibble
    PROVE  16 * h + l \in Byte /\ Hi(16 * h + l) = h /\ Lo(16 * h + l) = l
  BY DEF Byte, Hi, Lo, Nibble

\* The exclusive or of bytes, half by half.
LEMMA XorHalves ==
    ASSUME NEW a \in Byte, NEW b \in Byte
    PROVE  /\ a (+) b \in Byte
           /\ Hi(a (+) b) = Nx(Hi(a), Hi(b))
           /\ Lo(a (+) b) = Nx(Lo(a), Lo(b))
<1>1. a (+) b = 16 * Nx(Hi(a), Hi(b)) + Nx(Lo(a), Lo(b))
  BY DEF (+), Nx, Hi, Lo
<1> QED BY <1>1, Halves, HalvesOf, NibbleLaws

\* A byte is given by its halves.
LEMMA SameByte ==
    ASSUME NEW a \in Byte, NEW b \in Byte, Hi(a) = Hi(b), Lo(a) = Lo(b)
    PROVE  a = b
  BY Halves

\* Bytes with (+) are a group in which every byte is its own inverse.
LEMMA ByteLaws ==
    ASSUME NEW a \in Byte, NEW b \in Byte, NEW c \in Byte
    PROVE  /\ a (+) b \in Byte
           /\ a (+) b = b (+) a
           /\ (a (+) b) (+) c = a (+) (b (+) c)
           /\ a (+) a = 0 /\ a (+) 0 = a
<1>1. 0 \in Byte /\ Hi(0) = 0 /\ Lo(0) = 0
  BY HalvesOf DEF Byte, Hi, Lo
<1>2. a (+) b \in Byte /\ a (+) b = b (+) a
  BY XorHalves, Halves, NibbleLaws, SameByte
<1>3. (a (+) b) (+) c = a (+) (b (+) c)
  <2>1. a (+) b \in Byte /\ b (+) c \in Byte /\ (a (+) b) (+) c \in Byte /\ a (+) (b (+) c) \in Byte
    BY XorHalves
  <2>2. Hi((a (+) b) (+) c) = Hi(a (+) (b (+) c))
    BY <2>1, XorHalves, Halves, NibbleLaws
  <2>3. Lo((a (+) b) (+) c) = Lo(a (+) (b (+) c))
    BY <2>1, XorHalves, Halves, NibbleLaws
  <2> QED BY <2>1, <2>2, <2>3, SameByte
<1>4. a (+) a = 0 /\ a (+) 0 = a
  <2>1. a (+) a \in Byte /\ a (+) 0 \in Byte /\ Hi(a) \in Nibble /\ Lo(a) \in Nibble
    BY <1>1, XorHalves, Halves
  <2>2. Hi(a (+) a) = 0 /\ Lo(a (+) a) = 0 /\ Hi(a (+) 0) = Hi(a) /\ Lo(a (+) 0) = Lo(a)
    BY <1>1, <2>1, XorHalves, NibbleLaws
  <2> QED BY <1>1, <2>1, <2>2, SameByte
<1> QED BY <1>2, <1>3, <1>4

\* Doubling shifts the bits and adds 27, which is 16 * 1 + 11, for the top bit.
LEMMA XtimeBits ==
    ASSUME NEW a \in Byte
    PROVE  /\ xtime[a] \in Byte
           /\ Bit3(Hi(xtime[a])) <=> Bit2(Hi(a))
           /\ Bit2(Hi(xtime[a])) <=> Bit1(Hi(a))
           /\ Bit1(Hi(xtime[a])) <=> Bit0(Hi(a))
           /\ Bit0(Hi(xtime[a])) <=> (Bit3(Lo(a)) <=> ~Bit3(Hi(a)))
           /\ Bit3(Lo(xtime[a])) <=> (Bit2(Lo(a)) <=> ~Bit3(Hi(a)))
           /\ Bit2(Lo(xtime[a])) <=> Bit1(Lo(a))
           /\ Bit1(Lo(xtime[a])) <=> (Bit0(Lo(a)) <=> ~Bit3(Hi(a)))
           /\ Bit0(Lo(xtime[a])) <=> Bit3(Hi(a))
<1> DEFINE d == IF a < 128 THEN 2 * a ELSE 2 * a - 256
<1>1. Hi(a) \in Nibble /\ Lo(a) \in Nibble /\ a = 16 * Hi(a) + Lo(a)
  BY Halves
<1>2. Bit3(Hi(a)) <=> ~(a < 128)
  BY <1>1 DEF Bit3, Nibble
<1>3. d \in Byte
  BY DEF Byte
<1>4. Hi(d) = 2 * Hi(a) + (IF Lo(a) >= 8 THEN 1 ELSE 0) - (IF Hi(a) >= 8 THEN 16 ELSE 0)
      /\ Lo(d) = 2 * Lo(a) - (IF Lo(a) >= 8 THEN 16 ELSE 0)
  BY <1>1, <1>3 DEF Hi, Lo, Byte, Nibble
<1>5. /\ Bit3(Hi(d)) <=> Bit2(Hi(a))
      /\ Bit2(Hi(d)) <=> Bit1(Hi(a))
      /\ Bit1(Hi(d)) <=> Bit0(Hi(a))
      /\ Bit0(Hi(d)) <=> Bit3(Lo(a))
  BY <1>1, <1>4 DEF Bit3, Bit2, Bit1, Bit0, Nibble
<1>6. /\ Bit3(Lo(d)) <=> Bit2(Lo(a))
      /\ Bit2(Lo(d)) <=> Bit1(Lo(a))
      /\ Bit1(Lo(d)) <=> Bit0(Lo(a))
      /\ ~Bit0(Lo(d))
  BY <1>1, <1>4 DEF Bit3, Bit2, Bit1, Bit0, Nibble
<1>7. xtime[a] = IF a < 128 THEN d ELSE d (+) 27
  BY DEF xtime, Byte
<1> HIDE DEF d
<1>8. CASE a < 128
  BY <1>2, <1>3, <1>5, <1>6, <1>7, <1>8
<1>9. CASE ~(a < 128)
  <2>1. 27 \in Byte /\ Hi(27) = 1 /\ Lo(27) = 11 /\ 1 \in Nibble /\ 11 \in Nibble
    BY DEF Byte, Hi, Lo, Nibble
  <2>2. ~Bit3(1) /\ ~Bit2(1) /\ ~Bit1(1) /\ Bit0(1) /\ Bit3(11) /\ ~Bit2(11) /\ Bit1(11) /\ Bit0(11)
    BY DEF Bit3, Bit2, Bit1, Bit0
  <2>3. Hi(d) \in Nibble /\ Lo(d) \in Nibble
    BY <1>3, Halves
  <2>4. xtime[a] = d (+) 27
    BY <1>7, <1>9
  <2>5. xtime[a] \in Byte /\ Hi(xtime[a]) = Nx(Hi(d), 1) /\ Lo(xtime[a]) = Nx(Lo(d), 11)
    BY <1>3, <2>1, <2>4, XorHalves
  <2> QED BY <1>2, <1>5, <1>6, <1>9, <2>1, <2>2, <2>3, <2>5, NibbleBits
<1> QED BY <1>8, <1>9

\* Doubling is additive.
LEMMA XtimeLaws ==
    ASSUME NEW a \in Byte, NEW b \in Byte
    PROVE  xtime[a] \in Byte /\ xtime[a (+) b] = xtime[a] (+) xtime[b] /\ xtime[0] = 0
<1>1. xtime[a] \in Byte /\ xtime[b] \in Byte /\ a (+) b \in Byte
      /\ xtime[a (+) b] \in Byte /\ xtime[a] (+) xtime[b] \in Byte
  BY XtimeBits, XorHalves
<1>2. /\ Hi(a (+) b) = Nx(Hi(a), Hi(b)) /\ Lo(a (+) b) = Nx(Lo(a), Lo(b))
      /\ Hi(xtime[a] (+) xtime[b]) = Nx(Hi(xtime[a]), Hi(xtime[b]))
      /\ Lo(xtime[a] (+) xtime[b]) = Nx(Lo(xtime[a]), Lo(xtime[b]))
  BY <1>1, XorHalves
<1>3. /\ Hi(a) \in Nibble /\ Lo(a) \in Nibble /\ Hi(b) \in Nibble /\ Lo(b) \in Nibble
      /\ Hi(xtime[a]) \in Nibble /\ Lo(xtime[a]) \in Nibble
      /\ Hi(xtime[b]) \in Nibble /\ Lo(xtime[b]) \in Nibble
      /\ Hi(xtime[a (+) b]) \in Nibble /\ Lo(xtime[a (+) b]) \in Nibble
      /\ Hi(xtime[a] (+) xtime[b]) \in Nibble /\ Lo(xtime[a] (+) xtime[b]) \in Nibble
  BY <1>1, Halves
<1>4. Hi(xtime[a (+) b]) = Hi(xtime[a] (+) xtime[b])
  BY <1>1, <1>2, <1>3, XtimeBits, NibbleBits, SameNibble
<1>5. Lo(xtime[a (+) b]) = Lo(xtime[a] (+) xtime[b])
  BY <1>1, <1>2, <1>3, XtimeBits, NibbleBits, SameNibble
<1>6. xtime[0] = 0
  BY DEF xtime, Byte
<1> QED BY <1>1, <1>4, <1>5, <1>6, SameByte

-----------------------------------------------------------------------------
(* Columns                                                                 *)

Column == [1..4 -> Byte]

\* The order of the summands does not matter: in a sum of two sums,
LEMMA Pairs ==
    ASSUME NEW a, NEW b, NEW c, NEW d,
           a \in Byte, b \in Byte, c \in Byte, d \in Byte
    PROVE  (a (+) b) (+) (c (+) d) = (a (+) c) (+) (b (+) d)
<1>1. (a (+) b) (+) (c (+) d) = a (+) (b (+) (c (+) d))
  BY ByteLaws
<1>2. b (+) (c (+) d) = c (+) (b (+) d)
  BY ByteLaws
<1>3. (a (+) c) (+) (b (+) d) = a (+) (c (+) (b (+) d))
  BY ByteLaws
<1> QED BY <1>1, <1>2, <1>3

Sum4(a, b, c, d) == a (+) b (+) c (+) d

\* ... in a sum of four bytes,
LEMMA Sum4Laws ==
    ASSUME NEW a, NEW b, NEW c, NEW d,
           a \in Byte, b \in Byte, c \in Byte, d \in Byte
    PROVE  Sum4(a, b, c, d) \in Byte /\ Sum4(b, c, d, a) = Sum4(a, b, c, d)
<1>1. b (+) c \in Byte /\ (b (+) c) (+) d \in Byte
  BY ByteLaws
<1>2. ((b (+) c) (+) d) (+) a = a (+) ((b (+) c) (+) d)
  BY <1>1, ByteLaws
<1>3. a (+) ((b (+) c) (+) d) = (a (+) (b (+) c)) (+) d
  BY <1>1, ByteLaws
<1>4. a (+) (b (+) c) = (a (+) b) (+) c
  BY ByteLaws
<1> QED BY <1>1, <1>2, <1>3, <1>4, ByteLaws DEF Sum4

\* ... and in a sum of two such sums.
LEMMA SumOfSums ==
    ASSUME NEW a, NEW b, NEW c, NEW d, NEW e, NEW f, NEW g, NEW h,
           a \in Byte, b \in Byte, c \in Byte, d \in Byte, e \in Byte, f \in Byte, g \in Byte, h \in Byte
    PROVE  Sum4(a (+) e, b (+) f, c (+) g, d (+) h) = Sum4(a, b, c, d) (+) Sum4(e, f, g, h)
<1>1. /\ a (+) b \in Byte /\ e (+) f \in Byte
      /\ (a (+) b) (+) c \in Byte /\ (e (+) f) (+) g \in Byte
  BY ByteLaws
<1>2. (a (+) e) (+) (b (+) f) = (a (+) b) (+) (e (+) f)
  BY Pairs
<1>3. ((a (+) b) (+) (e (+) f)) (+) (c (+) g) = ((a (+) b) (+) c) (+) ((e (+) f) (+) g)
  BY <1>1, Pairs
<1>4. (((a (+) b) (+) c) (+) ((e (+) f) (+) g)) (+) (d (+) h)
        = (((a (+) b) (+) c) (+) d) (+) (((e (+) f) (+) g) (+) h)
  BY <1>1, Pairs
<1> QED BY <1>1, <1>2, <1>3, <1>4, ByteLaws DEF Sum4

\* A factor of InvMixColumn() times a byte.
LEMMA Products ==
    ASSUME NEW a \in Byte
    PROVE  LET d == xtime[a] IN
           /\ Multiply(a, 14) = Sum4(0, d, xtime[d], xtime[xtime[d]])
           /\ Multiply(a, 11) = Sum4(a, d, 0, xtime[xtime[d]])
           /\ Multiply(a, 13) = Sum4(a, 0, xtime[d], xtime[xtime[d]])
           /\ Multiply(a, 9)  = Sum4(a, 0, 0, xtime[xtime[d]])
  BY DEF Multiply, IfBit, Sum4

Factors == {9, 11, 13, 14}

\* Nothing is added or multiplied by zero.
LEMMA Zero == 0 \in Byte /\ 0 (+) 0 = 0 /\ xtime[0] = 0 /\ Sum4(0, 0, 0, 0) = 0
<1>1. 0 \in Byte
  BY DEF Byte
<1> QED BY <1>1, ByteLaws, XtimeLaws DEF Sum4

\* Multiply() by a factor that InvMixColumn() uses distributes over the sum.
LEMMA MultiplyLinear ==
    ASSUME NEW a, NEW b, NEW y,
           a \in Byte, b \in Byte,
           y \in Factors
    PROVE  /\ Multiply(a, y) \in Byte
           /\ Multiply(a (+) b, y) = Multiply(a, y) (+) Multiply(b, y)
           /\ Multiply(0, y) = 0
<1> DEFINE D1(n) == xtime[n]
           D2(n) == xtime[xtime[n]]
           D3(n) == xtime[xtime[xtime[n]]]
<1>1. a (+) b \in Byte
  BY ByteLaws
<1>2. /\ 0 \in Byte /\ D1(a) \in Byte /\ D2(a) \in Byte /\ D3(a) \in Byte
      /\ D1(b) \in Byte /\ D2(b) \in Byte /\ D3(b) \in Byte
  BY XtimeLaws, Zero
<1>3. /\ D1(a (+) b) = D1(a) (+) D1(b)
      /\ D2(a (+) b) = D2(a) (+) D2(b)
      /\ D3(a (+) b) = D3(a) (+) D3(b)
  BY <1>2, XtimeLaws
<1>4. D1(0) = 0 /\ D2(0) = 0 /\ D3(0) = 0
  BY Zero
<1>5. \A n \in Byte :
        /\ Multiply(n, 14) = Sum4(0, D1(n), D2(n), D3(n))
        /\ Multiply(n, 11) = Sum4(n, D1(n), 0, D3(n))
        /\ Multiply(n, 13) = Sum4(n, 0, D2(n), D3(n))
        /\ Multiply(n, 9)  = Sum4(n, 0, 0, D3(n))
  BY Products
<1> HIDE DEF D1, D2, D3
<1>6. Multiply(0, y) = 0
  BY <1>4, <1>5, Zero DEF Factors
<1>7. Multiply(a, y) \in Byte
  BY <1>2, <1>5, Sum4Laws DEF Factors
<1>8. CASE y = 14
  <2>1. Sum4(0 (+) 0, D1(a) (+) D1(b), D2(a) (+) D2(b), D3(a) (+) D3(b))
            = Sum4(0, D1(a), D2(a), D3(a)) (+) Sum4(0, D1(b), D2(b), D3(b))
    BY <1>2, SumOfSums
  <2> QED BY <1>1, <1>3, <1>5, <1>6, <1>7, <1>8, <2>1, Zero
<1>9. CASE y = 11
  <2>1. Sum4(a (+) b, D1(a) (+) D1(b), 0 (+) 0, D3(a) (+) D3(b))
            = Sum4(a, D1(a), 0, D3(a)) (+) Sum4(b, D1(b), 0, D3(b))
    BY <1>2, SumOfSums
  <2> QED BY <1>1, <1>3, <1>5, <1>6, <1>7, <1>9, <2>1, Zero
<1>10. CASE y = 13
  <2>1. Sum4(a (+) b, 0 (+) 0, D2(a) (+) D2(b), D3(a) (+) D3(b))
            = Sum4(a, 0, D2(a), D3(a)) (+) Sum4(b, 0, D2(b), D3(b))
    BY <1>2, SumOfSums
  <2> QED BY <1>1, <1>3, <1>5, <1>6, <1>7, <1>10, <2>1, Zero
<1>11. CASE y = 9
  <2>1. Sum4(a (+) b, 0 (+) 0, 0 (+) 0, D3(a) (+) D3(b))
            = Sum4(a, 0, 0, D3(a)) (+) Sum4(b, 0, 0, D3(b))
    BY <1>2, SumOfSums
  <2> QED BY <1>1, <1>3, <1>5, <1>6, <1>7, <1>11, <2>1, Zero
<1> QED BY <1>8, <1>9, <1>10, <1>11 DEF Factors

\* A column is its four bytes.
LEMMA ColumnIs ==
    /\ \A a, b, c, d \in Byte : <<a, b, c, d>> \in Column
    /\ \A c \in Column : /\ c = <<c[1], c[2], c[3], c[4]>>
                         /\ c[1] \in Byte /\ c[2] \in Byte /\ c[3] \in Byte /\ c[4] \in Byte
  BY DEF Column

\* The addition of columns undoes itself.
LEMMA XorColumnLaws ==
    ASSUME NEW c \in Column, NEW d \in Column
    PROVE  XorColumn(c, d) \in Column /\ XorColumn(XorColumn(c, d), d) = c
<1>1. \A i \in 1..4 : c[i] \in Byte /\ d[i] \in Byte
  BY DEF Column
<1>2. \A i \in 1..4 : c[i] (+) d[i] \in Byte /\ (c[i] (+) d[i]) (+) d[i] = c[i]
  BY <1>1, ByteLaws
<1> QED BY <1>2, ColumnIs DEF XorColumn

\* A byte of MixColumn(): a and the next byte b, of a column whose sum is t.
Mixed(a, b, t) == a (+) xtime[a (+) b] (+) t
ColumnSum(c)   == Sum4(c[1], c[2], c[3], c[4])

\* A byte of MixColumn() is a byte,
LEMMA MixedType ==
    ASSUME NEW a, NEW b, NEW t,
           a \in Byte, b \in Byte, t \in Byte
    PROVE  Mixed(a, b, t) \in Byte
<1>1. a (+) b \in Byte
  BY ByteLaws
<1>2. xtime[a (+) b] \in Byte
  BY <1>1, XtimeLaws
<1>3. a (+) xtime[a (+) b] \in Byte
  BY <1>2, ByteLaws
<1> QED BY <1>3, ByteLaws DEF Mixed

\* ... and the sum of those of two columns is that of their sum.
LEMMA MixedLinear ==
    ASSUME NEW a, NEW b, NEW t, NEW d, NEW e, NEW u,
           a \in Byte, b \in Byte, t \in Byte, d \in Byte, e \in Byte, u \in Byte
    PROVE  Mixed(a (+) d, b (+) e, t (+) u) = Mixed(a, b, t) (+) Mixed(d, e, u)
<1> DEFINE p == xtime[a (+) b]
           q == xtime[d (+) e]
<1>1. a (+) b \in Byte /\ d (+) e \in Byte
  BY ByteLaws
<1>2. p \in Byte /\ q \in Byte
  BY <1>1, XtimeLaws
<1>3. xtime[(a (+) d) (+) (b (+) e)] = p (+) q
  <2>1. (a (+) d) (+) (b (+) e) = (a (+) b) (+) (d (+) e)
    BY Pairs
  <2> QED BY <1>1, <2>1, XtimeLaws
<1>4. Mixed(a, b, t) = (a (+) p) (+) t /\ Mixed(d, e, u) = (d (+) q) (+) u
      /\ Mixed(a (+) d, b (+) e, t (+) u) = ((a (+) d) (+) (p (+) q)) (+) (t (+) u)
  BY <1>3 DEF Mixed
<1> HIDE DEF p, q
<1>5. a (+) p \in Byte /\ d (+) q \in Byte
  BY <1>2, ByteLaws
<1>6. (a (+) d) (+) (p (+) q) = (a (+) p) (+) (d (+) q)
  BY <1>2, Pairs
<1>7. ((a (+) p) (+) (d (+) q)) (+) (t (+) u) = ((a (+) p) (+) t) (+) ((d (+) q) (+) u)
  BY <1>5, Pairs
<1> QED BY <1>4, <1>6, <1>7

\* What MixColumn() makes of a column.
LEMMA MixColumnIs ==
    ASSUME NEW c \in Column
    PROVE  /\ MixColumn(c) = <<Mixed(c[1], c[2], ColumnSum(c)), Mixed(c[2], c[3], ColumnSum(c)),
                               Mixed(c[3], c[4], ColumnSum(c)), Mixed(c[4], c[1], ColumnSum(c))>>
           /\ MixColumn(c) \in Column /\ ColumnSum(c) \in Byte
<1>1. MixColumn(c) = <<Mixed(c[1], c[2], ColumnSum(c)), Mixed(c[2], c[3], ColumnSum(c)),
                       Mixed(c[3], c[4], ColumnSum(c)), Mixed(c[4], c[1], ColumnSum(c))>>
  BY DEF MixColumn, Mixed, ColumnSum, Sum4
<1>2. c[1] \in Byte /\ c[2] \in Byte /\ c[3] \in Byte /\ c[4] \in Byte
  BY ColumnIs
<1>3. ColumnSum(c) \in Byte
  BY <1>2, Sum4Laws DEF ColumnSum
<1>4. /\ Mixed(c[1], c[2], ColumnSum(c)) \in Byte /\ Mixed(c[2], c[3], ColumnSum(c)) \in Byte
      /\ Mixed(c[3], c[4], ColumnSum(c)) \in Byte /\ Mixed(c[4], c[1], ColumnSum(c)) \in Byte
  BY <1>2, <1>3, MixedType
<1> QED BY <1>1, <1>3, <1>4, ColumnIs

\* MixColumn() distributes over the addition of columns,
LEMMA MixLinear ==
    ASSUME NEW c \in Column, NEW d \in Column
    PROVE  MixColumn(XorColumn(c, d)) = XorColumn(MixColumn(c), MixColumn(d))
<1> DEFINE e == XorColumn(c, d)
<1>1. /\ c[1] \in Byte /\ c[2] \in Byte /\ c[3] \in Byte /\ c[4] \in Byte
      /\ d[1] \in Byte /\ d[2] \in Byte /\ d[3] \in Byte /\ d[4] \in Byte
  BY ColumnIs
<1>2. e[1] = c[1] (+) d[1] /\ e[2] = c[2] (+) d[2] /\ e[3] = c[3] (+) d[3] /\ e[4] = c[4] (+) d[4]
  BY DEF XorColumn
<1>3. e \in Column
  BY XorColumnLaws
<1> HIDE DEF e
<1>4. ColumnSum(e) = ColumnSum(c) (+) ColumnSum(d)
  <2>1. Sum4(c[1] (+) d[1], c[2] (+) d[2], c[3] (+) d[3], c[4] (+) d[4])
            = Sum4(c[1], c[2], c[3], c[4]) (+) Sum4(d[1], d[2], d[3], d[4])
    BY <1>1, SumOfSums DEF Column
  <2> QED BY <1>2, <2>1 DEF ColumnSum
<1>5. ColumnSum(c) \in Byte /\ ColumnSum(d) \in Byte
  BY MixColumnIs
<1>6. /\ Mixed(e[1], e[2], ColumnSum(e))
            = Mixed(c[1], c[2], ColumnSum(c)) (+) Mixed(d[1], d[2], ColumnSum(d))
      /\ Mixed(e[2], e[3], ColumnSum(e))
            = Mixed(c[2], c[3], ColumnSum(c)) (+) Mixed(d[2], d[3], ColumnSum(d))
      /\ Mixed(e[3], e[4], ColumnSum(e))
            = Mixed(c[3], c[4], ColumnSum(c)) (+) Mixed(d[3], d[4], ColumnSum(d))
      /\ Mixed(e[4], e[1], ColumnSum(e))
            = Mixed(c[4], c[1], ColumnSum(c)) (+) Mixed(d[4], d[1], ColumnSum(d))
  <2>1. ASSUME NEW a, NEW b, NEW f, NEW g, a \in Byte, b \in Byte, f \in Byte, g \in Byte
        PROVE  Mixed(a (+) f, b (+) g, ColumnSum(e))
                = Mixed(a, b, ColumnSum(c)) (+) Mixed(f, g, ColumnSum(d))
    BY <1>4, <1>5, <2>1, MixedLinear
  <2> QED BY <1>1, <1>2, <2>1
<1>7. MixColumn(e) = XorColumn(MixColumn(c), MixColumn(d))
  BY <1>3, <1>6, MixColumnIs DEF XorColumn
<1> QED BY <1>7 DEF e

\* A byte of InvMixColumn(): a column times four factors.
LEMMA ProductIs ==
    ASSUME NEW c, NEW y1, NEW y2, NEW y3, NEW y4,
           c \in Column,
           y1 \in Factors, y2 \in Factors, y3 \in Factors, y4 \in Factors
    PROVE  /\ Product(c, <<y1, y2, y3, y4>>)
                = Sum4(Multiply(c[1], y1), Multiply(c[2], y2), Multiply(c[3], y3), Multiply(c[4], y4))
           /\ Product(c, <<y1, y2, y3, y4>>) \in Byte
<1>1. Product(c, <<y1, y2, y3, y4>>)
        = Sum4(Multiply(c[1], y1), Multiply(c[2], y2), Multiply(c[3], y3), Multiply(c[4], y4))
  BY DEF Product, Sum4
<1>2. c[1] \in Byte /\ c[2] \in Byte /\ c[3] \in Byte /\ c[4] \in Byte
  BY ColumnIs
<1>3. /\ Multiply(c[1], y1) \in Byte /\ Multiply(c[2], y2) \in Byte
      /\ Multiply(c[3], y3) \in Byte /\ Multiply(c[4], y4) \in Byte
  BY <1>2, MultiplyLinear
<1> QED BY <1>1, <1>3, Sum4Laws

\* Product() distributes over the addition of columns,
LEMMA ProductLinear ==
    ASSUME NEW c, NEW d, NEW y1, NEW y2, NEW y3, NEW y4,
           c \in Column, d \in Column,
           y1 \in Factors, y2 \in Factors, y3 \in Factors, y4 \in Factors
    PROVE  Product(XorColumn(c, d), <<y1, y2, y3, y4>>)
            = Product(c, <<y1, y2, y3, y4>>) (+) Product(d, <<y1, y2, y3, y4>>)
<1> DEFINE e == XorColumn(c, d)
<1>1. /\ c[1] \in Byte /\ c[2] \in Byte /\ c[3] \in Byte /\ c[4] \in Byte
      /\ d[1] \in Byte /\ d[2] \in Byte /\ d[3] \in Byte /\ d[4] \in Byte
  BY ColumnIs
<1>2. e[1] = c[1] (+) d[1] /\ e[2] = c[2] (+) d[2] /\ e[3] = c[3] (+) d[3] /\ e[4] = c[4] (+) d[4]
  BY DEF XorColumn
<1>3. e \in Column
  BY XorColumnLaws
<1> HIDE DEF e
<1>4. /\ Multiply(c[1], y1) \in Byte /\ Multiply(c[2], y2) \in Byte
      /\ Multiply(c[3], y3) \in Byte /\ Multiply(c[4], y4) \in Byte
      /\ Multiply(d[1], y1) \in Byte /\ Multiply(d[2], y2) \in Byte
      /\ Multiply(d[3], y3) \in Byte /\ Multiply(d[4], y4) \in Byte
  BY <1>1, MultiplyLinear
<1>5. /\ Multiply(e[1], y1) = Multiply(c[1], y1) (+) Multiply(d[1], y1)
      /\ Multiply(e[2], y2) = Multiply(c[2], y2) (+) Multiply(d[2], y2)
      /\ Multiply(e[3], y3) = Multiply(c[3], y3) (+) Multiply(d[3], y3)
      /\ Multiply(e[4], y4) = Multiply(c[4], y4) (+) Multiply(d[4], y4)
  BY <1>1, <1>2, MultiplyLinear
<1>6. Product(e, <<y1, y2, y3, y4>>)
        = Sum4(Multiply(c[1], y1) (+) Multiply(d[1], y1), Multiply(c[2], y2) (+) Multiply(d[2], y2),
               Multiply(c[3], y3) (+) Multiply(d[3], y3), Multiply(c[4], y4) (+) Multiply(d[4], y4))
  BY <1>3, <1>5, ProductIs
<1>7. Product(e, <<y1, y2, y3, y4>>)
        = Product(c, <<y1, y2, y3, y4>>) (+) Product(d, <<y1, y2, y3, y4>>)
  <2>1. Sum4(Multiply(c[1], y1) (+) Multiply(d[1], y1), Multiply(c[2], y2) (+) Multiply(d[2], y2),
             Multiply(c[3], y3) (+) Multiply(d[3], y3), Multiply(c[4], y4) (+) Multiply(d[4], y4))
        = Sum4(Multiply(c[1], y1), Multiply(c[2], y2), Multiply(c[3], y3), Multiply(c[4], y4))
          (+) Sum4(Multiply(d[1], y1), Multiply(d[2], y2), Multiply(d[3], y3), Multiply(d[4], y4))
    BY <1>4, SumOfSums
  <2> QED BY <1>6, <2>1, ProductIs
<1> QED BY <1>7 DEF e

\* ... and so does InvMixColumn().
LEMMA InvMixLinear ==
    ASSUME NEW c \in Column, NEW d \in Column
    PROVE  /\ InvMixColumn(c) \in Column
           /\ InvMixColumn(XorColumn(c, d)) = XorColumn(InvMixColumn(c), InvMixColumn(d))
<1> USE DEF Factors
<1>1. /\ Product(c, <<14, 11, 13, 9>>) \in Byte /\ Product(c, <<9, 14, 11, 13>>) \in Byte
      /\ Product(c, <<13, 9, 14, 11>>) \in Byte /\ Product(c, <<11, 13, 9, 14>>) \in Byte
  BY ProductIs
<1>2. InvMixColumn(c) \in Column
  BY <1>1, ColumnIs DEF InvMixColumn
<1> DEFINE e == XorColumn(c, d)
<1>3. /\ Product(e, <<14, 11, 13, 9>>) = Product(c, <<14, 11, 13, 9>>) (+) Product(d, <<14, 11, 13, 9>>)
      /\ Product(e, <<9, 14, 11, 13>>) = Product(c, <<9, 14, 11, 13>>) (+) Product(d, <<9, 14, 11, 13>>)
      /\ Product(e, <<13, 9, 14, 11>>) = Product(c, <<13, 9, 14, 11>>) (+) Product(d, <<13, 9, 14, 11>>)
      /\ Product(e, <<11, 13, 9, 14>>) = Product(c, <<11, 13, 9, 14>>) (+) Product(d, <<11, 13, 9, 14>>)
  BY ProductLinear
<1> HIDE DEF e
<1>4. InvMixColumn(e) = XorColumn(InvMixColumn(c), InvMixColumn(d))
  BY <1>3 DEF InvMixColumn, XorColumn
<1> QED BY <1>2, <1>4 DEF e

\* Rotating a column rotates what becomes of it.
Rot(c) == <<c[2], c[3], c[4], c[1]>>

\* A rotated column is mixed to the rotated result.
LEMMA Rotated ==
    ASSUME NEW a, NEW b, NEW c, NEW d, a \in Byte, b \in Byte, c \in Byte, d \in Byte
    PROVE  /\ MixColumn(<<b, c, d, a>>) = Rot(MixColumn(<<a, b, c, d>>))
           /\ InvMixColumn(<<b, c, d, a>>) = Rot(InvMixColumn(<<a, b, c, d>>))
<1>1. <<a, b, c, d>> \in Column /\ <<b, c, d, a>> \in Column
  BY ColumnIs
<1>2. MixColumn(<<b, c, d, a>>) = Rot(MixColumn(<<a, b, c, d>>))
  <2>1. ColumnSum(<<b, c, d, a>>) = ColumnSum(<<a, b, c, d>>)
    BY Sum4Laws DEF ColumnSum
  <2> DEFINE t == ColumnSum(<<a, b, c, d>>)
  <2>2. /\ MixColumn(<<a, b, c, d>>) = <<Mixed(a, b, t), Mixed(b, c, t), Mixed(c, d, t), Mixed(d, a, t)>>
        /\ MixColumn(<<b, c, d, a>>) = <<Mixed(b, c, t), Mixed(c, d, t), Mixed(d, a, t), Mixed(a, b, t)>>
    BY <1>1, <2>1, MixColumnIs
  <2> HIDE DEF t
  <2> QED BY <2>2 DEF Rot
<1>3. InvMixColumn(<<b, c, d, a>>) = Rot(InvMixColumn(<<a, b, c, d>>))
  <2>1. ASSUME NEW y1, NEW y2, NEW y3, NEW y4,
               y1 \in Factors, y2 \in Factors, y3 \in Factors, y4 \in Factors
        PROVE  Product(<<b, c, d, a>>, <<y2, y3, y4, y1>>) = Product(<<a, b, c, d>>, <<y1, y2, y3, y4>>)
    <3>1. /\ Multiply(a, y1) \in Byte /\ Multiply(b, y2) \in Byte
          /\ Multiply(c, y3) \in Byte /\ Multiply(d, y4) \in Byte
      BY <2>1, MultiplyLinear
    <3>2. Sum4(Multiply(b, y2), Multiply(c, y3), Multiply(d, y4), Multiply(a, y1))
            = Sum4(Multiply(a, y1), Multiply(b, y2), Multiply(c, y3), Multiply(d, y4))
      BY <3>1, Sum4Laws
    <3> QED BY <1>1, <2>1, <3>2, ProductIs
  <2>2. /\ Product(<<b, c, d, a>>, <<14, 11, 13, 9>>) = Product(<<a, b, c, d>>, <<9, 14, 11, 13>>)
        /\ Product(<<b, c, d, a>>, <<9, 14, 11, 13>>) = Product(<<a, b, c, d>>, <<13, 9, 14, 11>>)
        /\ Product(<<b, c, d, a>>, <<13, 9, 14, 11>>) = Product(<<a, b, c, d>>, <<11, 13, 9, 14>>)
        /\ Product(<<b, c, d, a>>, <<11, 13, 9, 14>>) = Product(<<a, b, c, d>>, <<14, 11, 13, 9>>)
    BY <2>1 DEF Factors
  <2> QED BY <2>2 DEF InvMixColumn, Rot
<1> QED BY <1>2, <1>3

\* InvMixColumn() of MixColumn() of a column with a single byte, whose doubles
\* are p, q, r and s: all but that byte cancel.
LEMMA Cancel ==
    ASSUME NEW a, NEW p, NEW q, NEW r, NEW s,
           a \in Byte, p \in Byte, q \in Byte, r \in Byte, s \in Byte
    PROVE  /\ Sum4(Sum4(0, q, r, s), Sum4(a, p, 0, r), Sum4(a, 0, q, r), Sum4(a (+) p, 0, 0, r (+) s)) = a
           /\ Sum4(Sum4(p, 0, 0, s), Sum4(0, p, q, r), Sum4(a, p, 0, r), Sum4(a (+) p, 0, q (+) r, r (+) s)) = 0
           /\ Sum4(Sum4(p, 0, r, s), Sum4(a, 0, 0, r), Sum4(0, p, q, r), Sum4(a (+) p, p (+) q, 0, r (+) s)) = 0
           /\ Sum4(Sum4(p, q, 0, s), Sum4(a, 0, q, r), Sum4(a, 0, 0, r), Sum4(0, p (+) q, q (+) r, r (+) s)) = 0
  BY ByteLaws, Zero DEF Sum4

\* InvMixColumn() undoes MixColumn() on a column with one byte.
LEMMA UnitUndone ==
    ASSUME NEW a, a \in Byte
    PROVE  InvMixColumn(MixColumn(<<a, 0, 0, 0>>)) = <<a, 0, 0, 0>>
<1> DEFINE p == xtime[a]
           q == xtime[p]
           r == xtime[q]
           s == xtime[r]
           e == a (+) p
           m == <<p, a, a, e>>
<1>1. p \in Byte /\ q \in Byte /\ r \in Byte /\ s \in Byte /\ e \in Byte /\ 0 \in Byte
  <2>1. p \in Byte
    BY XtimeLaws
  <2>2. q \in Byte
    BY <2>1, XtimeLaws
  <2>3. r \in Byte
    BY <2>2, XtimeLaws
  <2>4. s \in Byte
    BY <2>3, XtimeLaws
  <2> QED BY <2>1, <2>2, <2>3, <2>4, ByteLaws, Zero
<1>2. xtime[e] = p (+) q /\ xtime[p (+) q] = q (+) r /\ xtime[q (+) r] = r (+) s
  BY <1>1, XtimeLaws
<1>3. MixColumn(<<a, 0, 0, 0>>) = m
  <2>1. <<a, 0, 0, 0>> \in Column
    BY <1>1, ColumnIs
  <2>2. ColumnSum(<<a, 0, 0, 0>>) = a
    BY <1>1, ByteLaws DEF ColumnSum, Sum4
  <2>3. MixColumn(<<a, 0, 0, 0>>) = <<Mixed(a, 0, a), Mixed(0, 0, a), Mixed(0, 0, a), Mixed(0, a, a)>>
    BY <2>1, <2>2, MixColumnIs
  <2>4. Mixed(0, 0, a) = a
    BY <1>1, ByteLaws, Zero DEF Mixed
  <2>5. Mixed(a, 0, a) = p
    <3>1. a (+) 0 = a /\ (a (+) p) (+) a = p
      BY <1>1, ByteLaws
    <3> QED BY <3>1 DEF Mixed
  <2>6. Mixed(0, a, a) = e
    <3>1. 0 (+) a = a /\ (0 (+) p) (+) a = e
      BY <1>1, ByteLaws
    <3> QED BY <3>1 DEF Mixed
  <2> QED BY <2>3, <2>4, <2>5, <2>6
<1>4. m \in Column
  BY <1>1, ColumnIs
<1>5. /\ Multiply(a, 14) = Sum4(0, p, q, r) /\ Multiply(a, 11) = Sum4(a, p, 0, r)
      /\ Multiply(a, 13) = Sum4(a, 0, q, r) /\ Multiply(a, 9) = Sum4(a, 0, 0, r)
  BY Products
<1>6. /\ Multiply(p, 14) = Sum4(0, q, r, s) /\ Multiply(p, 11) = Sum4(p, q, 0, s)
      /\ Multiply(p, 13) = Sum4(p, 0, r, s) /\ Multiply(p, 9) = Sum4(p, 0, 0, s)
  BY <1>1, Products
<1>7. /\ Multiply(e, 14) = Sum4(0, p (+) q, q (+) r, r (+) s)
      /\ Multiply(e, 11) = Sum4(e, p (+) q, 0, r (+) s)
      /\ Multiply(e, 13) = Sum4(e, 0, q (+) r, r (+) s)
      /\ Multiply(e, 9) = Sum4(e, 0, 0, r (+) s)
  BY <1>1, <1>2, Products
<1> HIDE DEF p, q, r, s
<1>8. /\ Product(m, <<14, 11, 13, 9>>) = a /\ Product(m, <<9, 14, 11, 13>>) = 0
      /\ Product(m, <<13, 9, 14, 11>>) = 0 /\ Product(m, <<11, 13, 9, 14>>) = 0
  <2>1. ASSUME NEW y1, NEW y2, NEW y3, NEW y4,
               y1 \in Factors, y2 \in Factors, y3 \in Factors, y4 \in Factors
        PROVE  Product(m, <<y1, y2, y3, y4>>)
                = Sum4(Multiply(p, y1), Multiply(a, y2), Multiply(a, y3), Multiply(e, y4))
    BY <1>4, <2>1, ProductIs
  <2> HIDE DEF m, e
  <2>2. 9 \in Factors /\ 11 \in Factors /\ 13 \in Factors /\ 14 \in Factors
    BY DEF Factors
  <2>3. /\ Product(m, <<14, 11, 13, 9>>)
            = Sum4(Sum4(0, q, r, s), Sum4(a, p, 0, r), Sum4(a, 0, q, r), Sum4(e, 0, 0, r (+) s))
        /\ Product(m, <<9, 14, 11, 13>>)
            = Sum4(Sum4(p, 0, 0, s), Sum4(0, p, q, r), Sum4(a, p, 0, r), Sum4(e, 0, q (+) r, r (+) s))
        /\ Product(m, <<13, 9, 14, 11>>)
            = Sum4(Sum4(p, 0, r, s), Sum4(a, 0, 0, r), Sum4(0, p, q, r), Sum4(e, p (+) q, 0, r (+) s))
        /\ Product(m, <<11, 13, 9, 14>>)
            = Sum4(Sum4(p, q, 0, s), Sum4(a, 0, q, r), Sum4(a, 0, 0, r), Sum4(0, p (+) q, q (+) r, r (+) s))
    BY <1>5, <1>6, <1>7, <2>1, <2>2
  <2> QED BY <1>1, <2>3, Cancel DEF e
<1> QED BY <1>3, <1>8 DEF InvMixColumn

\* InvMixColumn() undoes MixColumn(): both are linear, and it does so for a
\* column with a single byte.
LEMMA MixUndone ==
    ASSUME NEW c \in Column
    PROVE  InvMixColumn(MixColumn(c)) = c
<1> DEFINE L(x) == InvMixColumn(MixColumn(x))
           u1 == <<c[1], 0, 0, 0>>
           u2 == <<0, c[2], 0, 0>>
           u3 == <<0, 0, c[3], 0>>
           u4 == <<0, 0, 0, c[4]>>
<1>1. c[1] \in Byte /\ c[2] \in Byte /\ c[3] \in Byte /\ c[4] \in Byte /\ 0 \in Byte
  BY ColumnIs, Zero
<1>2. u1 \in Column /\ u2 \in Column /\ u3 \in Column /\ u4 \in Column
  BY <1>1, ColumnIs
<1>3. ASSUME NEW a, a \in Byte
      PROVE  /\ L(<<a, 0, 0, 0>>) = <<a, 0, 0, 0>> /\ L(<<0, a, 0, 0>>) = <<0, a, 0, 0>>
             /\ L(<<0, 0, a, 0>>) = <<0, 0, a, 0>> /\ L(<<0, 0, 0, a>>) = <<0, 0, 0, a>>
  <2>1. ASSUME NEW w, NEW x, NEW y, NEW z, w \in Byte, x \in Byte, y \in Byte, z \in Byte,
               L(<<w, x, y, z>>) = <<w, x, y, z>>
        PROVE  L(<<x, y, z, w>>) = <<x, y, z, w>>
    <3> DEFINE m == MixColumn(<<w, x, y, z>>)
    <3>1. m \in Column
      BY <2>1, ColumnIs, MixColumnIs
    <3>2. MixColumn(<<x, y, z, w>>) = <<m[2], m[3], m[4], m[1]>>
      BY <2>1, Rotated DEF Rot
    <3>3. InvMixColumn(m) = <<w, x, y, z>>
      BY <2>1
    <3> HIDE DEF m
    <3>4. m = <<m[1], m[2], m[3], m[4]>> /\ m[1] \in Byte /\ m[2] \in Byte /\ m[3] \in Byte /\ m[4] \in Byte
      BY <3>1, ColumnIs
    <3>5. InvMixColumn(<<m[2], m[3], m[4], m[1]>>) = Rot(InvMixColumn(<<m[1], m[2], m[3], m[4]>>))
      BY <3>4, Rotated
    <3>6. Rot(<<w, x, y, z>>) = <<x, y, z, w>>
      BY DEF Rot
    <3> QED BY <3>2, <3>3, <3>4, <3>5, <3>6
  <2>2. L(<<a, 0, 0, 0>>) = <<a, 0, 0, 0>>
    BY <1>3, UnitUndone
  <2> HIDE DEF L
  <2>3. L(<<0, 0, 0, a>>) = <<0, 0, 0, a>>
    BY <1>1, <1>3, <2>1, <2>2
  <2>4. L(<<0, 0, a, 0>>) = <<0, 0, a, 0>>
    BY <1>1, <1>3, <2>1, <2>3
  <2>5. L(<<0, a, 0, 0>>) = <<0, a, 0, 0>>
    BY <1>1, <1>3, <2>1, <2>4
  <2> QED BY <2>2, <2>3, <2>4, <2>5
<1>4. \A x, y \in Column : XorColumn(x, y) \in Column /\ L(XorColumn(x, y)) = XorColumn(L(x), L(y))
  BY SMTT(30), XorColumnLaws, MixColumnIs, MixLinear, InvMixLinear
<1>5. L(u1) = u1 /\ L(u2) = u2 /\ L(u3) = u3 /\ L(u4) = u4
  <2> HIDE DEF L
  <2> QED BY <1>1, <1>3
<1>6. c = XorColumn(XorColumn(u1, u2), XorColumn(u3, u4))
  <2>1. ASSUME NEW a, a \in Byte
        PROVE  /\ (a (+) 0) (+) (0 (+) 0) = a /\ (0 (+) a) (+) (0 (+) 0) = a
               /\ (0 (+) 0) (+) (a (+) 0) = a /\ (0 (+) 0) (+) (0 (+) a) = a
    BY <2>1, ByteLaws, Zero
  <2>2. XorColumn(XorColumn(u1, u2), XorColumn(u3, u4)) = <<c[1], c[2], c[3], c[4]>>
    BY <1>1, <2>1 DEF XorColumn
  <2> QED BY <2>2, ColumnIs
<1> HIDE DEF L, u1, u2, u3, u4
<1>7. L(c) = c
  BY <1>2, <1>4, <1>5, <1>6
<1> QED BY <1>7 DEF L

-----------------------------------------------------------------------------
(* Blocks                                                                  *)

\* A block is its four columns.
LEMMA BlockIs ==
    /\ \A p, q, r, s \in Column : <<p, q, r, s>> \in Block
    /\ \A b \in Block : /\ b = <<b[1], b[2], b[3], b[4]>>
                        /\ b[1] \in Column /\ b[2] \in Column /\ b[3] \in Column /\ b[4] \in Column
  BY DEF Block, Column

\* The addition of blocks undoes itself.
LEMMA XorBlockLaws ==
    ASSUME NEW b \in Block, NEW k \in Block
    PROVE  XorWithIv(b, k) \in Block /\ XorWithIv(XorWithIv(b, k), k) = b
<1>1. \A i \in 1..4 : b[i] \in Column /\ k[i] \in Column
  BY DEF Block, Column
<1>2. \A i \in 1..4 : XorColumn(b[i], k[i]) \in Column /\ XorColumn(XorColumn(b[i], k[i]), k[i]) = b[i]
  BY <1>1, XorColumnLaws
<1> QED BY <1>2, BlockIs DEF XorWithIv

\* The two tables of substitutes undo each other.
LEMMA SubstituteUndone ==
    /\ \A x \in Byte : getSBoxValue(x) \in Byte /\ getSBoxInvert(x) \in Byte
    /\ \A x \in Byte : getSBoxInvert(getSBoxValue(x)) = x
<1>1. \A x \in Byte : getSBoxValue(x) \in Byte
  BY DEF Byte, getSBoxValue, sbox
<1>2. \A x \in Byte : getSBoxInvert(x) \in Byte
  BY DEF Byte, getSBoxInvert, rsbox
<1>3. \A x \in Byte : getSBoxInvert(getSBoxValue(x)) = x
  BY DEF Byte, getSBoxValue, sbox, getSBoxInvert, rsbox
<1> QED BY <1>1, <1>2, <1>3

\* The substitution undoes itself on a column,
LEMMA SubWordUndone ==
    ASSUME NEW c \in Column
    PROVE  SubWord(c) \in Column /\ InvSubWord(c) \in Column /\ InvSubWord(SubWord(c)) = c
  BY ColumnIs, SubstituteUndone DEF SubWord, InvSubWord

\* ... on a block,
LEMMA SubBytesUndone ==
    ASSUME NEW b \in Block
    PROVE  SubBytes(b) \in Block /\ InvSubBytes(b) \in Block /\ InvSubBytes(SubBytes(b)) = b
  BY BlockIs, SubWordUndone DEF SubBytes, InvSubBytes

\* ... and so do the rotation of the rows
LEMMA ShiftRowsUndone ==
    ASSUME NEW b \in Block
    PROVE  ShiftRows(b) \in Block /\ InvShiftRows(b) \in Block /\ InvShiftRows(ShiftRows(b)) = b
<1>1. \A i, j \in 1..4 : b[i][j] \in Byte
  BY DEF Block
<1>2. ShiftRows(b) \in Block /\ InvShiftRows(b) \in Block
  BY <1>1, ColumnIs, BlockIs DEF ShiftRows, InvShiftRows
<1>3. InvShiftRows(ShiftRows(b)) = << <<b[1][1], b[1][2], b[1][3], b[1][4]>>,
                                      <<b[2][1], b[2][2], b[2][3], b[2][4]>>,
                                      <<b[3][1], b[3][2], b[3][3], b[3][4]>>,
                                      <<b[4][1], b[4][2], b[4][3], b[4][4]>> >>
  BY DEF ShiftRows, InvShiftRows
<1>4. @ = b
  BY BlockIs, ColumnIs
<1> QED BY <1>2, <1>3, <1>4

\* ... and the mixing of the columns.
LEMMA MixColumnsUndone ==
    ASSUME NEW b \in Block
    PROVE  /\ MixColumns(b) \in Block /\ InvMixColumns(b) \in Block
           /\ InvMixColumns(MixColumns(b)) = b
<1>1. b = <<b[1], b[2], b[3], b[4]>>
      /\ b[1] \in Column /\ b[2] \in Column /\ b[3] \in Column /\ b[4] \in Column
  BY BlockIs
<1>2. \A c \in Column : MixColumn(c) \in Column /\ InvMixColumn(c) \in Column
                        /\ InvMixColumn(MixColumn(c)) = c
  BY MixColumnIs, InvMixLinear, MixUndone
<1>3. MixColumns(b) \in Block /\ InvMixColumns(b) \in Block
  BY <1>1, <1>2, BlockIs DEF MixColumns, InvMixColumns
<1> QED BY <1>1, <1>2, <1>3 DEF MixColumns, InvMixColumns

\* An expanded key has columns for the first round key and one per round.
ExpandedKeys == {w \in Seq(Column) : Len(w) = 4 * (Nr + 1)}

\* AddRoundKey() undoes itself.
LEMMA RoundKeyUndone ==
    ASSUME NEW w \in ExpandedKeys, NEW round \in 0..Nr, NEW b \in Block
    PROVE  /\ AddRoundKey(round, b, w) \in Block
           /\ AddRoundKey(round, AddRoundKey(round, b, w), w) = b
<1> DEFINE k == SubSeq(w, round * Nb + 1, round * Nb + Nb)
<1>1. Nr \in Nat /\ round \in Nat
  BY NkAssumption DEF Nr
<1>2. \A i \in round * Nb + 1..round * Nb + Nb : w[i] \in Column
  BY <1>1, ElementOfSeq DEF ExpandedKeys, Nb
<1>3. \A i \in 1..4 : k[i] \in Column
  <2>1. /\ \A i \in 1..round * Nb + Nb - (round * Nb + 1) + 1 :
              k[i] = w[round * Nb + 1 + i - 1]
    BY <1>1, <1>2, SubSeqProperties DEF Nb
  <2>2. \A i \in 1..4 : /\ i \in 1..round * Nb + Nb - (round * Nb + 1) + 1
                        /\ round * Nb + 1 + i - 1 \in round * Nb + 1..round * Nb + Nb
    BY <1>1 DEF Nb
  <2> QED BY <1>2, <2>1, <2>2
<1> DEFINE kk == <<k[1], k[2], k[3], k[4]>>
<1>4. kk \in Block
  <2> HIDE DEF k
  <2>1. k[1] \in Column /\ k[2] \in Column /\ k[3] \in Column /\ k[4] \in Column
    BY <1>3
  <2> QED BY <2>1, BlockIs
<1>5. \A x : AddRoundKey(round, x, w) = XorWithIv(x, kk)
  BY DEF AddRoundKey, XorWithIv
<1> HIDE DEF kk
<1> QED BY <1>4, <1>5, XorBlockLaws

-----------------------------------------------------------------------------
(* Rounds                                                                  *)

\* What the recursive definition of Rounds says, and that its blocks are.
LEMMA RoundsAre ==
    ASSUME NEW w \in ExpandedKeys, NEW b \in Block
    PROVE  /\ Rounds(b, w) = [n \in 0..Nr - 1 |-> Rounds(b, w)[n]]
           /\ \A n \in 0..Nr - 1 : Rounds(b, w)[n] \in Block
           /\ Rounds(b, w)[0] = AddRoundKey(0, b, w)
           /\ \A n \in 0..Nr - 2 :
                Rounds(b, w)[n + 1]
                    = AddRoundKey(n + 1, MixColumns(ShiftRows(SubBytes(Rounds(b, w)[n]))), w)
<1>1. Nr \in Nat /\ Nr >= 10
  BY NkAssumption DEF Nr
<1> DEFINE step == [p \in Nat \X Block |-> IF p[1] + 1 \in 0..Nr THEN Round(p[1] + 1, w)[p[2]] ELSE b]
           first == AddRoundKey(0, b, w)
           Def(f) == [n \in 0..Nr - 1 |-> IF n = 0 THEN first ELSE Round(n, w)[f[n - 1]]]
<1>2. ASSUME NEW n \in 0..Nr, NEW x \in Block
      PROVE  /\ Round(n, w)[x] = AddRoundKey(n, MixColumns(ShiftRows(SubBytes(x))), w)
             /\ Round(n, w)[x] \in Block
  <2>1. MixColumns(ShiftRows(SubBytes(x))) \in Block
    BY SubBytesUndone, ShiftRowsUndone, MixColumnsUndone
  <2> QED BY <2>1, RoundKeyUndone DEF Round
<1>3. first \in Block
  BY <1>1, RoundKeyUndone
<1>4. /\ step \in [Nat \X Block -> Block]
      /\ \A n \in Nat, x \in Block : n + 1 \in 0..Nr => step[<<n, x>>] = Round(n + 1, w)[x]
  BY <1>2
<1> HIDE DEF step, first
<1>5. PICK f \in [Nat -> Block] : \A n \in Nat : Recursion(f, first, step, n)
  BY <1>3, <1>4, RecursionExists
<1>6. f[0] = first /\ \A n \in 0..Nr - 2 : f[n + 1] = Round(n + 1, w)[f[n]]
  <2>1. f[0] = first
    BY <1>5 DEF Recursion
  <2>2. ASSUME NEW n \in 0..Nr - 2 PROVE f[n + 1] = Round(n + 1, w)[f[n]]
    <3>1. n \in Nat /\ n + 1 \in Nat /\ n < n + 1 /\ f[n] \in Block /\ n + 1 \in 0..Nr
      BY <1>1
    <3>2. f[n + 1] = step[<<n, f[n]>>]
      BY <1>5, <3>1 DEF Recursion
    <3> QED BY <1>4, <3>1, <3>2
  <2> QED BY <2>1, <2>2
<1> DEFINE g == [n \in 0..Nr - 1 |-> f[n]]
<1>7. g = Def(g)
  <2>1. ASSUME NEW n \in 0..Nr - 1 PROVE g[n] = Def(g)[n]
    <3>1. CASE n = 0
      BY <1>1, <1>6, <3>1
    <3>2. CASE n # 0
      <4>1. n - 1 \in 0..Nr - 2 /\ n - 1 \in 0..Nr - 1 /\ n = (n - 1) + 1
        BY <1>1, <3>2
      <4>2. g[n] = f[n] /\ g[n - 1] = f[n - 1] /\ f[n] = Round(n, w)[f[n - 1]]
        BY <1>6, <4>1
      <4> QED BY <3>2, <4>2
    <3> QED BY <3>1, <3>2
  <2> QED BY <2>1
<1> DEFINE r == Rounds(b, w)
<1>8. r = Def(r)
  <2>1. r = CHOOSE h : h = Def(h)
    BY DEF Rounds, first
  <2> HIDE DEF Def, r, g
  <2> QED BY <1>7, <2>1
<1>9. r[0] = first /\ \A n \in 0..Nr - 2 : r[n + 1] = Round(n + 1, w)[r[n]]
  <2>1. \A n \in 0..Nr - 2 : n + 1 \in 0..Nr - 1 /\ n + 1 # 0 /\ (n + 1) - 1 = n
    BY <1>1
  <2> HIDE DEF r
  <2> QED BY <1>1, <1>8, <2>1
<1>13. r = [n \in 0..Nr - 1 |-> r[n]]
  <2> HIDE DEF r
  <2> QED BY <1>8
<1> HIDE DEF r
<1> DEFINE T == {n \in Nat : n <= Nr - 1 => r[n] \in Block}
<1>10. Nat \subseteq T
  <2>1. 0 \in T
    BY <1>3, <1>9
  <2>2. ASSUME NEW n \in Nat, n \in T PROVE n + 1 \in T
    <3> SUFFICES ASSUME n + 1 <= Nr - 1 PROVE r[n + 1] \in Block
      OBVIOUS
    <3>1. n \in 0..Nr - 2 /\ n <= Nr - 1 /\ n + 1 \in 0..Nr
      BY <1>1
    <3> QED BY <1>2, <1>9, <2>2, <3>1
  <2> HIDE DEF T
  <2> QED BY <2>1, <2>2, SetInduction
<1>11. \A n \in 0..Nr - 1 : r[n] \in Block
  BY <1>1, <1>10
<1>12. \A n \in 0..Nr - 2 : n \in 0..Nr - 1 /\ n + 1 \in 0..Nr
  BY <1>1
<1> QED BY <1>2, <1>9, <1>11, <1>12, <1>13 DEF r, first

\* Cipher() makes a block of a block.
LEMMA CipherType ==
    ASSUME NEW w \in ExpandedKeys, NEW b \in Block
    PROVE  Cipher(b, w) \in Block
<1>1. Nr \in 0..Nr /\ Nr - 1 \in 0..Nr - 1
  BY NkAssumption DEF Nr
<1>2. ShiftRows(SubBytes(Rounds(b, w)[Nr - 1])) \in Block
  BY <1>1, RoundsAre, SubBytesUndone, ShiftRowsUndone
<1> QED BY <1>1, <1>2, RoundKeyUndone DEF Cipher

\* A block that passed InvSubBytes() and InvShiftRows() of a round.
LEMMA RoundUndone ==
    ASSUME NEW w \in ExpandedKeys, NEW b \in Block, NEW n \in 0..Nr - 2
    PROVE  InvRound(n, w)[AddRoundKey(n + 1, Rounds(b, w)[n + 1], w)]
                = AddRoundKey(n, Rounds(b, w)[n], w)
<1> DEFINE x == Rounds(b, w)[n]
           m == MixColumns(ShiftRows(SubBytes(x)))
<1>1. n \in 0..Nr - 1 /\ n \in 0..Nr /\ n + 1 \in 0..Nr
  BY NkAssumption DEF Nr
<1>2. x \in Block
  BY <1>1, RoundsAre
<1> HIDE DEF x
<1>3. m \in Block /\ InvSubBytes(InvShiftRows(InvMixColumns(m))) = x
  BY <1>2, SubBytesUndone, ShiftRowsUndone, MixColumnsUndone
<1>4. Rounds(b, w)[n + 1] = AddRoundKey(n + 1, m, w)
  BY RoundsAre DEF x
<1>5. AddRoundKey(n + 1, AddRoundKey(n + 1, m, w), w) = m
  BY <1>1, <1>3, RoundKeyUndone
<1>6. InvRound(n, w)[m] = AddRoundKey(n, x, w)
  BY <1>3 DEF InvRound
<1> QED BY <1>4, <1>5, <1>6 DEF x

\* Deciphering passes through the blocks that enciphering passed through.
LEMMA InvRoundsAre ==
    ASSUME NEW w \in ExpandedKeys, NEW b \in Block
    PROVE  \A n \in 0..Nr - 1 :
                InvRounds(Cipher(b, w), w)[n] = AddRoundKey(n, Rounds(b, w)[n], w)
<1> DEFINE c == Cipher(b, w)
           first == AddRoundKey(Nr - 1, InvSubBytes(InvShiftRows(AddRoundKey(Nr, c, w))), w)
           Def(f) == [n \in 0..Nr - 1 |-> IF n = Nr - 1 THEN first ELSE InvRound(n, w)[f[n + 1]]]
           back == [n \in 0..Nr - 1 |-> AddRoundKey(n, Rounds(b, w)[n], w)]
           r == InvRounds(c, w)
<1>1. Nr \in Nat /\ Nr >= 10
  BY NkAssumption DEF Nr
<1>2. first = back[Nr - 1]
  <2> DEFINE x == Rounds(b, w)[Nr - 1]
  <2>1. x \in Block /\ Nr \in 0..Nr /\ Nr - 1 \in 0..Nr - 1
    BY <1>1, RoundsAre
  <2>2. c = AddRoundKey(Nr, ShiftRows(SubBytes(x)), w)
    BY DEF Cipher
  <2> HIDE DEF x, c
  <2>3. SubBytes(x) \in Block /\ ShiftRows(SubBytes(x)) \in Block
    BY <2>1, SubBytesUndone, ShiftRowsUndone
  <2>4. AddRoundKey(Nr, c, w) = ShiftRows(SubBytes(x))
    BY <2>1, <2>2, <2>3, RoundKeyUndone
  <2>5. InvSubBytes(InvShiftRows(AddRoundKey(Nr, c, w))) = x
    BY <2>1, <2>3, <2>4, SubBytesUndone, ShiftRowsUndone
  <2> QED BY <2>1, <2>5 DEF x
<1>3. \A n \in 0..Nr - 1 : n # Nr - 1 =>
        /\ n \in 0..Nr - 2 /\ n + 1 \in 0..Nr - 1
        /\ InvRound(n, w)[back[n + 1]] = back[n]
  <2> TAKE n \in 0..Nr - 1
  <2> HAVE n # Nr - 1
  <2>1. n \in 0..Nr - 2 /\ n + 1 \in 0..Nr - 1
    BY <1>1
  <2> QED BY <2>1, RoundUndone
<1>4. back = Def(back)
  <2>1. \A n \in 0..Nr - 1 : back[n] = Def(back)[n]
    <3> HIDE DEF back, first
    <3> QED BY <1>2, <1>3
  <2> QED BY <2>1
<1>5. r = Def(r)
  <2>1. r = CHOOSE h : h = Def(h)
    BY DEF InvRounds
  <2> HIDE DEF Def, r, back
  <2> QED BY <1>4, <2>1
<1>6. r[Nr - 1] = first /\ \A n \in 0..Nr - 1 : n # Nr - 1 => r[n] = InvRound(n, w)[r[n + 1]]
  <2> HIDE DEF r, first
  <2> QED BY <1>1, <1>5
<1> DEFINE T == {n \in Nat : n <= Nr - 1 => r[Nr - 1 - n] = back[Nr - 1 - n]}
<1> HIDE DEF r, back, first, c
<1>7. Nat \subseteq T
  <2>1. 0 \in T
    <3>1. Nr - 1 - 0 = Nr - 1
      BY <1>1
    <3> QED BY <1>2, <1>6, <3>1
  <2>2. ASSUME NEW n \in Nat, n \in T PROVE n + 1 \in T
    <3> SUFFICES ASSUME n + 1 <= Nr - 1 PROVE r[Nr - 1 - (n + 1)] = back[Nr - 1 - (n + 1)]
      OBVIOUS
    <3> DEFINE i == Nr - 1 - (n + 1)
    <3>1. i \in 0..Nr - 1 /\ i # Nr - 1 /\ i + 1 = Nr - 1 - n /\ n <= Nr - 1
      BY <1>1
    <3>2. r[i + 1] = back[i + 1]
      BY <2>2, <3>1
    <3> HIDE DEF i
    <3>3. r[i] = back[i]
      BY <1>3, <1>6, <3>1, <3>2
    <3> QED BY <3>3 DEF i
  <2> HIDE DEF T
  <2> QED BY <2>1, <2>2, SetInduction
<1>8. ASSUME NEW n \in 0..Nr - 1 PROVE r[n] = back[n]
  <2>1. Nr - 1 - n \in Nat /\ Nr - 1 - n <= Nr - 1 /\ Nr - 1 - (Nr - 1 - n) = n
    BY <1>1
  <2>2. Nr - 1 - n \in T
    BY <1>7, <2>1
  <2> QED BY <2>1, <2>2
<1> QED BY <1>8 DEF r, back, c

\* Deciphering with an expanded key undoes enciphering with it.
LEMMA CipherUndone ==
    ASSUME NEW w \in ExpandedKeys, NEW b \in Block
    PROVE  InvCipher(Cipher(b, w), w) = b
<1>1. 0 \in 0..Nr - 1 /\ 0 \in 0..Nr
  BY NkAssumption DEF Nr
<1>2. InvCipher(Cipher(b, w), w) = AddRoundKey(0, AddRoundKey(0, b, w), w)
  BY <1>1, InvRoundsAre, RoundsAre DEF InvCipher
<1> QED BY <1>1, <1>2, RoundKeyUndone

\* Deciphering any block gives a block.
LEMMA InvCipherType ==
    ASSUME NEW w \in ExpandedKeys, NEW c \in Block
    PROVE  InvCipher(c, w) \in Block
<1> DEFINE first == AddRoundKey(Nr - 1, InvSubBytes(InvShiftRows(AddRoundKey(Nr, c, w))), w)
           Def(f) == [n \in 0..Nr - 1 |-> IF n = Nr - 1 THEN first ELSE InvRound(n, w)[f[n + 1]]]
           step == [p \in Nat \X Block |->
                        IF Nr - 2 - p[1] \in 0..Nr THEN InvRound(Nr - 2 - p[1], w)[p[2]] ELSE c]
           r == InvRounds(c, w)
<1>1. Nr \in Nat /\ Nr >= 10 /\ Nr \in 0..Nr /\ Nr - 1 \in 0..Nr
  BY NkAssumption DEF Nr
<1>2. \A n \in 0..Nr, x \in Block : InvRound(n, w)[x] \in Block
  <2> TAKE n \in 0..Nr, x \in Block
  <2>1. InvMixColumns(x) \in Block
    BY MixColumnsUndone
  <2>2. InvSubBytes(InvShiftRows(InvMixColumns(x))) \in Block
    BY <2>1, SubBytesUndone, ShiftRowsUndone
  <2> QED BY <2>2, RoundKeyUndone DEF InvRound
<1>3. first \in Block
  <2>1. AddRoundKey(Nr, c, w) \in Block
    BY <1>1, RoundKeyUndone
  <2>2. InvSubBytes(InvShiftRows(AddRoundKey(Nr, c, w))) \in Block
    BY <2>1, SubBytesUndone, ShiftRowsUndone
  <2> QED BY <1>1, <2>2, RoundKeyUndone
<1>4. /\ step \in [Nat \X Block -> Block]
      /\ \A n \in Nat, x \in Block :
            Nr - 2 - n \in 0..Nr => step[<<n, x>>] = InvRound(Nr - 2 - n, w)[x]
  BY <1>2
<1> HIDE DEF step, first
<1>5. PICK f \in [Nat -> Block] : \A n \in Nat : Recursion(f, first, step, n)
  BY <1>3, <1>4, RecursionExists
<1> DEFINE g == [n \in 0..Nr - 1 |-> f[Nr - 1 - n]]
<1>6. g = Def(g)
  <2>1. ASSUME NEW n \in 0..Nr - 1 PROVE g[n] = Def(g)[n]
    <3>1. CASE n = Nr - 1
      <4>1. Nr - 1 - n = 0
        BY <1>1, <3>1
      <4>2. f[0] = first
        BY <1>5 DEF Recursion
      <4> QED BY <3>1, <4>1, <4>2
    <3>2. CASE n # Nr - 1
      <4> DEFINE i == Nr - 2 - n
      <4>1. /\ i \in Nat /\ i + 1 \in Nat /\ i < i + 1 /\ i + 1 = Nr - 1 - n
            /\ n + 1 \in 0..Nr - 1 /\ Nr - 1 - (n + 1) = i /\ Nr - 2 - i = n /\ n \in 0..Nr
        BY <1>1, <3>2
      <4>2. g[n] = f[i + 1] /\ g[n + 1] = f[i]
        BY <4>1
      <4> HIDE DEF i
      <4>3. f[i + 1] = step[<<i, f[i]>>] /\ f[i] \in Block
        BY <1>5, <4>1 DEF Recursion
      <4>4. g[n] = InvRound(n, w)[g[n + 1]]
        BY <1>4, <4>1, <4>2, <4>3
      <4> QED BY <3>2, <4>4
    <3> QED BY <3>1, <3>2
  <2> QED BY <2>1
<1>7. r = Def(r)
  <2>1. r = CHOOSE h : h = Def(h)
    BY DEF InvRounds, first
  <2> HIDE DEF Def, r, g
  <2> QED BY <1>6, <2>1
<1>8. r[Nr - 1] = first /\ \A n \in 0..Nr - 1 : n # Nr - 1 => r[n] = InvRound(n, w)[r[n + 1]]
  <2> HIDE DEF r
  <2> QED BY <1>1, <1>7
<1> HIDE DEF r
<1> DEFINE T == {n \in Nat : n <= Nr - 1 => r[Nr - 1 - n] \in Block}
<1>9. Nat \subseteq T
  <2>1. 0 \in T
    <3>1. Nr - 1 - 0 = Nr - 1
      BY <1>1
    <3> QED BY <1>3, <1>8, <3>1
  <2>2. ASSUME NEW n \in Nat, n \in T PROVE n + 1 \in T
    <3> SUFFICES ASSUME n + 1 <= Nr - 1 PROVE r[Nr - 1 - (n + 1)] \in Block
      OBVIOUS
    <3> DEFINE i == Nr - 1 - (n + 1)
    <3>1. i \in 0..Nr - 1 /\ i \in 0..Nr /\ i # Nr - 1 /\ i + 1 = Nr - 1 - n /\ n <= Nr - 1
      BY <1>1
    <3>2. r[i + 1] \in Block
      BY <2>2, <3>1
    <3> HIDE DEF i
    <3>3. r[i] \in Block
      BY <1>2, <1>8, <3>1, <3>2
    <3> QED BY <3>3 DEF i
  <2> HIDE DEF T
  <2> QED BY <2>1, <2>2, SetInduction
<1>10. Nr - 1 \in Nat /\ Nr - 1 <= Nr - 1 /\ Nr - 1 - (Nr - 1) = 0
  BY <1>1
<1>11. Nr - 1 \in T
  BY <1>9, <1>10
<1>12. r[0] \in Block
  BY <1>10, <1>11
<1> QED BY <1>12 DEF r, InvCipher

-----------------------------------------------------------------------------
(* Keys                                                                    *)

\* A key has at least Nk columns.
CipherKeys == {k \in Seq(Column) : Len(k) >= Nk}

\* The constants of Rcon that the columns of the key use.
LEMMA Quotient ==
    ASSUME NEW i \in Nk..4 * (Nr + 1) - 1
    PROVE  i \div Nk \in 1..10 /\ Rcon[i \div Nk + 1] \in Byte
<1>1. i \div Nk \in 1..10
  <2>1. CASE Nk = 4
    <3>1. i \in 4..43
      BY <2>1 DEF Nr
    <3>2. i \div 4 \in 1..10
      BY <3>1
    <3> QED BY <2>1, <3>2
  <2>2. CASE Nk = 6
    <3>1. i \in 6..51
      BY <2>2 DEF Nr
    <3>2. i \div 6 \in 1..10
      BY <3>1
    <3> QED BY <2>2, <3>2
  <2>3. CASE Nk = 8
    <3>1. i \in 8..59
      BY <2>3 DEF Nr
    <3>2. i \div 8 \in 1..10
      BY <3>1
    <3> QED BY <2>3, <3>2
  <2> QED BY <2>1, <2>2, <2>3, NkAssumption
<1> DEFINE k == i \div Nk + 1
<1>2. k \in 2..11
  BY <1>1
<1> HIDE DEF k
<1>3. /\ Rcon[2] \in Byte /\ Rcon[3] \in Byte /\ Rcon[4] \in Byte /\ Rcon[5] \in Byte
      /\ Rcon[6] \in Byte /\ Rcon[7] \in Byte /\ Rcon[8] \in Byte /\ Rcon[9] \in Byte
      /\ Rcon[10] \in Byte /\ Rcon[11] \in Byte
  BY DEF Rcon, Byte
<1>4. Rcon[k] \in Byte
  BY <1>2, <1>3
<1> QED BY <1>1, <1>4 DEF k

\* One more column, while the constants of Rcon last.
LEMMA ExpandedType ==
    ASSUME NEW w \in Seq(Column), Len(w) \in Nk..4 * (Nr + 1) - 1
    PROVE  Expanded(w) \in Seq(Column) /\ Len(Expanded(w)) = Len(w) + 1
<1> DEFINE i == Len(w)
           last == w[i]
           tempa == IF i % Nk = 0
                    THEN XorColumn(SubWord(<<last[2], last[3], last[4], last[1]>>),
                                   <<Rcon[i \div Nk + 1], 0, 0, 0>>)
                    ELSE IF Nk = 8 /\ i % Nk = 4 THEN SubWord(last) ELSE last
<1>1. /\ i \in Nat /\ i \in 1..Len(w) /\ i - Nk + 1 \in 1..Len(w)
  BY NkAssumption DEF Nr
<1>2. last \in Column /\ w[i - Nk + 1] \in Column
  BY <1>1, ElementOfSeq
<1>4. Rcon[i \div Nk + 1] \in Byte
  BY Quotient
<1> HIDE DEF last
<1>5. /\ SubWord(<<last[2], last[3], last[4], last[1]>>) \in Column
      /\ <<Rcon[i \div Nk + 1], 0, 0, 0>> \in Column /\ SubWord(last) \in Column
  BY <1>2, <1>4, ColumnIs, Zero, SubWordUndone
<1>6. tempa \in Column
  BY <1>2, <1>5, XorColumnLaws
<1>7. Expanded(w) = Append(w, XorColumn(w[i - Nk + 1], tempa))
  BY DEF Expanded, last
<1> HIDE DEF tempa, i
<1>8. XorColumn(w[i - Nk + 1], tempa) \in Column
  BY <1>2, <1>6, XorColumnLaws
<1> QED BY <1>7, <1>8, AppendProperties

\* What the recursive definition of RoundKeys says: one column more at a time.
LEMMA RoundKeysAre ==
    ASSUME NEW k \in CipherKeys
    PROVE  /\ RoundKeys(k) = [n \in Nk..4 * (Nr + 1) |->
                                IF n = Nk THEN SubSeq(k, 1, Nk) ELSE Expanded(RoundKeys(k)[n - 1])]
           /\ \A n \in Nk..4 * (Nr + 1) :
                RoundKeys(k)[n] \in Seq(Column) /\ Len(RoundKeys(k)[n]) = n
<1> DEFINE last == 4 * (Nr + 1)
           S == {s \in Seq(Column) : Len(s) \in Nk..last}
           first == SubSeq(k, 1, Nk)
           step == [p \in Nat \X S |-> IF Len(p[2]) < last THEN Expanded(p[2]) ELSE p[2]]
           Def(f) == [i \in Nk..last |-> IF i = Nk THEN first ELSE Expanded(f[i - 1])]
<1>1. Nk \in Nat /\ Nk >= 4 /\ Nr \in Nat /\ last \in Nat /\ Nk < last /\ Nb = 4
  BY NkAssumption DEF Nr, Nb
<1>2. first \in Seq(Column) /\ Len(first) = Nk
  <2>1. k \in Seq(Column) /\ Nk <= Len(k) /\ 1 \in 1..Nk + 1 /\ Nk - 1 + 1 = Nk
    BY <1>1 DEF CipherKeys
  <2>2. \A i \in 1..Nk : k[i] \in Column
    BY <1>1, <2>1, ElementOfSeq
  <2> QED BY <1>1, <2>1, <2>2, SubSeqProperties
<1>3. \A s \in S : Len(s) < last => Expanded(s) \in S /\ Len(Expanded(s)) = Len(s) + 1
  <2> SUFFICES ASSUME NEW s \in S, Len(s) < last
               PROVE  Expanded(s) \in S /\ Len(Expanded(s)) = Len(s) + 1
    OBVIOUS
  <2>1. s \in Seq(Column) /\ Len(s) \in Nk..last - 1
    BY <1>1
  <2>2. Expanded(s) \in Seq(Column) /\ Len(Expanded(s)) = Len(s) + 1
    BY <2>1, ExpandedType
  <2> QED BY <1>1, <2>1, <2>2
<1>4. first \in S
  BY <1>1, <1>2
<1> HIDE DEF first
<1>5. /\ step \in [Nat \X S -> S]
      /\ \A i \in Nat, s \in S : Len(s) < last => step[<<i, s>>] = Expanded(s)
  <2> HIDE DEF S, last
  <2> QED BY <1>3
<1> HIDE DEF step
<1>6. PICK f \in [Nat -> S] : \A i \in Nat : Recursion(f, first, step, i)
  <2> HIDE DEF S
  <2> QED BY <1>4, <1>5, RecursionExists
<1>7. /\ f[0] = first
      /\ \A i \in Nat : f[i] \in S /\ f[i + 1] = step[<<i, f[i]>>]
  <2> HIDE DEF S
  <2>1. \A i \in Nat : i + 1 \in Nat /\ i < i + 1 /\ f[i] \in S
    BY <1>6
  <2> QED BY <1>6, <2>1 DEF Recursion
<1> DEFINE T == {i \in Nat : Nk + i <= last => Len(f[i]) = Nk + i}
<1>8. Nat \subseteq T
  <2>1. 0 \in T
    BY <1>1, <1>2, <1>7
  <2>2. ASSUME NEW i \in Nat, i \in T PROVE i + 1 \in T
    <3> SUFFICES ASSUME Nk + (i + 1) <= last PROVE Len(f[i + 1]) = Nk + (i + 1)
      OBVIOUS
    <3>1. Nk + i <= last /\ Nk + i < last
      BY <1>1
    <3>2. f[i] \in S /\ Len(f[i]) = Nk + i
      BY <1>7, <2>2, <3>1
    <3>3. f[i + 1] = Expanded(f[i]) /\ Len(Expanded(f[i])) = Len(f[i]) + 1
      <4> HIDE DEF S
      <4> QED BY <1>3, <1>5, <1>7, <3>1, <3>2
    <3> QED BY <1>1, <3>2, <3>3
  <2> HIDE DEF T
  <2> QED BY <2>1, <2>2, SetInduction
<1>9. ASSUME NEW i \in Nat, Nk + i <= last
      PROVE  Len(f[i]) = Nk + i /\ f[i] \in S /\ (Nk + i < last => f[i + 1] = Expanded(f[i]))
  <2>1. Len(f[i]) = Nk + i
    BY <1>8, <1>9
  <2> HIDE DEF S, T
  <2> QED BY <1>5, <1>7, <2>1
<1> HIDE DEF T
<1> DEFINE g == [i \in Nk..last |-> f[i - Nk]]
<1>10. g = Def(g)
  <2> HIDE DEF S
  <2>1. \A i \in Nk..last : g[i] = f[i - Nk]
    BY DEF g
  <2>2. g = [i \in Nk..last |-> g[i]]
    <3> HIDE DEF last
    <3> QED OBVIOUS
  <2> HIDE DEF g
  <2>3. ASSUME NEW i \in Nk..last PROVE g[i] = IF i = Nk THEN first ELSE Expanded(g[i - 1])
    <3>1. CASE i = Nk
      <4>1. i - Nk = 0
        BY <1>1, <3>1
      <4> QED BY <1>7, <2>1, <3>1, <4>1
    <3>2. CASE i # Nk
      <4> DEFINE m == i - 1 - Nk
      <4>1. /\ i - 1 \in Nk..last /\ m \in Nat /\ i - Nk = m + 1 /\ Nk + m < last
            /\ Nk + m <= last /\ (i - 1) - Nk = m
        BY <1>1, <3>2
      <4> HIDE DEF m, last
      <4>2. f[m + 1] = Expanded(f[m])
        BY <1>9, <4>1
      <4>3. g[i] = f[m + 1] /\ g[i - 1] = f[m]
        BY <2>1, <4>1
      <4> QED BY <3>2, <4>2, <4>3
    <3> QED BY <3>1, <3>2
  <2> HIDE DEF last
  <2>4. [i \in Nk..last |-> g[i]] = Def(g)
    BY <2>3
  <2> HIDE DEF Def
  <2> QED BY <2>2, <2>4
<1> DEFINE r == RoundKeys(k)
<1>11. r = Def(r)
  <2>1. r = CHOOSE h : h = Def(h)
    BY <1>1 DEF RoundKeys, first
  <2> HIDE DEF Def, r, g
  <2> QED BY <1>10, <2>1
<1> DEFINE U == {i \in Nat : Nk + i <= last => r[Nk + i] = f[i]}
<1>12. Nat \subseteq U
  <2> HIDE DEF r
  <2>1. 0 \in U
    <3>1. Nk + 0 = Nk /\ Nk \in Nk..last
      BY <1>1
    <3> HIDE DEF last
    <3> QED BY <1>7, <1>11, <3>1
  <2>2. ASSUME NEW i \in Nat, i \in U PROVE i + 1 \in U
    <3> SUFFICES ASSUME Nk + (i + 1) <= last PROVE r[Nk + (i + 1)] = f[i + 1]
      OBVIOUS
    <3> DEFINE m == Nk + (i + 1)
    <3>1. /\ m \in Nk..last /\ m # Nk /\ m - 1 = Nk + i /\ Nk + i <= last /\ Nk + i < last
      BY <1>1
    <3>2. r[Nk + i] = f[i]
      BY <2>2, <3>1
    <3>3. f[i + 1] = Expanded(f[i])
      <4> HIDE DEF S
      <4> QED BY <1>9, <3>1
    <3> HIDE DEF m
    <3>4. Def(r)[m] = Expanded(r[m - 1])
      <4> HIDE DEF last
      <4> QED BY <3>1
    <3>5. r[m] = f[i + 1]
      <4> HIDE DEF Def
      <4> QED BY <1>11, <3>1, <3>2, <3>3, <3>4
    <3> QED BY <3>5 DEF m
  <2> HIDE DEF U
  <2> QED BY <2>1, <2>2, SetInduction
<1>13. ASSUME NEW n \in Nk..last PROVE r[n] \in Seq(Column) /\ Len(r[n]) = n
  <2>1. n - Nk \in Nat /\ Nk + (n - Nk) = n /\ Nk + (n - Nk) <= last
    BY <1>1
  <2>2. r[n] = f[n - Nk]
    <3> HIDE DEF r
    <3> QED BY <1>12, <2>1
  <2> QED BY <1>9, <2>1, <2>2
<1> QED BY <1>11, <1>13 DEF r, first

\* KeyExpansion() leaves the round keys of every round.
LEMMA KeysExpanded ==
    ASSUME NEW k \in CipherKeys
    PROVE  KeyExpansion(k) \in ExpandedKeys
<1>1. 4 * (Nr + 1) \in Nk..4 * (Nr + 1) /\ Nb = 4
  BY NkAssumption DEF Nr, Nb
<1> QED BY <1>1, RoundKeysAre DEF KeyExpansion, ExpandedKeys

\* InvCipher() gives back what Cipher() encrypted, for every key, block and
\* build (the rounds are undone in the reverse order, with the same keys).
THEOREM BlockRestored ==
    ASSUME NEW k \in CipherKeys, NEW b \in Block
    PROVE  InvCipher(Cipher(b, KeyExpansion(k)), KeyExpansion(k)) = b
  BY KeysExpanded, CipherUndone

-----------------------------------------------------------------------------
(* The counter                                                             *)

\* Byte p of a block, counted from 0, as the counter is increased: it changes
\* if the bytes behind it are at their limit.
ByteAt(b, p)  == b[p \div 4 + 1][(p % 4) + 1]
Carried(b, p) == \A q \in p + 1..15 : ByteAt(b, q) = 255
NewAt(b, p)   == IF Carried(b, p) THEN (ByteAt(b, p) + 1) % 256 ELSE ByteAt(b, p)

\* The loop of IncrementIv when it has done the last n bytes.
LoopIv(b, n) ==
    [i \in 1..4 |-> [j \in 1..4 |->
        IF 4 * (i - 1) + (j - 1) >= 16 - n THEN NewAt(b, 4 * (i - 1) + (j - 1)) ELSE b[i][j]]]

LoopAt(b, n) == [iv |-> LoopIv(b, n), over |-> ~Carried(b, 15 - n)]

\* The byte with number p is in one place.
LEMMA BytesAt ==
    ASSUME NEW b \in Block, NEW p \in 0..15
    PROVE  /\ p \div 4 + 1 \in 1..4 /\ (p % 4) + 1 \in 1..4
           /\ ByteAt(b, p) \in Byte /\ NewAt(b, p) \in Byte
           /\ \A i, j \in 1..4 : /\ 4 * (i - 1) + (j - 1) \in 0..15
                                 /\ (i = p \div 4 + 1 /\ j = (p % 4) + 1) <=> 4 * (i - 1) + (j - 1) = p
<1>1. p \div 4 + 1 \in 1..4 /\ (p % 4) + 1 \in 1..4
  OBVIOUS
<1>2. ByteAt(b, p) \in Byte
  BY <1>1 DEF ByteAt, Block
<1>3. \A x \in Byte : (x + 1) % 256 \in Byte
  BY DEF Byte
<1>4. \A i, j \in 1..4 : /\ 4 * (i - 1) + (j - 1) \in 0..15
                         /\ (i = p \div 4 + 1 /\ j = (p % 4) + 1) <=> 4 * (i - 1) + (j - 1) = p
  OBVIOUS
<1> QED BY <1>1, <1>2, <1>3, <1>4 DEF NewAt

\* What the loop has made of the bytes.
LEMMA LoopIs ==
    ASSUME NEW b \in Block, NEW n \in 0..16
    PROVE  /\ LoopAt(b, n) = [iv |-> LoopAt(b, n).iv, over |-> LoopAt(b, n).over]
           /\ LoopAt(b, n).iv \in Block /\ LoopAt(b, n).over = ~Carried(b, 15 - n)
           /\ \A i, j \in 1..4 :
                LoopAt(b, n).iv[i][j] = IF 4 * (i - 1) + (j - 1) >= 16 - n
                                        THEN NewAt(b, 4 * (i - 1) + (j - 1)) ELSE b[i][j]
<1>1. \A i, j \in 1..4 : 4 * (i - 1) + (j - 1) \in 0..15 /\ b[i][j] \in Byte
  BY DEF Block
<1>2. \A p \in 0..15 : NewAt(b, p) \in Byte
  BY BytesAt
<1>3. LoopIv(b, n) \in Block
  BY <1>1, <1>2 DEF LoopIv, Block
<1>4. \A i, j \in 1..4 :
        LoopIv(b, n)[i][j] = IF 4 * (i - 1) + (j - 1) >= 16 - n
                             THEN NewAt(b, 4 * (i - 1) + (j - 1)) ELSE b[i][j]
  BY DEF LoopIv
<1>5. LoopAt(b, n).iv = LoopIv(b, n)
  BY DEF LoopAt
<1>6. LoopAt(b, n) = [iv |-> LoopAt(b, n).iv, over |-> LoopAt(b, n).over]
      /\ LoopAt(b, n).over = ~Carried(b, 15 - n)
  BY DEF LoopAt
<1> QED BY <1>3, <1>4, <1>5, <1>6

\* The next byte of the loop.
LEMMA LoopStep ==
    ASSUME NEW b \in Block, NEW n \in 0..15
    PROVE  LoopAt(b, n + 1) = IncrementAt(15 - n, LoopAt(b, n))
<1> DEFINE p == 15 - n
           i == p \div 4 + 1
           j == (p % 4) + 1
           old == LoopAt(b, n)
           new == LoopAt(b, n + 1)
<1>1. p \in 0..15 /\ i \in 1..4 /\ j \in 1..4 /\ n + 1 \in 0..16 /\ 15 - (n + 1) = p - 1
      /\ 16 - n = p + 1 /\ 16 - (n + 1) = p /\ 15 - n = p
  OBVIOUS
<1> HIDE DEF p, i, j
<1>2. /\ old.iv \in Block /\ old.over = ~Carried(b, p)
      /\ \A k, l \in 1..4 : old.iv[k][l] = IF 4 * (k - 1) + (l - 1) >= p + 1
                                           THEN NewAt(b, 4 * (k - 1) + (l - 1)) ELSE b[k][l]
  <2>1. n \in 0..16
    OBVIOUS
  <2>2. /\ old.iv \in Block /\ old.over = ~Carried(b, 15 - n)
        /\ \A k, l \in 1..4 : old.iv[k][l] = IF 4 * (k - 1) + (l - 1) >= 16 - n
                                             THEN NewAt(b, 4 * (k - 1) + (l - 1)) ELSE b[k][l]
    BY <2>1, LoopIs
  <2> HIDE DEF old
  <2> QED BY <1>1, <2>2
<1>3. /\ new.iv \in Block /\ new.over = ~Carried(b, p - 1)
      /\ \A k, l \in 1..4 : new.iv[k][l] = IF 4 * (k - 1) + (l - 1) >= p
                                           THEN NewAt(b, 4 * (k - 1) + (l - 1)) ELSE b[k][l]
      /\ new = [iv |-> new.iv, over |-> new.over]
  <2> DEFINE m == n + 1
  <2>1. m \in 0..16 /\ 15 - m = p - 1 /\ 16 - m = p
    BY <1>1
  <2> HIDE DEF m
  <2> QED BY <2>1, LoopIs DEF m
<1>4. old = [iv |-> old.iv, over |-> old.over]
  BY DEF LoopAt
<1>5. \A k, l \in 1..4 : /\ 4 * (k - 1) + (l - 1) \in 0..15
                         /\ (k = i /\ l = j) <=> 4 * (k - 1) + (l - 1) = p
  BY <1>1, BytesAt DEF i, j
<1>6. Carried(b, p - 1) <=> Carried(b, p) /\ ByteAt(b, p) = 255
  <2>1. \A q : q \in p - 1 + 1..15 <=> q = p \/ q \in p + 1..15
    BY <1>1
  <2> QED BY <2>1 DEF Carried
<1>7. old.iv[i][j] = ByteAt(b, p) /\ new.iv[i][j] = NewAt(b, p) /\ ByteAt(b, p) \in Byte
      /\ b[i][j] = ByteAt(b, p)
  <2>1. 4 * (i - 1) + (j - 1) = p
    BY <1>1, <1>5
  <2>2. ByteAt(b, p) \in Byte /\ b[i][j] = ByteAt(b, p)
    BY <1>1, BytesAt DEF ByteAt, i, j
  <2> HIDE DEF old, new
  <2> QED BY <1>1, <1>2, <1>3, <2>1, <2>2
<1> HIDE DEF old, new
<1>8. \A k, l \in 1..4 : ~(k = i /\ l = j) => new.iv[k][l] = old.iv[k][l]
  <2> TAKE k, l \in 1..4
  <2> DEFINE q == 4 * (k - 1) + (l - 1)
  <2>1. q \in 0..15 /\ ((k = i /\ l = j) <=> q = p)
    BY <1>5
  <2>2. /\ old.iv[k][l] = IF q >= p + 1 THEN NewAt(b, q) ELSE b[k][l]
        /\ new.iv[k][l] = IF q >= p THEN NewAt(b, q) ELSE b[k][l]
    BY <1>2, <1>3
  <2> HIDE DEF q
  <2> QED BY <1>1, <2>1, <2>2
<1> DEFINE x == new.iv[i][j]
<1>9. new.iv = [old.iv EXCEPT ![i][j] = x]
  <2> DEFINE s == [old.iv EXCEPT ![i][j] = x]
  <2>1. x \in Byte
    BY <1>1, <1>3 DEF Block
  <2>2. s \in Block
    BY <1>1, <1>2, <2>1 DEF Block
  <2>3. \A k, l \in 1..4 : s[k][l] = IF k = i /\ l = j THEN x ELSE old.iv[k][l]
    BY <1>1, <1>2 DEF Block
  <2> HIDE DEF s
  <2>4. \A k, l \in 1..4 : s[k][l] = new.iv[k][l]
    BY <1>8, <2>3
  <2>5. s = new.iv
    BY <1>3, <2>2, <2>4 DEF Block
  <2> QED BY <2>5 DEF s
<1>10. CASE old.over
  <2>1. new.iv = old.iv
    <3>1. x = old.iv[i][j]
      BY <1>2, <1>7, <1>10 DEF NewAt
    <3>2. \A k, l \in 1..4 : new.iv[k][l] = old.iv[k][l]
      BY <1>8, <3>1
    <3> QED BY <1>2, <1>3, <3>2 DEF Block
  <2>2. new.over = old.over
    BY <1>2, <1>3, <1>6, <1>10
  <2>3. IncrementAt(p, old) = old
    BY <1>10 DEF IncrementAt
  <2> QED BY <1>3, <1>4, <2>1, <2>2, <2>3 DEF p, old, new
<1>11. CASE ~old.over /\ ByteAt(b, p) = 255
  <2>1. x = 0
    <3>1. (255 + 1) % 256 = 0
      OBVIOUS
    <3> QED BY <1>2, <1>7, <1>11, <3>1 DEF NewAt
  <2>2. new.over = FALSE
    BY <1>2, <1>3, <1>6, <1>11
  <2>3. IncrementAt(p, old) = [iv |-> [old.iv EXCEPT ![i][j] = 0], over |-> FALSE]
    BY <1>7, <1>11 DEF IncrementAt, i, j
  <2> QED BY <1>3, <1>9, <2>1, <2>2, <2>3 DEF p, old, new
<1>12. CASE ~old.over /\ ByteAt(b, p) # 255
  <2>1. x = old.iv[i][j] + 1
    <3>1. \A y \in Byte : y # 255 => (y + 1) % 256 = y + 1
      BY DEF Byte
    <3>2. ByteAt(b, p) \in Byte /\ (ByteAt(b, p) + 1) % 256 = ByteAt(b, p) + 1
      BY <1>7, <1>12, <3>1
    <3> QED BY <1>2, <1>7, <1>12, <3>2 DEF NewAt
  <2>2. new.over = TRUE
    BY <1>2, <1>3, <1>6, <1>12
  <2>3. IncrementAt(p, old) = [iv |-> [old.iv EXCEPT ![i][j] = old.iv[i][j] + 1], over |-> TRUE]
    BY <1>7, <1>12 DEF IncrementAt, i, j
  <2>4. [old.iv EXCEPT ![i][j] = old.iv[i][j] + 1] = [old.iv EXCEPT ![i][j] = x]
    BY <2>1
  <2> QED BY <1>3, <1>9, <2>2, <2>3, <2>4 DEF p, old, new
<1> QED BY <1>2, <1>10, <1>11, <1>12

\* The counter of AES_CTR_xcrypt_buffer() counts as SP 800-38A does, over every
\* carry (the loop ends at the first byte that is not at its limit).
THEOREM CounterIsStandard ==
    ASSUME NEW b \in Block
    PROVE  IncrementIv(b) = StdNext(b) /\ StdNext(b) \in Block
<1> DEFINE Def(f) == [n \in 0..16 |-> IF n = 0 THEN [iv |-> b, over |-> FALSE]
                                      ELSE IncrementAt(16 - n, f[n - 1])]
           f == [n \in 0..16 |-> LoopAt(b, n)]
<1>1. LoopAt(b, 0) = [iv |-> b, over |-> FALSE]
  <2>1. Carried(b, 15 - 0)
    BY DEF Carried
  <2>2. LoopAt(b, 0).iv = b
    <3> DEFINE z == 0
    <3>1. z \in 0..16 /\ \A i, j \in 1..4 : ~(4 * (i - 1) + (j - 1) >= 16 - z)
      OBVIOUS
    <3>2. LoopAt(b, z).iv \in Block /\ \A i, j \in 1..4 : LoopAt(b, z).iv[i][j] = b[i][j]
      <4> HIDE DEF z
      <4> QED BY <3>1, LoopIs
    <3> QED BY <3>2 DEF Block
  <2> QED BY <2>1, <2>2 DEF LoopAt
<1>2. \A n \in 0..16 : n # 0 => LoopAt(b, n) = IncrementAt(16 - n, LoopAt(b, n - 1))
  <2> TAKE n \in 0..16
  <2> HAVE n # 0
  <2>1. n - 1 \in 0..15 /\ (n - 1) + 1 = n /\ 15 - (n - 1) = 16 - n
    OBVIOUS
  <2>2. LoopAt(b, (n - 1) + 1) = IncrementAt(15 - (n - 1), LoopAt(b, n - 1))
    BY <2>1, LoopStep
  <2> QED BY <2>1, <2>2
<1>3. f = Def(f)
  <2>1. \A n \in 0..16 : f[n] = LoopAt(b, n)
    OBVIOUS
  <2>2. \A n \in 0..16 : n # 0 => n - 1 \in 0..16
    OBVIOUS
  <2>3. f = [n \in 0..16 |-> f[n]]
    OBVIOUS
  <2> HIDE DEF f
  <2>4. \A n \in 0..16 : f[n] = IF n = 0 THEN [iv |-> b, over |-> FALSE]
                                ELSE IncrementAt(16 - n, f[n - 1])
    BY <1>1, <1>2, <2>1, <2>2
  <2>5. [n \in 0..16 |-> f[n]] = Def(f)
    BY <2>4
  <2> HIDE DEF Def
  <2> QED BY <2>3, <2>5
<1> DEFINE r == CHOOSE h : h = Def(h)
<1>4. r = Def(r)
  <2> HIDE DEF Def, f
  <2> QED BY <1>3
<1>5. IncrementIv(b) = r[16].iv
  BY DEF IncrementIv
<1> HIDE DEF r
<1> DEFINE T == {n \in Nat : n <= 16 => r[n] = LoopAt(b, n)}
<1>6. Nat \subseteq T
  <2>1. 0 \in T
    BY <1>1, <1>4
  <2>2. ASSUME NEW n \in Nat, n \in T PROVE n + 1 \in T
    <3> SUFFICES ASSUME n + 1 <= 16 PROVE r[n + 1] = LoopAt(b, n + 1)
      OBVIOUS
    <3>1. n + 1 \in 0..16 /\ n + 1 # 0 /\ (n + 1) - 1 = n /\ n <= 16
      OBVIOUS
    <3>2. r[n + 1] = IncrementAt(16 - (n + 1), r[(n + 1) - 1])
      BY <1>4, <3>1
    <3>3. LoopAt(b, n + 1) = IncrementAt(16 - (n + 1), LoopAt(b, (n + 1) - 1))
      BY <1>2, <3>1
    <3> QED BY <2>2, <3>1, <3>2, <3>3
  <2> HIDE DEF T
  <2> QED BY <2>1, <2>2, SetInduction
<1>7. IncrementIv(b) = LoopAt(b, 16).iv
  BY <1>5, <1>6
<1>8. LoopAt(b, 16).iv \in Block
      /\ \A i, j \in 1..4 : LoopAt(b, 16).iv[i][j] = NewAt(b, 4 * (i - 1) + (j - 1))
  <2> DEFINE m == 16
  <2>1. m \in 0..16 /\ \A i, j \in 1..4 : 4 * (i - 1) + (j - 1) >= 16 - m
    OBVIOUS
  <2>2. LoopAt(b, m).iv \in Block
        /\ \A i, j \in 1..4 : LoopAt(b, m).iv[i][j] = NewAt(b, 4 * (i - 1) + (j - 1))
    <3> HIDE DEF m
    <3> QED BY <2>1, LoopIs
  <2> QED BY <2>2
<1>9. StdNext(b) = LoopAt(b, 16).iv
  <2> DEFINE N(p) == NewAt(b, p)
             v == LoopAt(b, 16).iv
  <2>1. StdNext(b) = << <<N(4 * 0), N(4 * 0 + 1), N(4 * 0 + 2), N(4 * 0 + 3)>>,
                        <<N(4 * 1), N(4 * 1 + 1), N(4 * 1 + 2), N(4 * 1 + 3)>>,
                        <<N(4 * 2), N(4 * 2 + 1), N(4 * 2 + 2), N(4 * 2 + 3)>>,
                        <<N(4 * 3), N(4 * 3 + 1), N(4 * 3 + 2), N(4 * 3 + 3)>> >>
    BY DEF StdNext, NewAt, Carried, ByteAt
  <2> HIDE DEF N
  <2>2. \A i, j \in 1..4 : v[i][j] = N(4 * (i - 1) + (j - 1))
    BY <1>8 DEF N
  <2>3. v \in Block
    BY <1>8
  <2> HIDE DEF v
  <2>4. /\ v = <<v[1], v[2], v[3], v[4]>>
        /\ \A i \in 1..4 : v[i] = <<v[i][1], v[i][2], v[i][3], v[i][4]>>
    BY SMTT(30), <2>3, BlockIs, ColumnIs
  <2>5. /\ v[1] = <<N(4 * 0), N(4 * 0 + 1), N(4 * 0 + 2), N(4 * 0 + 3)>>
        /\ v[2] = <<N(4 * 1), N(4 * 1 + 1), N(4 * 1 + 2), N(4 * 1 + 3)>>
        /\ v[3] = <<N(4 * 2), N(4 * 2 + 1), N(4 * 2 + 2), N(4 * 2 + 3)>>
        /\ v[4] = <<N(4 * 3), N(4 * 3 + 1), N(4 * 3 + 2), N(4 * 3 + 3)>>
    BY <2>2, <2>4
  <2> QED BY <2>1, <2>4, <2>5 DEF v
<1> QED BY <1>7, <1>8, <1>9

-----------------------------------------------------------------------------
(* The standard                                                            *)

\* Columns are added and substituted as in the standard,
LEMMA SameWord ==
    ASSUME NEW c \in Column, NEW d \in Column
    PROVE  XorColumn(c, d) = StdAdd(c, d) /\ SubWord(c) = StdSubWord(c)
<1>1. /\ c[1] \in Byte /\ c[2] \in Byte /\ c[3] \in Byte /\ c[4] \in Byte
      /\ d[1] \in Byte /\ d[2] \in Byte /\ d[3] \in Byte /\ d[4] \in Byte
  BY ColumnIs
<1>2. /\ \A x, y \in Byte : x (+) y = StdPlus(x, y)
      /\ \A x \in Byte : getSBoxValue(x) = StdSBox[x]
  BY TablesAssumption
<1> QED BY <1>1, <1>2 DEF XorColumn, StdAdd, SubWord, StdSubWord

\* ... and so are blocks added.
LEMMA SameXor ==
    ASSUME NEW b \in Block, NEW k \in Block
    PROVE  XorWithIv(b, k) = StdXor(b, k)
  BY BlockIs, SameWord DEF XorWithIv, StdXor

\* The rows are rotated and substituted in one step by the standard.
LEMMA SameShift ==
    ASSUME NEW b \in Block
    PROVE  /\ Each(StdShifted, b) = ShiftRows(SubBytes(b))
           /\ \A r, c \in 1..4 : StdShifted(b, r, c) = ShiftRows(SubBytes(b))[c][r]
<1> DEFINE S(x) == StdSBox[x]
           t == ShiftRows(SubBytes(b))
<1>1. \A i, j \in 1..4 : b[i][j] \in Byte
  BY DEF Block
<1>2. \A x \in Byte : getSBoxValue(x) = S(x)
  BY TablesAssumption
<1>3. t = << <<S(b[1][1]), S(b[2][2]), S(b[3][3]), S(b[4][4])>>,
             <<S(b[2][1]), S(b[3][2]), S(b[4][3]), S(b[1][4])>>,
             <<S(b[3][1]), S(b[4][2]), S(b[1][3]), S(b[2][4])>>,
             <<S(b[4][1]), S(b[1][2]), S(b[2][3]), S(b[3][4])>> >>
  <2> HIDE DEF S
  <2> QED BY <1>1, <1>2 DEF ShiftRows, SubBytes, SubWord
<1>4. /\ StdShifted(b, 1, 1) = S(b[1][1]) /\ StdShifted(b, 2, 1) = S(b[2][2])
      /\ StdShifted(b, 3, 1) = S(b[3][3]) /\ StdShifted(b, 4, 1) = S(b[4][4])
      /\ StdShifted(b, 1, 2) = S(b[2][1]) /\ StdShifted(b, 2, 2) = S(b[3][2])
      /\ StdShifted(b, 3, 2) = S(b[4][3]) /\ StdShifted(b, 4, 2) = S(b[1][4])
      /\ StdShifted(b, 1, 3) = S(b[3][1]) /\ StdShifted(b, 2, 3) = S(b[4][2])
      /\ StdShifted(b, 3, 3) = S(b[1][3]) /\ StdShifted(b, 4, 3) = S(b[2][4])
      /\ StdShifted(b, 1, 4) = S(b[4][1]) /\ StdShifted(b, 2, 4) = S(b[1][2])
      /\ StdShifted(b, 3, 4) = S(b[2][3]) /\ StdShifted(b, 4, 4) = S(b[3][4])
  BY DEF StdShifted
<1> HIDE DEF S, t
<1>5. Each(StdShifted, b) = t
  BY <1>3, <1>4 DEF Each
<1>6. \A r, c \in 1..4 : StdShifted(b, r, c) = t[c][r]
  BY <1>3, <1>4
<1> QED BY <1>5, <1>6 DEF t

\* A byte of a mixed column, as the standard defines it.
StdByteMixed(a, b, c, d) == (xtime[a] (+) (xtime[b] (+) b)) (+) (c (+) d)

\* A byte of MixColumn() is that of the standard,
LEMMA MixedIs ==
    ASSUME NEW a, NEW b, NEW c, NEW d,
           a \in Byte, b \in Byte, c \in Byte, d \in Byte
    PROVE  Mixed(a, b, Sum4(a, b, c, d)) = StdByteMixed(a, b, c, d)
<1> DEFINE p == xtime[a]
           q == xtime[b]
           z == c (+) d
           y == p (+) q
<1>1. p \in Byte /\ q \in Byte /\ xtime[a (+) b] = p (+) q
  BY XtimeLaws
<1> HIDE DEF p, q
<1>2. y \in Byte /\ z \in Byte /\ a (+) b \in Byte
  BY <1>1, ByteLaws
<1>3. Sum4(a, b, c, d) = (a (+) b) (+) z
  BY <1>2, ByteLaws DEF Sum4
<1>4. Mixed(a, b, Sum4(a, b, c, d)) = (a (+) y) (+) ((a (+) b) (+) z)
  BY <1>1, <1>3 DEF Mixed
<1>5. @ = (a (+) (a (+) b)) (+) (y (+) z)
  BY <1>2, Pairs
<1>6. a (+) (a (+) b) = b
  <2>1. a (+) (a (+) b) = (a (+) a) (+) b /\ a (+) a = 0 /\ 0 (+) b = b (+) 0
    BY Zero, ByteLaws
  <2> QED BY <2>1, ByteLaws
<1>7. b (+) (y (+) z) = (b (+) y) (+) z
  BY <1>2, ByteLaws
<1>8. b (+) y = p (+) (q (+) b)
  <2>1. b (+) (p (+) q) = (p (+) q) (+) b
    BY <1>1, <1>2, ByteLaws
  <2> QED BY <1>1, <2>1, ByteLaws
<1> QED BY <1>4, <1>5, <1>6, <1>7, <1>8 DEF StdByteMixed, z, p, q

\* ... so a mixed column is,
LEMMA MixedBytes ==
    ASSUME NEW c \in Column
    PROVE  MixColumn(c) = <<StdByteMixed(c[1], c[2], c[3], c[4]),
                            StdByteMixed(c[2], c[3], c[4], c[1]),
                            StdByteMixed(c[3], c[4], c[1], c[2]),
                            StdByteMixed(c[4], c[1], c[2], c[3])>>
<1>1. c[1] \in Byte /\ c[2] \in Byte /\ c[3] \in Byte /\ c[4] \in Byte
  BY ColumnIs
<1> DEFINE a1 == c[1]
           a2 == c[2]
           a3 == c[3]
           a4 == c[4]
<1>2. MixColumn(c) = <<Mixed(a1, a2, ColumnSum(c)), Mixed(a2, a3, ColumnSum(c)),
                       Mixed(a3, a4, ColumnSum(c)), Mixed(a4, a1, ColumnSum(c))>>
  BY MixColumnIs
<1>3. ColumnSum(c) = Sum4(a1, a2, a3, a4)
  BY DEF ColumnSum
<1>4. a1 \in Byte /\ a2 \in Byte /\ a3 \in Byte /\ a4 \in Byte
  BY <1>1
<1> HIDE DEF a1, a2, a3, a4
<1>5. /\ ColumnSum(c) = Sum4(a2, a3, a4, a1) /\ ColumnSum(c) = Sum4(a3, a4, a1, a2)
      /\ ColumnSum(c) = Sum4(a4, a1, a2, a3)
  BY <1>3, <1>4, Sum4Laws
<1>6. /\ Mixed(a1, a2, ColumnSum(c)) = StdByteMixed(a1, a2, a3, a4)
      /\ Mixed(a2, a3, ColumnSum(c)) = StdByteMixed(a2, a3, a4, a1)
      /\ Mixed(a3, a4, ColumnSum(c)) = StdByteMixed(a3, a4, a1, a2)
      /\ Mixed(a4, a1, ColumnSum(c)) = StdByteMixed(a4, a1, a2, a3)
  BY <1>3, <1>4, <1>5, MixedIs
<1> QED BY <1>2, <1>6 DEF a1, a2, a3, a4

\* ... and so the columns after ShiftRows() are.
LEMMA SameMix ==
    ASSUME NEW b \in Block
    PROVE  Each(StdMixed, b) = MixColumns(ShiftRows(SubBytes(b)))
<1> DEFINE t == ShiftRows(SubBytes(b))
           F(v, w, x, y) == StdByteMixed(v, w, x, y)
<1>1. t \in Block
  BY SubBytesUndone, ShiftRowsUndone
<1>2. \A c, r \in 1..4 : t[c][r] \in Byte
  BY <1>1 DEF Block
<1>3. \A v, w, x, y \in Byte :
        StdPlus(StdPlus(StdDouble[v], StdTriple[w]), StdPlus(x, y)) = F(v, w, x, y)
  <2> TAKE v, w, x, y \in Byte
  <2>1. /\ StdDouble[v] = xtime[v] /\ StdTriple[w] = xtime[w] (+) w
        /\ xtime[v] \in Byte /\ xtime[w] \in Byte
    BY TablesAssumption, XtimeLaws
  <2>2. xtime[w] (+) w \in Byte /\ x (+) y \in Byte
    BY <2>1, ByteLaws
  <2>3. xtime[v] (+) (xtime[w] (+) w) \in Byte
    BY <2>1, <2>2, ByteLaws
  <2>4. \A e, f \in Byte : StdPlus(e, f) = e (+) f
    BY TablesAssumption
  <2> QED BY <2>1, <2>2, <2>3, <2>4 DEF StdByteMixed
<1>4. \A c \in 1..4 : /\ StdShifted(b, 1, c) = t[c][1] /\ StdShifted(b, 2, c) = t[c][2]
                      /\ StdShifted(b, 3, c) = t[c][3] /\ StdShifted(b, 4, c) = t[c][4]
  <2>1. \A r, c \in 1..4 : StdShifted(b, r, c) = t[c][r]
    BY SameShift
  <2> HIDE DEF t
  <2> QED BY <2>1
<1> HIDE DEF t, F
<1>5. ASSUME NEW c \in 1..4
      PROVE  /\ StdMixed(b, 1, c) = F(t[c][1], t[c][2], t[c][3], t[c][4])
             /\ StdMixed(b, 2, c) = F(t[c][2], t[c][3], t[c][4], t[c][1])
             /\ StdMixed(b, 3, c) = F(t[c][3], t[c][4], t[c][1], t[c][2])
             /\ StdMixed(b, 4, c) = F(t[c][4], t[c][1], t[c][2], t[c][3])
  <2> DEFINE Q(i) == StdShifted(b, i, c)
             G(v, w, x, y) == StdPlus(StdPlus(StdDouble[v], StdTriple[w]), StdPlus(x, y))
  <2>1. /\ StdMixed(b, 1, c) = G(Q(1), Q(2), Q(3), Q(4))
        /\ StdMixed(b, 2, c) = G(Q(2), Q(3), Q(4), Q(1))
        /\ StdMixed(b, 3, c) = G(Q(3), Q(4), Q(1), Q(2))
        /\ StdMixed(b, 4, c) = G(Q(4), Q(1), Q(2), Q(3))
    <3>1. /\ ((1 + 0 - 1) % 4) + 1 = 1 /\ ((1 + 1 - 1) % 4) + 1 = 2
          /\ ((1 + 2 - 1) % 4) + 1 = 3 /\ ((1 + 3 - 1) % 4) + 1 = 4
          /\ ((2 + 0 - 1) % 4) + 1 = 2 /\ ((2 + 1 - 1) % 4) + 1 = 3
          /\ ((2 + 2 - 1) % 4) + 1 = 4 /\ ((2 + 3 - 1) % 4) + 1 = 1
          /\ ((3 + 0 - 1) % 4) + 1 = 3 /\ ((3 + 1 - 1) % 4) + 1 = 4
          /\ ((3 + 2 - 1) % 4) + 1 = 1 /\ ((3 + 3 - 1) % 4) + 1 = 2
          /\ ((4 + 0 - 1) % 4) + 1 = 4 /\ ((4 + 1 - 1) % 4) + 1 = 1
          /\ ((4 + 2 - 1) % 4) + 1 = 2 /\ ((4 + 3 - 1) % 4) + 1 = 3
      OBVIOUS
    <3> QED BY <3>1 DEF StdMixed
  <2>2. /\ Q(1) = t[c][1] /\ Q(2) = t[c][2] /\ Q(3) = t[c][3] /\ Q(4) = t[c][4]
        /\ t[c][1] \in Byte /\ t[c][2] \in Byte /\ t[c][3] \in Byte /\ t[c][4] \in Byte
    BY <1>2, <1>4
  <2>3. \A v, w, x, y \in Byte : G(v, w, x, y) = F(v, w, x, y)
    BY <1>3
  <2> HIDE DEF Q, G
  <2> QED BY <2>1, <2>2, <2>3
<1> DEFINE m == <<MixColumn(t[1]), MixColumn(t[2]), MixColumn(t[3]), MixColumn(t[4])>>
<1>6. \A c \in 1..4 :
        MixColumn(t[c]) = <<StdMixed(b, 1, c), StdMixed(b, 2, c), StdMixed(b, 3, c), StdMixed(b, 4, c)>>
  <2>1. \A c \in 1..4 : t[c] \in Column
    BY <1>1 DEF Block, Column
  <2> QED BY <1>5, <2>1, MixedBytes DEF F
<1>7. Each(StdMixed, b) = m
  BY <1>6 DEF Each
<1> QED BY <1>7 DEF MixColumns, t

\* The part of a round key that is added in a round is a block.
LEMMA KeyBlock ==
    ASSUME NEW w \in ExpandedKeys, NEW n \in 0..Nr
    PROVE  StdKey(w, n) \in Block /\ \A x : AddRoundKey(n, x, w) = XorWithIv(x, StdKey(w, n))
<1>1. Nr \in Nat /\ w \in Seq(Column) /\ Len(w) = 4 * (Nr + 1) /\ n * Nb = 4 * n /\ Nb = 4
  BY NkAssumption DEF Nr, ExpandedKeys, Nb
<1> DEFINE k == SubSeq(w, 4 * n + 1, 4 * n + 4)
<1>2. k \in Seq(Column) /\ Len(k) = 4
  <2>1. \A i \in 4 * n + 1..4 * n + 4 : w[i] \in Column
    BY <1>1, ElementOfSeq
  <2>2. 4 * n + 4 - (4 * n + 1) + 1 = 4 /\ 4 * n + 1 <= 4 * n + 4
    OBVIOUS
  <2> QED BY <1>1, <2>1, <2>2, SubSeqProperties
<1> HIDE DEF k
<1>3. k \in [1..4 -> Column]
  BY <1>2, LenProperties
<1> QED BY <1>1, <1>3 DEF Block, Column, StdKey, AddRoundKey, k

\* AddRoundKey() adds what the standard adds.
LEMMA SameRound ==
    ASSUME NEW w \in ExpandedKeys, NEW n \in 0..Nr, NEW x \in Block
    PROVE  AddRoundKey(n, x, w) = StdXor(x, StdKey(w, n))
  BY KeyBlock, SameXor

\* The rounds of the standard are those of Cipher.
LEMMA SameRounds ==
    ASSUME NEW w \in ExpandedKeys, NEW b \in Block
    PROVE  Cipher(b, w) = StdRounds(w, Nk, b)
<1> DEFINE first == StdXor(b, StdKey(w, 0))
           Def(f) == [n \in 0..Nk + 5 |-> IF n = 0 THEN first ELSE StdRound(w, n)[f[n - 1]]]
           r == Rounds(b, w)
           g == CHOOSE h : h = Def(h)
<1>1. Nr \in Nat /\ Nr >= 10 /\ Nk + 5 = Nr - 1 /\ Nk + 6 = Nr
  BY NkAssumption DEF Nr
<1>2. /\ r = [n \in 0..Nr - 1 |-> r[n]]
      /\ \A n \in 0..Nr - 1 : r[n] \in Block
      /\ r[0] = AddRoundKey(0, b, w)
      /\ \A n \in 0..Nr - 2 :
            r[n + 1] = AddRoundKey(n + 1, MixColumns(ShiftRows(SubBytes(r[n]))), w)
  BY RoundsAre
<1> HIDE DEF r
<1>3. r[0] = first
  BY <1>1, <1>2, SameRound
<1>4. ASSUME NEW n \in 0..Nr - 2, NEW x \in Block
      PROVE  StdRound(w, n + 1)[x] = AddRoundKey(n + 1, MixColumns(ShiftRows(SubBytes(x))), w)
  <2>1. n + 1 \in 0..Nr
    BY <1>1
  <2>2. MixColumns(ShiftRows(SubBytes(x))) \in Block
    BY SubBytesUndone, ShiftRowsUndone, MixColumnsUndone
  <2>3. StdBlock = Block
    BY DEF StdBlock, Block, Byte
  <2>4. StdRound(w, n + 1)[x] = StdXor(Each(StdMixed, x), StdKey(w, n + 1))
    BY <2>3 DEF StdRound
  <2> QED BY <2>1, <2>2, <2>4, SameMix, SameRound
<1> HIDE DEF first
<1>5. r = Def(r)
  <2>1. ASSUME NEW n \in 0..Nr - 1 PROVE r[n] = IF n = 0 THEN first ELSE StdRound(w, n)[r[n - 1]]
    <3>1. CASE n = 0
      BY <1>3, <3>1
    <3>2. CASE n # 0
      <4>1. n - 1 \in 0..Nr - 2 /\ n - 1 \in 0..Nr - 1 /\ (n - 1) + 1 = n
        BY <1>1, <3>2
      <4>2. r[(n - 1) + 1] = StdRound(w, (n - 1) + 1)[r[n - 1]]
        BY <1>2, <1>4, <4>1
      <4> QED BY <3>2, <4>1, <4>2
    <3> QED BY <3>1, <3>2
  <2>2. [n \in 0..Nr - 1 |-> r[n]] = Def(r)
    BY <1>1, <2>1
  <2> HIDE DEF Def
  <2> QED BY <1>2, <2>2
<1>6. g = Def(g)
  <2> HIDE DEF Def
  <2> QED BY <1>5
<1>7. StdRounds(w, Nk, b) = StdXor(Each(StdShifted, g[Nk + 5]), StdKey(w, Nk + 6))
  BY DEF StdRounds, first
<1> HIDE DEF g
<1> DEFINE T == {n \in Nat : n <= Nr - 1 => g[n] = r[n]}
<1>8. Nat \subseteq T
  <2>1. 0 \in T
    BY <1>1, <1>3, <1>6
  <2>2. ASSUME NEW n \in Nat, n \in T PROVE n + 1 \in T
    <3> SUFFICES ASSUME n + 1 <= Nr - 1 PROVE g[n + 1] = r[n + 1]
      OBVIOUS
    <3>1. n + 1 \in 0..Nr - 1 /\ n + 1 # 0 /\ (n + 1) - 1 = n /\ n <= Nr - 1
      BY <1>1
    <3>2. g[n + 1] = StdRound(w, n + 1)[g[(n + 1) - 1]]
      BY <1>1, <1>6, <3>1
    <3>3. r[n + 1] = StdRound(w, n + 1)[r[(n + 1) - 1]]
      BY <1>1, <1>5, <3>1
    <3> QED BY <2>2, <3>1, <3>2, <3>3
  <2> HIDE DEF T
  <2> QED BY <2>1, <2>2, SetInduction
<1>9. Nr - 1 \in Nat /\ Nr - 1 \in 0..Nr - 1 /\ Nr - 1 <= Nr - 1 /\ Nr \in 0..Nr
  BY <1>1
<1>10. g[Nr - 1] = r[Nr - 1] /\ r[Nr - 1] \in Block
  BY <1>2, <1>8, <1>9
<1>11. ShiftRows(SubBytes(r[Nr - 1])) \in Block
       /\ Each(StdShifted, r[Nr - 1]) = ShiftRows(SubBytes(r[Nr - 1]))
  BY <1>10, SameShift, SubBytesUndone, ShiftRowsUndone
<1> QED BY <1>1, <1>7, <1>9, <1>10, <1>11, SameRound DEF Cipher, r

\* The next column of the key is the standard's,
LEMMA SameExtended ==
    ASSUME NEW w \in Seq(Column), Len(w) \in Nk..4 * (Nr + 1) - 1
    PROVE  Expanded(w) = StdExtended(w, Nk)
<1> DEFINE i == Len(w)
           last == w[i]
           temp == IF i % Nk = 0
                   THEN StdAdd(StdSubWord(StdRotWord(last)), <<StdRcon(i \div Nk), 0, 0, 0>>)
                   ELSE IF Nk = 8 /\ i % Nk = 4 THEN StdSubWord(last) ELSE last
<1>1. i \in Nat /\ i \in 1..Len(w) /\ i - Nk + 1 \in 1..Len(w) /\ (Nk > 6 <=> Nk = 8)
  BY NkAssumption DEF Nr
<1>2. last \in Column /\ w[i - Nk + 1] \in Column
  BY <1>1, ElementOfSeq
<1>3. Rcon[i \div Nk + 1] \in Byte /\ Rcon[i \div Nk + 1] = StdRcon(i \div Nk)
  BY Quotient, TablesAssumption
<1>4. StdExtended(w, Nk) = Append(w, StdAdd(w[i - Nk + 1], temp))
  BY <1>1 DEF StdExtended
<1> HIDE DEF last
<1>5. StdRotWord(last) \in Column /\ StdRotWord(last) = <<last[2], last[3], last[4], last[1]>>
  BY <1>2, ColumnIs DEF StdRotWord
<1>6. /\ SubWord(StdRotWord(last)) \in Column /\ SubWord(StdRotWord(last)) = StdSubWord(StdRotWord(last))
      /\ SubWord(last) \in Column /\ SubWord(last) = StdSubWord(last)
  BY <1>2, <1>5, SubWordUndone, SameWord
<1>7. <<StdRcon(i \div Nk), 0, 0, 0>> \in Column
  BY <1>3, ColumnIs, Zero
<1>8. /\ StdAdd(StdSubWord(StdRotWord(last)), <<StdRcon(i \div Nk), 0, 0, 0>>)
            = XorColumn(SubWord(StdRotWord(last)), <<StdRcon(i \div Nk), 0, 0, 0>>)
      /\ XorColumn(SubWord(StdRotWord(last)), <<StdRcon(i \div Nk), 0, 0, 0>>) \in Column
  BY <1>6, <1>7, SameWord, XorColumnLaws
<1>9. temp \in Column
  BY <1>2, <1>6, <1>8
<1>10. temp = IF i % Nk = 0
              THEN XorColumn(SubWord(<<last[2], last[3], last[4], last[1]>>),
                             <<Rcon[i \div Nk + 1], 0, 0, 0>>)
              ELSE IF Nk = 8 /\ i % Nk = 4 THEN SubWord(last) ELSE last
  BY <1>3, <1>5, <1>6, <1>8
<1> HIDE DEF temp
<1>11. Expanded(w) = Append(w, XorColumn(w[i - Nk + 1], temp))
  BY <1>10 DEF Expanded, last
<1> QED BY <1>2, <1>4, <1>9, <1>11, SameWord

\* ... and so the whole schedule is.
LEMMA SameSchedule ==
    ASSUME NEW k \in CipherKeys
    PROVE  KeyExpansion(k) = StdSchedule(SubSeq(k, 1, Nk), Nk)
<1> DEFINE last == 4 * (Nk + 7)
           first == SubSeq(k, 1, Nk)
           Def(f) == [n \in Nk..last |-> IF n = Nk THEN first ELSE StdExtended(f[n - 1], Nk)]
           r == RoundKeys(k)
           g == CHOOSE h : h = Def(h)
<1>1. Nk \in Nat /\ last \in Nat /\ Nk < last /\ 4 * (Nr + 1) = last /\ Nb * (Nr + 1) = last
  BY NkAssumption DEF Nr, Nb
<1>2. /\ r = [n \in Nk..last |-> IF n = Nk THEN first ELSE Expanded(r[n - 1])]
      /\ \A n \in Nk..last : r[n] \in Seq(Column) /\ Len(r[n]) = n
  BY <1>1, RoundKeysAre
<1>3. StdWords(first, Nk) = g
  BY DEF StdWords
<1> HIDE DEF r, first
<1>4. \A n \in Nk..last : n # Nk => Expanded(r[n - 1]) = StdExtended(r[n - 1], Nk)
  <2> TAKE n \in Nk..last
  <2> HAVE n # Nk
  <2>1. n - 1 \in Nk..last /\ n - 1 \in Nk..4 * (Nr + 1) - 1
    BY <1>1
  <2>2. r[n - 1] \in Seq(Column) /\ Len(r[n - 1]) = n - 1
    BY <1>2, <2>1
  <2> QED BY <2>1, <2>2, SameExtended
<1> HIDE DEF last
<1>5. r = Def(r)
  <2>1. [n \in Nk..last |-> IF n = Nk THEN first ELSE Expanded(r[n - 1])] = Def(r)
    BY <1>4
  <2> HIDE DEF Def
  <2> QED BY <1>2, <2>1
<1>6. g = Def(g)
  <2> HIDE DEF Def
  <2> QED BY <1>5
<1> HIDE DEF g
<1> DEFINE T == {n \in Nat : Nk + n <= last => g[Nk + n] = r[Nk + n]}
<1>7. Nat \subseteq T
  <2>1. 0 \in T
    <3>1. Nk + 0 = Nk /\ Nk \in Nk..last
      BY <1>1
    <3>2. g[Nk] = first /\ r[Nk] = first
      BY <1>5, <1>6, <3>1
    <3> QED BY <3>1, <3>2
  <2>2. ASSUME NEW n \in Nat, n \in T PROVE n + 1 \in T
    <3> SUFFICES ASSUME Nk + (n + 1) <= last PROVE g[Nk + (n + 1)] = r[Nk + (n + 1)]
      OBVIOUS
    <3> DEFINE m == Nk + (n + 1)
    <3>1. m \in Nk..last /\ m # Nk /\ m - 1 = Nk + n /\ Nk + n <= last
      BY <1>1
    <3> HIDE DEF m
    <3>2. g[m] = StdExtended(g[m - 1], Nk) /\ r[m] = StdExtended(r[m - 1], Nk)
      BY <1>5, <1>6, <3>1
    <3>3. g[m - 1] = r[m - 1]
      BY <2>2, <3>1
    <3> QED BY <3>2, <3>3 DEF m
  <2> HIDE DEF T
  <2> QED BY <2>1, <2>2, SetInduction
<1>8. last - Nk \in Nat /\ Nk + (last - Nk) = last /\ Nk + (last - Nk) <= last
  BY <1>1
<1>9. g[last] = r[last]
  BY <1>7, <1>8
<1> QED BY <1>1, <1>3, <1>9 DEF KeyExpansion, StdSchedule, r, first, last

\* The cipher of aes.c is that of FIPS 197, for every key, block and build (the
\* key schedule and the rounds, once the tables are the standard's).
THEOREM CipherIsStandard ==
    ASSUME NEW k \in CipherKeys, NEW b \in Block
    PROVE  Cipher(b, KeyExpansion(k)) = StdCipher(SubSeq(k, 1, Nk), Nk, b)
  BY KeysExpanded, SameRounds, SameSchedule DEF StdCipher
=============================================================================
