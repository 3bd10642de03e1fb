---------------------------- MODULE AesStandard -----------------------------
(***************************************************************************)
(* The cipher as FIPS 197 defines it, for aes.c to be compared with: bytes *)
(* are polynomials over the field of two elements, the S-box is computed,  *)
(* nothing is looked up.  A polynomial is the set of its exponents.        *)
(***************************************************************************)
EXTENDS Integers, Sequences, FiniteSets

Odd(S) == Cardinality(S) % 2 = 1

StdPoly == [b \in 0..255 |-> {i \in 0..7 : (b \div 2^i) % 2 = 1}]

StdByte(P) ==
    LET Bit(i) == IF i \in P THEN 2^i ELSE 0
    IN  Bit(0) + Bit(1) + Bit(2) + Bit(3) + Bit(4) + Bit(5) + Bit(6) + Bit(7)

\* The product modulo x^8 + x^4 + x^3 + x + 1.
Times(P, Q) ==
    LET shifted[i \in 0..7] ==
            IF i = 0 THEN P
            ELSE LET up == {k + 1 : k \in shifted[i - 1]}
                 IN  IF 8 \in up
                     THEN (up \ {0, 1, 3, 4, 8}) \union ({0, 1, 3, 4} \ up)
                     ELSE up
    IN  {k \in 0..7 : Odd({i \in Q : k \in shifted[i]})}

StdInverse == [b \in 0..255 |->
    IF b = 0 THEN {}
    ELSE StdPoly[CHOOSE c \in 1..255 : Times(StdPoly[b], StdPoly[c]) = {0}]]

\* The affine map, with constant 0x63, of the inverse.
StdSBox == [b \in 0..255 |->
    StdByte({i \in 0..7 :
        Odd({k \in 4..8 : (i + k) % 8 \in StdInverse[b]}) # (i \in {0, 1, 5, 6})})]

StdPlus(a, b) ==
    StdByte((StdPoly[a] \ StdPoly[b]) \union (StdPoly[b] \ StdPoly[a]))

StdDouble == [b \in 0..255 |-> StdByte(Times({1}, StdPoly[b]))]
StdTriple == [b \in 0..255 |-> StdByte(Times({0, 1}, StdPoly[b]))]

StdAdd(c, d) == <<StdPlus(c[1], d[1]), StdPlus(c[2], d[2]),
                  StdPlus(c[3], d[3]), StdPlus(c[4], d[4])>>

StdXor(s, t) == <<StdAdd(s[1], t[1]), StdAdd(s[2], t[2]),
                  StdAdd(s[3], t[3]), StdAdd(s[4], t[4])>>

-----------------------------------------------------------------------------
(* The key of n words                                                      *)

StdRcon(i) == CASE i = 9 -> 27 [] i = 10 -> 54 [] OTHER -> 2^(i - 1)

StdRotWord(w) == <<w[2], w[3], w[4], w[1]>>
StdSubWord(w) == <<StdSBox[w[1]], StdSBox[w[2]], StdSBox[w[3]], StdSBox[w[4]]>>

\* The words w of the schedule and the next one.
StdExtended(w, n) ==
    LET i    == Len(w)
        temp == CASE i % n = 0 ->
                        StdAdd(StdSubWord(StdRotWord(w[i])), <<StdRcon(i \div n), 0, 0, 0>>)
                  [] n > 6 /\ i % n = 4 -> StdSubWord(w[i])
                  [] OTHER -> w[i]
    IN  Append(w, StdAdd(w[i - n + 1], temp))

\* The first i words of the schedule.
StdWords(key, n) ==
    LET words[i \in n..4 * (n + 7)] ==
            IF i = n THEN key ELSE StdExtended(words[i - 1], n)
    IN  words

StdSchedule(key, n) == StdWords(key, n)[4 * (n + 7)]

-----------------------------------------------------------------------------
(* The rounds                                                              *)

StdBlock == [1..4 -> [1..4 -> 0..255]]

\* Byte r of column c after SubBytes and ShiftRows.
StdShifted(s, r, c) == StdSBox[s[((c + r - 2) % 4) + 1][r]]

StdMixed(s, r, c) ==
    LET Row(k) == ((r + k - 1) % 4) + 1
    IN  StdPlus(StdPlus(StdDouble[StdShifted(s, Row(0), c)],
                        StdTriple[StdShifted(s, Row(1), c)]),
                StdPlus(StdShifted(s, Row(2), c), StdShifted(s, Row(3), c)))

Each(Op(_, _, _), s) ==
    LET Column(c) == <<Op(s, 1, c), Op(s, 2, c), Op(s, 3, c), Op(s, 4, c)>>
    IN  <<Column(1), Column(2), Column(3), Column(4)>>

StdKey(w, round) == SubSeq(w, 4 * round + 1, 4 * round + 4)

StdRound(w, round) == [s \in StdBlock |-> StdXor(Each(StdMixed, s), StdKey(w, round))]

StdRounds(w, n, block) ==
    LET after[round \in 0..n + 5] ==
            IF round = 0 THEN StdXor(block, StdKey(w, 0))
            ELSE StdRound(w, round)[after[round - 1]]
    IN  StdXor(Each(StdShifted, after[n + 5]), StdKey(w, n + 6))

\* The block encrypted with the key, which has n = 4, 6 or 8 words.
StdCipher(key, n, block) == StdRounds(StdSchedule(key, n), n, block)

\* SP 800-38A: the next counter, a number of sixteen bytes.
StdNext(counter) ==
    LET Byte(p) == counter[(p \div 4) + 1][(p % 4) + 1]
        New(p)  == IF \A q \in p + 1..15 : Byte(q) = 255
                   THEN (Byte(p) + 1) % 256 ELSE Byte(p)
        Column(c) == <<New(4 * c), New(4 * c + 1), New(4 * c + 2), New(4 * c + 3)>>
    IN  <<Column(0), Column(1), Column(2), Column(3)>>
=============================================================================
