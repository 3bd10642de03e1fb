-------------------------------- MODULE Aes ---------------------------------
(***************************************************************************)
(* The block cipher of aes.c (tinyAES), as operators on blocks.  A block   *)
(* is the state_t of the code: four columns of four bytes, in the order of *)
(* the bytes in memory.  An expanded key is a sequence of such columns.    *)
(* Nk is the number of columns of the key: 4 in the build, which defines   *)
(* AES128; 6 and 8 are the builds that define AES192 or AES256 instead.    *)
(***************************************************************************)
EXTENDS Integers, Sequences

CONSTANT Nk
ASSUME NkAssumption == Nk \in {4, 6, 8}

Nb == 4
Nr == Nk + 6

sbox == <<
     99, 124, 119, 123, 242, 107, 111, 197,  48,   1, 103,  43, 254, 215, 171, 118,
    202, 130, 201, 125, 250,  89,  71, 240, 173, 212, 162, 175, 156, 164, 114, 192,
    183, 253, 147,  38,  54,  63, 247, 204,  52, 165, 229, 241, 113, 216,  49,  21,
      4, 199,  35, 195,  24, 150,   5, 154,   7,  18, 128, 226, 235,  39, 178, 117,
      9, 131,  44,  26,  27, 110,  90, 160,  82,  59, 214, 179,  41, 227,  47, 132,
     83, 209,   0, 237,  32, 252, 177,  91, 106, 203, 190,  57,  74,  76,  88, 207,
    208, 239, 170, 251,  67,  77,  51, 133,  69, 249,   2, 127,  80,  60, 159, 168,
     81, 163,  64, 143, 146, 157,  56, 245, 188, 182, 218,  33,  16, 255, 243, 210,
    205,  12,  19, 236,  95, 151,  68,  23, 196, 167, 126,  61, 100,  93,  25, 115,
     96, 129,  79, 220,  34,  42, 144, 136,  70, 238, 184,  20, 222,  94,  11, 219,
    224,  50,  58,  10,  73,   6,  36,  92, 194, 211, 172,  98, 145, 149, 228, 121,
    231, 200,  55, 109, 141, 213,  78, 169, 108,  86, 244, 234, 101, 122, 174,   8,
    186, 120,  37,  46,  28, 166, 180, 198, 232, 221, 116,  31,  75, 189, 139, 138,
    112,  62, 181, 102,  72,   3, 246,  14,  97,  53,  87, 185, 134, 193,  29, 158,
    225, 248, 152,  17, 105, 217, 142, 148, 155,  30, 135, 233, 206,  85,  40, 223,
    140, 161, 137,  13, 191, 230,  66, 104,  65, 153,  45,  15, 176,  84, 187,  22>>

rsbox == <<
     82,   9, 106, 213,  48,  54, 165,  56, 191,  64, 163, 158, 129, 243, 215, 251,
    124, 227,  57, 130, 155,  47, 255, 135,  52, 142,  67,  68, 196, 222, 233, 203,
     84, 123, 148,  50, 166, 194,  35,  61, 238,  76, 149,  11,  66, 250, 195,  78,
      8,  46, 161, 102,  40, 217,  36, 178, 118,  91, 162,  73, 109, 139, 209,  37,
    114, 248, 246, 100, 134, 104, 152,  22, 212, 164,  92, 204,  93, 101, 182, 146,
    108, 112,  72,  80, 253, 237, 185, 218,  94,  21,  70,  87, 167, 141, 157, 132,
    144, 216, 171,   0, 140, 188, 211,  10, 247, 228,  88,   5, 184, 179,  69,   6,
    208,  44,  30, 143, 202,  63,  15,   2, 193, 175, 189,   3,   1,  19, 138, 107,
     58, 145,  17,  65,  79, 103, 220, 234, 151, 242, 207, 206, 240, 180, 230, 115,
    150, 172, 116,  34, 231, 173,  53, 133, 226, 249,  55, 232,  28, 117, 223, 110,
     71, 241,  26, 113,  29,  41, 197, 137, 111, 183,  98,  14, 170,  24, 190,  27,
    252,  86,  62,  75, 198, 210, 121,  32, 154, 219, 192, 254, 120, 205,  90, 244,
     31, 221, 168,  51, 136,   7, 199,  49, 177,  18,  16,  89,  39, 128, 236,  95,
     96,  81, 127, 169,  25, 181,  74,  13,  45, 229, 122, 159, 147, 201, 156, 239,
    160, 224,  59,  77, 174,  42, 245, 176, 200, 235, 187,  60, 131,  83, 153,  97,
     23,  43,   4, 126, 186, 119, 214,  38, 225, 105,  20,  99,  85,  33,  12, 125>>

Rcon == <<141, 1, 2, 4, 8, 16, 32, 64, 128, 27, 54>>

\* Exclusive or, of half bytes and of bytes.
NibbleXor == <<
    << 0,  1,  2,  3,  4,  5,  6,  7,  8,  9, 10, 11, 12, 13, 14, 15>>,
    << 1,  0,  3,  2,  5,  4,  7,  6,  9,  8, 11, 10, 13, 12, 15, 14>>,
    << 2,  3,  0,  1,  6,  7,  4,  5, 10, 11,  8,  9, 14, 15, 12, 13>>,
    << 3,  2,  1,  0,  7,  6,  5,  4, 11, 10,  9,  8, 15, 14, 13, 12>>,
    << 4,  5,  6,  7,  0,  1,  2,  3, 12, 13, 14, 15,  8,  9, 10, 11>>,
    << 5,  4,  7,  6,  1,  0,  3,  2, 13, 12, 15, 14,  9,  8, 11, 10>>,
    << 6,  7,  4,  5,  2,  3,  0,  1, 14, 15, 12, 13, 10, 11,  8,  9>>,
    << 7,  6,  5,  4,  3,  2,  1,  0, 15, 14, 13, 12, 11, 10,  9,  8>>,
    << 8,  9, 10, 11, 12, 13, 14, 15,  0,  1,  2,  3,  4,  5,  6,  7>>,
    << 9,  8, 11, 10, 13, 12, 15, 14,  1,  0,  3,  2,  5,  4,  7,  6>>,
    <<10, 11,  8,  9, 14, 15, 12, 13,  2,  3,  0,  1,  6,  7,  4,  5>>,
    <<11, 10,  9,  8, 15, 14, 13, 12,  3,  2,  1,  0,  7,  6,  5,  4>>,
    <<12, 13, 14, 15,  8,  9, 10, 11,  4,  5,  6,  7,  0,  1,  2,  3>>,
    <<13, 12, 15, 14,  9,  8, 11, 10,  5,  4,  7,  6,  1,  0,  3,  2>>,
    <<14, 15, 12, 13, 10, 11,  8,  9,  6,  7,  4,  5,  2,  3,  0,  1>>,
    <<15, 14, 13, 12, 11, 10,  9,  8,  7,  6,  5,  4,  3,  2,  1,  0>>>>

Byte  == 0..255
Block == [1..4 -> [1..4 -> Byte]]

a (+) b == 16 * NibbleXor[a \div 16 + 1][b \div 16 + 1]
            + NibbleXor[(a % 16) + 1][(b % 16) + 1]

XorColumn(c, d) == <<c[1] (+) d[1], c[2] (+) d[2], c[3] (+) d[3], c[4] (+) d[4]>>

\* Adds a block to another, byte by byte.
XorWithIv(buf, Iv) == <<XorColumn(buf[1], Iv[1]), XorColumn(buf[2], Iv[2]),
                        XorColumn(buf[3], Iv[3]), XorColumn(buf[4], Iv[4])>>

-----------------------------------------------------------------------------
(* Encryption                                                              *)

getSBoxValue(num)  == sbox[num + 1]
getSBoxInvert(num) == rsbox[num + 1]

SubWord(c) == <<getSBoxValue(c[1]), getSBoxValue(c[2]),
                getSBoxValue(c[3]), getSBoxValue(c[4])>>

\* The columns w of the key and the one computed from them.
Expanded(w) ==
    LET i     == Len(w)
        last  == w[i]
        tempa == IF i % Nk = 0
                 THEN XorColumn(SubWord(<<last[2], last[3], last[4], last[1]>>),
                                <<Rcon[i \div Nk + 1], 0, 0, 0>>)
                 ELSE IF Nk = 8 /\ i % Nk = 4 THEN SubWord(last) ELSE last
    IN  Append(w, XorColumn(w[i - Nk + 1], tempa))

\* The first i columns of the expanded key; only Nk columns of Key are used.
RoundKeys(Key) ==
    LET columns[i \in Nk..Nb * (Nr + 1)] ==
            IF i = Nk THEN SubSeq(Key, 1, Nk) ELSE Expanded(columns[i - 1])
    IN  columns

KeyExpansion(Key) == RoundKeys(Key)[Nb * (Nr + 1)]

AddRoundKey(round, state, RoundKey) ==
    XorWithIv(state, SubSeq(RoundKey, round * Nb + 1, round * Nb + Nb))

SubBytes(s) == <<SubWord(s[1]), SubWord(s[2]), SubWord(s[3]), SubWord(s[4])>>

\* Mutant: the third row is shifted the other way.
ShiftRowsBack(s) ==
    << <<s[1][1], s[2][2], s[3][3], s[2][4]>>,
       <<s[2][1], s[3][2], s[4][3], s[3][4]>>,
       <<s[3][1], s[4][2], s[1][3], s[4][4]>>,
       <<s[4][1], s[1][2], s[2][3], s[1][4]>> >>

\* Row j is rotated j columns to the left.
ShiftRows(s) ==
    << <<s[1][1], s[2][2], s[3][3], s[4][4]>>,
       <<s[2][1], s[3][2], s[4][3], s[1][4]>>,
       <<s[3][1], s[4][2], s[1][3], s[2][4]>>,
       <<s[4][1], s[1][2], s[2][3], s[3][4]>> >>

\* uint8_t: the shift drops the top bit, which comes back as 0x1b.
xtime == [x \in Byte |-> IF x < 128 THEN 2 * x ELSE (2 * x - 256) (+) 27]

MixColumn(c) ==
    LET Tmp == c[1] (+) c[2] (+) c[3] (+) c[4]
    IN  <<c[1] (+) xtime[c[1] (+) c[2]] (+) Tmp, c[2] (+) xtime[c[2] (+) c[3]] (+) Tmp,
          c[3] (+) xtime[c[3] (+) c[4]] (+) Tmp, c[4] (+) xtime[c[4] (+) c[1]] (+) Tmp>>

MixColumns(s) == <<MixColumn(s[1]), MixColumn(s[2]), MixColumn(s[3]), MixColumn(s[4])>>

\* One of the equal rounds, as a function of the block.
Round(round, RoundKey) ==
    [state \in Block |->
        AddRoundKey(round, MixColumns(ShiftRows(SubBytes(state))), RoundKey)]

\* The block after each of the equal rounds.
Rounds(state, RoundKey) ==
    LET after[round \in 0..Nr - 1] ==
            IF round = 0 THEN AddRoundKey(0, state, RoundKey)
            ELSE Round(round, RoundKey)[after[round - 1]]
    IN  after

\* The last round has no MixColumns().
Cipher(state, RoundKey) ==
    AddRoundKey(Nr, ShiftRows(SubBytes(Rounds(state, RoundKey)[Nr - 1])), RoundKey)

-----------------------------------------------------------------------------
(* Decryption                                                              *)

\* n, if bit i of y is set.
IfBit(y, i, n) == IF (y \div 2^i) % 2 = 1 THEN n ELSE 0

\* y is below 16: the sum of x doubled as often as the bits of y say.
Multiply(x, y) ==
    IfBit(y, 0, x) (+) IfBit(y, 1, xtime[x]) (+) IfBit(y, 2, xtime[xtime[x]])
        (+) IfBit(y, 3, xtime[xtime[xtime[x]]])

\* Column c times a row of factors.
Product(c, m) == Multiply(c[1], m[1]) (+) Multiply(c[2], m[2])
                    (+) Multiply(c[3], m[3]) (+) Multiply(c[4], m[4])

InvMixColumn(c) ==
    <<Product(c, <<14, 11, 13, 9>>), Product(c, <<9, 14, 11, 13>>),
      Product(c, <<13, 9, 14, 11>>), Product(c, <<11, 13, 9, 14>>)>>

InvMixColumns(s) == <<InvMixColumn(s[1]), InvMixColumn(s[2]), InvMixColumn(s[3]), InvMixColumn(s[4])>>

InvSubWord(c) == <<getSBoxInvert(c[1]), getSBoxInvert(c[2]),
                   getSBoxInvert(c[3]), getSBoxInvert(c[4])>>

InvSubBytes(s) == <<InvSubWord(s[1]), InvSubWord(s[2]), InvSubWord(s[3]), InvSubWord(s[4])>>

\* Row j is rotated j columns to the right.
InvShiftRows(s) ==
    << <<s[1][1], s[4][2], s[3][3], s[2][4]>>,
       <<s[2][1], s[1][2], s[4][3], s[3][4]>>,
       <<s[3][1], s[2][2], s[1][3], s[4][4]>>,
       <<s[4][1], s[3][2], s[2][3], s[1][4]>> >>

InvRound(round, RoundKey) ==
    [state \in Block |->
        AddRoundKey(round, InvSubBytes(InvShiftRows(InvMixColumns(state))), RoundKey)]

\* The block after each round; the rounds count down, and the first has no
\* InvMixColumns().
InvRounds(state, RoundKey) ==
    LET after[round \in 0..Nr - 1] ==
            IF round = Nr - 1
            THEN AddRoundKey(round, InvSubBytes(InvShiftRows(
                                AddRoundKey(Nr, state, RoundKey))), RoundKey)
            ELSE InvRound(round, RoundKey)[after[round + 1]]
    IN  after

InvCipher(state, RoundKey) == InvRounds(state, RoundKey)[0]

-----------------------------------------------------------------------------
(* Counter                                                                 *)

\* The loop of AES_CTR_xcrypt_buffer() at byte bi: one at its limit becomes
\* zero and the loop goes on to the byte before it, another ends the loop.
IncrementAt(bi, loop) ==
    LET i    == bi \div 4 + 1
        j    == (bi % 4) + 1
        byte == loop.iv[i][j]
    IN  IF loop.over THEN loop
        ELSE IF byte = 255
             THEN [iv |-> [loop.iv EXCEPT ![i][j] = 0], over |-> FALSE]
             ELSE [iv |-> [loop.iv EXCEPT ![i][j] = byte + 1], over |-> TRUE]

IncrementIv(Iv) ==
    LET loop[n \in 0..16] ==
            IF n = 0 THEN [iv |-> Iv, over |-> FALSE]
            ELSE IncrementAt(16 - n, loop[n - 1])
    IN  loop[16].iv
=============================================================================
