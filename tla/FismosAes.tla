----------------------------- MODULE FismosAes ------------------------------
(***************************************************************************)
(* What FISMOS_AES256_decrypt_CBC() passes to the cipher of aes.c, which   *)
(* the build fixes at Nk columns of key.                                   *)
(***************************************************************************)
EXTENDS Aes

\* uint8_t key[], 32 bytes.
key256 == << <<96, 61, 235, 16>>, <<21, 202, 113, 190>>, <<43, 115, 174, 240>>,
             <<133, 125, 119, 129>>, <<31, 53, 44, 7>>, <<59, 97, 8, 215>>,
             <<45, 152, 16, 163>>, <<9, 20, 223, 244>> >>

\* uint8_t iv[].
iv0 == << <<0, 1, 2, 3>>, <<4, 5, 6, 7>>, <<8, 9, 10, 11>>, <<12, 13, 14, 15>> >>

\* uint8_t out[]: what the test input is to decrypt to.
out == << << <<107, 193, 190, 226>>, <<46, 64, 159, 150>>,
             <<233, 61, 126, 17>>, <<115, 147, 23, 42>> >>,
          << <<174, 45, 138, 87>>, <<30, 3, 172, 156>>,
             <<158, 183, 111, 172>>, <<69, 175, 142, 81>> >>,
          << <<48, 200, 28, 70>>, <<163, 92, 228, 17>>,
             <<229, 251, 193, 25>>, <<26, 10, 82, 239>> >>,
          << <<246, 159, 36, 69>>, <<223, 79, 155, 23>>,
             <<173, 43, 65, 123>>, <<230, 108, 55, 16>> >> >>

\* A 32-bit word of the exchange buffer, here its two half words, gives four
\* bytes of in[], the most significant first.
BytesOf(w) == <<w[1] \div 256, w[1] % 256, w[2] \div 256, w[2] % 256>>

\* The sixteen words of the exchange buffer as the four blocks of in[].
in(words) ==
    LET BlockAt(i) == <<BytesOf(words[i]), BytesOf(words[i + 1]),
                        BytesOf(words[i + 2]), BytesOf(words[i + 3])>>
    IN  <<BlockAt(1), BlockAt(5), BlockAt(9), BlockAt(13)>>

\* The words the testbench puts into the exchange buffer.
bram_in ==
    LET W(hi, lo) == <<hi, lo>>
    IN  <<W(\hf58c, \h4c04), W(\hd6e5, \hf1ba), W(\h779e, \habfb), W(\h5f7b, \hfbd6),
          W(\h9cfc, \h4e96), W(\h7edb, \h808d), W(\h679f, \h777b), W(\hc670, \h2c7d),
          W(\h39f2, \h3369), W(\ha9d9, \hbacf), W(\ha530, \he263), W(\h0423, \h1461),
          W(\hb2eb, \h05e2), W(\hc39b, \he9fc), W(\hda6c, \h1907), W(\h8c6a, \h9d1b)>>
=============================================================================
