----------------------------- MODULE AesTables ------------------------------
(***************************************************************************)
(* The tables and the arithmetic of aes.c next to those of the standard.   *)
(* What is said here of bytes is finite, and TLC evaluates all of it.      *)
(***************************************************************************)
EXTENDS Aes, AesStandard

\* The tables of aes.c are the S-box of the standard and its inverse; its
\* exclusive or and xtime() are the sum and the double of the standard.
ASSUME TablesAssumption ==
    /\ \A b \in Byte : /\ getSBoxValue(b) = StdSBox[b] /\ getSBoxInvert(StdSBox[b]) = b
                       /\ xtime[b] = StdDouble[b] /\ xtime[b] (+) b = StdTriple[b]
    /\ \A a, b \in Byte : a (+) b = StdPlus(a, b)
    /\ \A i \in 1..10 : Rcon[i + 1] = StdRcon(i)
=============================================================================
