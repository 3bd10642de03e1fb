---------------------------- MODULE MCFismosCore ----------------------------
(***************************************************************************)
(* FismosCore with buffers of two words of two values.                     *)
(***************************************************************************)
EXTENDS FismosService

CONSTANTS d0, d1

\* A word of an answer is named after all it depends on.  The key and the
\* "hash correct" word do not depend on the input.
MCCompute(m, x, k) ==
    IF m = KEYSTORAGE THEN <<m, k>>
    ELSE IF m = COMPARE THEN <<m>>
    ELSE <<m, k, x>>

\* The key is released for one input; a comparison succeeds when the MAC in
\* the second half is that of the data in the first.
MCAccepts(m, x) ==
    CASE m = KEYSTORAGE -> \A k \in Idx : x[k] = d1
      [] m = COMPARE    -> \A k \in 0 .. Half - 1 : x[k + Half] = x[k]
      [] OTHER          -> TRUE

\* The mode that reads half of the buffer and writes half, the one that reads
\* all and writes a word, the one that reads and writes all; between them they
\* fail in every way there is.
MCCommands ==
    {<<0, 0>>, <<65280, RSA>>, <<65280, COMPARE>>, <<65280, KEYSTORAGE>>}
=============================================================================
