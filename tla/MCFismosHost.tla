---------------------------- MODULE MCFismosHost ----------------------------
(***************************************************************************)
(* FismosHost with buffers of two words of two values.                     *)
(***************************************************************************)
EXTENDS FismosHost

CONSTANTS d0, d1

MCCompute(m, x, k) ==
    IF m = KEYSTORAGE THEN <<m, k>>
    ELSE IF m = COMPARE THEN <<m>>
    ELSE <<m, k, x>>

MCAccepts(m, x) ==
    CASE m = KEYSTORAGE -> \A k \in Idx : x[k] = d1
      [] m = COMPARE    -> \A k \in 0 .. Half - 1 : x[k + Half] = x[k]
      [] OTHER          -> TRUE

MCCommands == {<<0, 0>>} \union {Command(m) : m \in HostModes}

\* The status words the firmware writes.
WrittenStatus(m) == Done(m)
=============================================================================
